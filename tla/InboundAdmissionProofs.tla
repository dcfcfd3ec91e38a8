------------------------ MODULE InboundAdmissionProofs ------------------------
(***************************************************************************)
(* Proofs about the resource-ordered admission of inbound arrivals         *)
(* (InboundAdmission): its type invariant, the order of a stream, one      *)
(* refusal per resource, the reservations of the lanes, and that no        *)
(* wake-up is lost, for every set of requests, lanes and budgets.          *)
(*                                                                         *)
(* One refusal per resource is the claim that needs the others.  Blockers  *)
(* are read in one step and the refusal is decided in a later one, with    *)
(* charges returned between them.  What a request draws on only shrinks    *)
(* meanwhile (FootprintShrinks), and a refusal names only what it draws on *)
(* (RefusalInFootprint): that the lane's own reservation, where it covers  *)
(* the request, is really free is ReservationsKept.                        *)
(*                                                                         *)
(* That no wake-up is lost (StrandedBehindRefused) speaks of the moments   *)
(* at which every event is over.  Its invariant, Anchored, gives at every  *)
(* moment a reason why each waiter waits: it is blocked, or refused, or a  *)
(* scan that reaches it is under way or owed.  When every event is over    *)
(* the last reason is gone.                                                *)
(***************************************************************************)
EXTENDS InboundAdmission, ReservedCapacityProofs

\* Resources, as pairs of numbers; the index entry of a waiter; the lock.
Resource == Nat \X Nat
Index == [refusal : SUBSET Resource, holds : SUBSET Resource, parked : SUBSET Resource]
Lock == [busy : BOOLEAN, scans : SUBSET Resource, at : Resource, after : Request \cup {Nobody},
         judged : Request \cup {Nobody}, blockers : SUBSET Resource, held : SUBSET Resource,
         served : SUBSET Request]

\* The variables have their types, finitely many requests wait or are charged.
Types ==
    /\ phase \in [Request -> Phase] /\ ahead \in [Request -> SUBSET Request]
    /\ waiter \in [Request -> Index] /\ lock \in Lock
    /\ charged \in SUBSET Request /\ opened \in SUBSET charged
    /\ IsFiniteSet(Ungranted) /\ IsFiniteSet(charged)

\* The numbers are a strict order of those that wait or were granted by the
\* event that still holds the lock, total on those that wait.
Ordered ==
    /\ \A r \in Request :
        /\ ahead[r] \subseteq Ungranted \cup lock.served
        /\ r \notin ahead[r] /\ \A v \in ahead[r] : ahead[v] \subseteq ahead[r]
    /\ \A v, w \in Ungranted : v \in ahead[w] \/ w \in ahead[v] \/ v = w

\* The lock names a waiter taken out of the indices, and served ones are granted.
Locked ==
    /\ ~lock.busy => lock = Free
    /\ lock.judged # Nobody => lock.judged \in Ungranted /\ waiter[lock.judged] = NoIndex
    /\ \A r \in lock.served : phase[r] = "granted"
    /\ \A r \in Request : phase[r] # "waiting" => waiter[r] = NoIndex

\* A request is charged from its grant on, if it is one that charges.
Charged ==
    \A r \in Request :
        /\ r \in charged => Charges(r) /\ phase[r] \in {"granted", "open", "closing", "dispatch"}
        /\ phase[r] \in {"open", "closing", "dispatch"} => r \in charged
        /\ phase[r] = "granted" /\ Charges(r) => r \in charged

\* The reading of blockers stands until the judgement ends: nobody earlier
\* has the stream of the judged waiter or holds what it draws on by then.
ReadingStands ==
    lock.judged # Nobody /\ lock.blockers = {} =>
        \A v \in Earlier(lock.judged) :
            /\ Stream(v) # Stream(lock.judged)
            /\ Held(v) \cap footprint(charged, opened, lock.judged) = {}

\* The inductive invariant.
AdmissionInv ==
    /\ Types /\ Ordered /\ Locked /\ Charged
    /\ ReservationsKept /\ ReadingStands /\ RefusalsAgree

-----------------------------------------------------------------------------
(* Sums and counts of charges.                                             *)

Size == [r \in Request |-> Requests[r].bytes]

LEMMA SizeWeighs ==
    ASSUME NEW S \in SUBSET Request, IsFiniteSet(S)
    PROVE  Weighs(Size, S)
BY RequestsAssumption DEF Size, Weighs

LEMMA SumIsWeight ==
    ASSUME NEW S \in SUBSET Request, IsFiniteSet(S)
    PROVE  SumBytes(S) = Weight(Size, S)
<1> DEFINE R(f) == f = [s \in SUBSET S |->
                          IF s = {} THEN 0
                          ELSE Requests[Pick(s)].bytes + f[s \ {Pick(s)}]]
<1>1. SumBytes(S) = (CHOOSE f : R(f))[S]
  BY DEF SumBytes, MapThenSumSet, MapThenFoldSet, Pick
<1>2. ASSUME NEW f PROVE R(f) <=> Folding(f, Size, S)
  <2>1. ASSUME NEW s \in SUBSET S, s # {} PROVE Size[Pick(s)] = Requests[Pick(s)].bytes
    BY <2>1, PickIn DEF Size
  <2>2. ASSUME NEW s \in SUBSET S
        PROVE  (IF s = {} THEN 0 ELSE Requests[Pick(s)].bytes + f[s \ {Pick(s)}])
               = (IF s = {} THEN 0 ELSE Size[Pick(s)] + f[s \ {Pick(s)}])
    BY <2>1
  <2> QED BY <2>2 DEF Folding
<1>3. (CHOOSE f : R(f)) = (CHOOSE f : Folding(f, Size, S))
  <2> HIDE DEF R
  <2> QED BY <1>2
<1> QED BY <1>1, <1>3, SizeWeighs, ChosenFolding

LEMMA SumBytesNat ==
    ASSUME NEW S \in SUBSET Request, IsFiniteSet(S)
    PROVE  SumBytes(S) \in Nat
BY SumIsWeight, SizeWeighs, WeightNat

LEMMA SumBytesMonotone ==
    ASSUME NEW T \in SUBSET Request, IsFiniteSet(T), NEW S \in SUBSET T
    PROVE  SumBytes(S) <= SumBytes(T)
<1>1. S \in SUBSET Request /\ IsFiniteSet(S)
  BY FS_Subset
<1>2. Weighs(Size, S) /\ Weighs(Size, T) /\ \A x \in S : Size[x] <= Size[x]
  BY <1>1, SizeWeighs, RequestsAssumption DEF Size
<1> QED BY <1>1, <1>2, SumIsWeight, WeightMonotone

LEMMA SumBytesAdd ==
    ASSUME NEW S \in SUBSET Request, IsFiniteSet(S), NEW w \in Request, w \notin S
    PROVE  SumBytes(S \cup {w}) = SumBytes(S) + Requests[w].bytes
<1>1. S \cup {w} \in SUBSET Request /\ IsFiniteSet(S \cup {w})
  BY FS_AddElement
<1>2. Size[w] = Requests[w].bytes /\ Size[w] \in Nat
  BY RequestsAssumption DEF Size
<1> QED BY <1>1, <1>2, SumIsWeight, SizeWeighs, WeightAdd

\* What the lanes hold, in arrivals and in bytes.
LEMMA LanesHold ==
    ASSUME NEW S \in SUBSET Request, IsFiniteSet(S)
    PROVE  Classes(Counts(S), ReservedTransfers) /\ Classes(Sizes(S), ReservedBytes)
<1>1. ASSUME NEW l \in Lanes PROVE CountOf(S, l) \in Nat /\ BytesOf(S, l) \in Nat
  <2>1. OnLane(S, l) \in SUBSET Request /\ IsFiniteSet(OnLane(S, l))
    BY FS_Subset DEF OnLane
  <2> QED BY <2>1, SumBytesNat, FS_CardinalityType DEF CountOf, BytesOf
<1> QED BY <1>1, CapacityAssumption DEF Classes, Counts, Sizes

LEMMA LanesHoldLess ==
    ASSUME NEW T \in SUBSET Request, IsFiniteSet(T), NEW S \in SUBSET T, NEW l \in Lanes
    PROVE  Counts(S)[l] <= Counts(T)[l] /\ Sizes(S)[l] <= Sizes(T)[l]
<1>1. /\ OnLane(S, l) \in SUBSET OnLane(T, l) /\ OnLane(T, l) \in SUBSET Request
      /\ IsFiniteSet(OnLane(T, l))
  BY FS_Subset DEF OnLane
<1>2. CountOf(S, l) <= CountOf(T, l) /\ BytesOf(S, l) <= BytesOf(T, l)
  BY <1>1, FS_Subset, SumBytesMonotone DEF CountOf, BytesOf
<1> QED BY <1>2 DEF Counts, Sizes

LEMMA LanesHoldMore ==
    ASSUME NEW S \in SUBSET Request, IsFiniteSet(S), NEW w \in Request, w \notin S
    PROVE  /\ Counts(S \cup {w}) = [Counts(S) EXCEPT ![Requests[w].lane] = @ + 1]
           /\ Sizes(S \cup {w})
              = [Sizes(S) EXCEPT ![Requests[w].lane] = @ + Requests[w].bytes]
<1> DEFINE k == Requests[w].lane
           T == S \cup {w}
<1>1. OnLane(T, k) = OnLane(S, k) \cup {w} /\ w \notin OnLane(S, k)
  BY DEF OnLane
<1>2. \A l \in Lanes \ {k} : OnLane(T, l) = OnLane(S, l)
  BY DEF OnLane
<1>3. IsFiniteSet(OnLane(S, k)) /\ OnLane(S, k) \in SUBSET Request
  BY FS_Subset DEF OnLane
<1>4. CountOf(T, k) = CountOf(S, k) + 1
  BY <1>1, <1>3, FS_AddElement DEF CountOf
<1>5. BytesOf(T, k) = BytesOf(S, k) + Requests[w].bytes
  BY <1>1, <1>3, SumBytesAdd DEF BytesOf
<1>6. k \in Lanes
  BY RequestsAssumption
<1>7. \A l \in Lanes \ {k} : CountOf(T, l) = CountOf(S, l) /\ BytesOf(T, l) = BytesOf(S, l)
  BY <1>2 DEF CountOf, BytesOf
<1> HIDE DEF k, T
<1>8. Counts(T) = [Counts(S) EXCEPT ![k] = @ + 1]
  BY <1>4, <1>6, <1>7 DEF Counts
<1>9. Sizes(T) = [Sizes(S) EXCEPT ![k] = @ + Requests[w].bytes]
  BY <1>5, <1>6, <1>7 DEF Sizes
<1> QED BY <1>8, <1>9 DEF k, T

-----------------------------------------------------------------------------
(* The ledger.                                                             *)

\* ReservationsKept, of any charges.
LanesKept(S) ==
    /\ ReservationsFree(Counts(S), Transfers, ReservedTransfers)
    /\ ReservationsFree(Sizes(S), Bytes, ReservedBytes)

LEMMA LanesKeptEmpty == LanesKept({})
<1>1. Classes(Counts({}), ReservedTransfers) /\ Classes(Sizes({}), ReservedBytes)
  BY LanesHold, FS_EmptySet
<1>2. \A l \in Lanes : OnLane({}, l) = {}
  BY DEF OnLane
<1>3. SumBytes({}) = 0
  BY SumIsWeight, UnitsEmpty, FS_EmptySet
<1>4. \A l \in Lanes : Counts({})[l] = 0 /\ Sizes({})[l] = 0
  BY <1>2, <1>3, FS_EmptySet DEF Counts, Sizes, CountOf, BytesOf
<1> QED BY <1>1, <1>4, CapacityAssumption, EmptyIsFree DEF LanesKept

LEMMA LanesKeptLess ==
    ASSUME NEW T \in SUBSET Request, IsFiniteSet(T), NEW S \in SUBSET T, LanesKept(T)
    PROVE  LanesKept(S)
<1>1. S \in SUBSET Request /\ IsFiniteSet(S)
  BY FS_Subset
<1>2. /\ Classes(Counts(S), ReservedTransfers) /\ Classes(Sizes(S), ReservedBytes)
      /\ Classes(Counts(T), ReservedTransfers) /\ Classes(Sizes(T), ReservedBytes)
  BY <1>1, LanesHold
<1>3. \A l \in Lanes : Counts(S)[l] <= Counts(T)[l] /\ Sizes(S)[l] <= Sizes(T)[l]
  BY LanesHoldLess
<1>4. DOMAIN ReservedTransfers = Lanes /\ DOMAIN ReservedBytes = Lanes
  BY CapacityAssumption
<1> QED BY <1>2, <1>3, <1>4, CapacityAssumption, ReleaseKeepsReservations DEF LanesKept

LEMMA LanesKeptMore ==
    ASSUME NEW S \in SUBSET Request, IsFiniteSet(S), NEW w \in Request, w \notin S,
           LanesKept(S), FitsMailbox(S, w)
    PROVE  LanesKept(S \cup {w})
<1>1. Classes(Counts(S), ReservedTransfers) /\ Classes(Sizes(S), ReservedBytes)
  BY LanesHold
<1>2. /\ Requests[w].lane \in DOMAIN ReservedTransfers
      /\ Requests[w].lane \in DOMAIN ReservedBytes
      /\ Requests[w].bytes \in Nat /\ Transfers \in Nat /\ Bytes \in Nat
  BY CapacityAssumption, RequestsAssumption
<1>3. ReservationsFree(Counts(S \cup {w}), Transfers, ReservedTransfers)
  <2>1. ReservationsFree([Counts(S) EXCEPT ![Requests[w].lane] = @ + 1],
                         Transfers, ReservedTransfers)
    BY <1>1, <1>2, FittingKeepsReservations DEF LanesKept, FitsMailbox
  <2> QED BY <2>1, LanesHoldMore
<1>4. ReservationsFree(Sizes(S \cup {w}), Bytes, ReservedBytes)
  <2>1. ReservationsFree([Sizes(S) EXCEPT ![Requests[w].lane] = @ + Requests[w].bytes],
                         Bytes, ReservedBytes)
    BY <1>1, <1>2, FittingKeepsReservations DEF LanesKept, FitsMailbox
  <2> QED BY <2>1, LanesHoldMore
<1> QED BY <1>3, <1>4 DEF LanesKept

\* A reservation that covers a request goes on covering it while charges are
\* only returned.
LEMMA CoversLess ==
    ASSUME NEW T \in SUBSET Request, IsFiniteSet(T), NEW S \in SUBSET T, NEW r \in Request,
           covers(T, r)
    PROVE  covers(S, r)
<1> DEFINE l == Requests[r].lane
<1>1. l \in Lanes /\ Requests[r].bytes \in Nat
  BY RequestsAssumption
<1>2. Counts(S)[l] <= Counts(T)[l] /\ Sizes(S)[l] <= Sizes(T)[l]
  BY <1>1, LanesHoldLess
<1>3. S \in SUBSET Request /\ IsFiniteSet(S)
  BY FS_Subset
<1>4. /\ Counts(S)[l] \in Nat /\ Counts(T)[l] \in Nat
      /\ Sizes(S)[l] \in Nat /\ Sizes(T)[l] \in Nat
      /\ ReservedTransfers[l] \in Nat /\ ReservedBytes[l] \in Nat
  BY <1>1, <1>3, LanesHold, CapacityAssumption DEF Classes
<1>5. /\ Counts(T)[l] + 1 <= ReservedTransfers[l]
      /\ Sizes(T)[l] + Requests[r].bytes <= ReservedBytes[l]
  BY DEF covers, fixed_reservation_covers
<1>6. /\ Counts(S)[l] + 1 <= ReservedTransfers[l]
      /\ Sizes(S)[l] + Requests[r].bytes <= ReservedBytes[l]
  <2> HIDE DEF l
  <2> QED BY <1>1, <1>2, <1>4, <1>5
<1> QED BY <1>6 DEF covers, fixed_reservation_covers

\* The same of the floor of a slot and the messages it has open.
LEMMA InFloorLess ==
    ASSUME NEW T \in SUBSET Request, IsFiniteSet(T), NEW S \in SUBSET T, NEW r \in Request,
           InFloor(T, r)
    PROVE  InFloor(S, r)
<1> DEFINE p == Requests[r].introducer
           Of(U) == {o \in U : Requests[o].introducer = p}
<1>1. p \in Range(Introducers) /\ p \in Open!Principal
  BY DEF InFloor, Open!WithinFloor, Open!Principal
<1>2. OpenUse(S)[p] = SumBytes(Of(S)) /\ OpenUse(T)[p] = SumBytes(Of(T))
  BY <1>1 DEF OpenUse
<1>3. /\ Of(T) \in SUBSET Request /\ IsFiniteSet(Of(T)) /\ Of(S) \in SUBSET Of(T)
      /\ IsFiniteSet(Of(S)) /\ Of(S) \in SUBSET Request
  BY FS_Subset
<1>4. SumBytes(Of(S)) <= SumBytes(Of(T)) /\ SumBytes(Of(S)) \in Nat /\ SumBytes(Of(T)) \in Nat
  BY <1>3, SumBytesMonotone, SumBytesNat
<1>5. OpenUse(T)[p] + Requests[r].bytes <= OpenFloor
  BY DEF InFloor, Open!WithinFloor
<1>6. OpenUse(S)[p] + Requests[r].bytes <= OpenFloor
  <2>1. Requests[r].bytes \in Nat /\ OpenFloor \in Nat
    BY RequestsAssumption, CapacityAssumption
  <2> HIDE DEF p, Of
  <2> QED BY <1>2, <1>4, <1>5, <2>1
<1> QED BY <1>1, <1>6 DEF InFloor, Open!WithinFloor

\* What a request draws on only shrinks while charges are returned.
LEMMA FootprintShrinks ==
    ASSUME NEW C \in SUBSET Request, IsFiniteSet(C), NEW D \in SUBSET C,
           NEW O \in SUBSET C, NEW P \in SUBSET O, NEW r \in Request
    PROVE  footprint(D, P, r) \subseteq footprint(C, O, r)
<1>1. covers(C, r) => covers(D, r)
  BY CoversLess
<1>2. InFloor(O, r) => InFloor(P, r)
  <2>1. O \in SUBSET Request /\ IsFiniteSet(O)
    BY FS_Subset
  <2> QED BY <2>1, InFloorLess
<1> QED BY <1>1, <1>2 DEF footprint

\* A refusal names only what the request draws on: where its lane's
\* reservation covers it the mailbox takes it, and within its slot's floor
\* the open table does.
LEMMA RefusalInFootprint ==
    ASSUME NEW C \in SUBSET Request, IsFiniteSet(C), NEW O \in SUBSET C, LanesKept(C),
           NEW r \in Request
    PROVE  refusal_of(C, O, r) \subseteq footprint(C, O, r)
<1>1. CASE ~Charges(r) \/ ~FitsPeer(C, r)
  BY <1>1 DEF refusal_of, footprint
<1>2. CASE Charges(r) /\ FitsPeer(C, r) /\ ~FitsMailbox(C, r)
  <2>1. ~covers(C, r)
    <3>1. SUFFICES ASSUME covers(C, r) PROVE FitsMailbox(C, r)
      BY <1>2
    <3>2. Classes(Counts(C), ReservedTransfers) /\ Classes(Sizes(C), ReservedBytes)
      BY LanesHold
    <3>3. /\ Requests[r].lane \in DOMAIN ReservedTransfers
          /\ Requests[r].lane \in DOMAIN ReservedBytes
          /\ Requests[r].bytes \in Nat /\ Transfers \in Nat /\ Bytes \in Nat
      BY CapacityAssumption, RequestsAssumption
    <3>4. fair_reservation_fits(Requests[r].lane, Counts(C), 1, Transfers, ReservedTransfers)
      BY <3>1, <3>2, <3>3, CoveredFits DEF covers, LanesKept
    <3>5. fair_reservation_fits(Requests[r].lane, Sizes(C), Requests[r].bytes,
                                Bytes, ReservedBytes)
      BY <3>1, <3>2, <3>3, CoveredFits DEF covers, LanesKept
    <3> QED BY <3>4, <3>5 DEF FitsMailbox
  <2> QED BY <1>2, <2>1 DEF refusal_of, footprint
<1>3. CASE Charges(r) /\ FitsPeer(C, r) /\ FitsMailbox(C, r) /\ ~FitsOpen(O, r)
  <2>1. Opening(r) /\ ~Open!AdmitsItems(OpenUse(O), Requests[r].introducer, Requests[r].bytes)
    BY <1>3 DEF FitsOpen
  <2>2. ~InFloor(O, r)
    <3> DEFINE p == Requests[r].introducer
    <3>1. SUFFICES ASSUME InFloor(O, r)
                   PROVE  Open!AdmitsItems(OpenUse(O), p, Requests[r].bytes)
      BY <2>1
    <3>2. /\ p \in Range(Introducers) /\ p \in Open!Principal
          /\ p \notin Open!OwnShare /\ p # "Unbound"
          /\ OpenUse(O)[p] + Requests[r].bytes <= OpenFloor
      BY <3>1, CapacityAssumption DEF InFloor, Open!WithinFloor, Open!Principal
    <3>3. OpenUse(O)[p] \in Nat /\ Requests[r].bytes \in Nat /\ OpenFloor \in Nat
      <4>1. OpenUse(O)[p] = SumBytes({o \in O : Requests[o].introducer = p})
        BY <3>2 DEF OpenUse
      <4>2. /\ {o \in O : Requests[o].introducer = p} \in SUBSET Request
            /\ IsFiniteSet({o \in O : Requests[o].introducer = p})
        BY FS_Subset
      <4> QED BY <4>1, <4>2, SumBytesNat, RequestsAssumption, CapacityAssumption
    <3>4. /\ Open!PoolItems(p, OpenUse(O)[p]) = 0
          /\ Open!PoolItems(p, OpenUse(O)[p] + Requests[r].bytes) = 0
      BY <3>2, <3>3 DEF Open!PoolItems
    <3>5. Open!PoolItems(p, OpenUse(O)[p] + Requests[r].bytes)
          - Open!PoolItems(p, OpenUse(O)[p]) = 0
      BY <3>4
    <3> QED BY <3>2, <3>5 DEF Open!AdmitsItems
  <2> QED BY <1>3, <2>1, <2>2 DEF refusal_of, footprint
<1>4. CASE Charges(r) /\ FitsPeer(C, r) /\ FitsMailbox(C, r) /\ FitsOpen(O, r)
  BY <1>4 DEF refusal_of
<1> QED BY <1>1, <1>2, <1>3, <1>4

\* What a budget admits it also admits once charges were returned.
LEMMA FitsPeerLess ==
    ASSUME NEW T \in SUBSET Request, IsFiniteSet(T), NEW S \in SUBSET T, NEW r \in Request,
           FitsPeer(T, r)
    PROVE  FitsPeer(S, r)
<1> DEFINE Of(U) == {c \in U : Requests[c].peer = Requests[r].peer}
<1>1. /\ Of(T) \in SUBSET Request /\ IsFiniteSet(Of(T)) /\ Of(S) \in SUBSET Of(T)
      /\ IsFiniteSet(Of(S)) /\ Of(S) \in SUBSET Request
  BY FS_Subset
<1>2. /\ Cardinality(Of(S)) <= Cardinality(Of(T)) /\ SumBytes(Of(S)) <= SumBytes(Of(T))
      /\ Cardinality(Of(S)) \in Nat /\ Cardinality(Of(T)) \in Nat
      /\ SumBytes(Of(S)) \in Nat /\ SumBytes(Of(T)) \in Nat
  <2> HIDE DEF Of
  <2> QED BY <1>1, FS_Subset, FS_CardinalityType, SumBytesMonotone, SumBytesNat
<1>3. /\ Cardinality(Of(T)) + 1 <= PeerTransfers
      /\ SumBytes(Of(T)) + Requests[r].bytes <= PeerBytes
  BY DEF FitsPeer
<1>4. Requests[r].bytes \in Nat /\ PeerTransfers \in Nat /\ PeerBytes \in Nat
  BY RequestsAssumption, CapacityAssumption
<1>5. /\ Cardinality(Of(S)) + 1 <= PeerTransfers
      /\ SumBytes(Of(S)) + Requests[r].bytes <= PeerBytes
  <2> HIDE DEF Of
  <2> QED BY <1>2, <1>3, <1>4
<1> QED BY <1>5 DEF FitsPeer

LEMMA FitsMailboxLess ==
    ASSUME NEW T \in SUBSET Request, IsFiniteSet(T), NEW S \in SUBSET T, NEW r \in Request,
           FitsMailbox(T, r)
    PROVE  FitsMailbox(S, r)
<1> DEFINE l == Requests[r].lane
<1>1. S \in SUBSET Request /\ IsFiniteSet(S)
  BY FS_Subset
<1>2. /\ Classes(Counts(S), ReservedTransfers) /\ Classes(Sizes(S), ReservedBytes)
      /\ Classes(Counts(T), ReservedTransfers) /\ Classes(Sizes(T), ReservedBytes)
  BY <1>1, LanesHold
<1>3. /\ DOMAIN ReservedTransfers = Lanes /\ DOMAIN ReservedBytes = Lanes
      /\ l \in Lanes /\ Requests[r].bytes \in Nat /\ Transfers \in Nat /\ Bytes \in Nat
  BY CapacityAssumption, RequestsAssumption
<1>4. \A k \in Lanes : Counts(S)[k] <= Counts(T)[k] /\ Sizes(S)[k] <= Sizes(T)[k]
  BY LanesHoldLess
<1>5. fair_reservation_fits(l, Counts(S), 1, Transfers, ReservedTransfers)
  <2>1. fair_reservation_fits(l, Counts(T), 1, Transfers, ReservedTransfers)
    BY DEF FitsMailbox
  <2> HIDE DEF l
  <2> QED BY <1>2, <1>3, <1>4, <2>1, FittingSurvivesRelease
<1>6. fair_reservation_fits(l, Sizes(S), Requests[r].bytes, Bytes, ReservedBytes)
  <2>1. fair_reservation_fits(l, Sizes(T), Requests[r].bytes, Bytes, ReservedBytes)
    BY DEF FitsMailbox
  <2> HIDE DEF l
  <2> QED BY <1>2, <1>3, <1>4, <2>1, FittingSurvivesRelease
<1> QED BY <1>5, <1>6 DEF FitsMailbox

\* The pool's items by principal, and their sum.
PoolOf(use) == [p \in Open!Principal |-> Open!PoolItems(p, use[p])]

LEMMA PrincipalsFinite == IsFiniteSet(Open!Principal)
<1>1. IsFiniteSet(Range(Introducers)) /\ IsFiniteSet({})
  BY CapacityAssumption, FS_EmptySet
<1>2. IsFiniteSet((((Range(Introducers) \cup {"Local"}) \cup {"Inbox"}) \cup {"Custody"}) \cup {"Unbound"})
  BY <1>1, FS_AddElement
<1>3. Open!Principal = (((Range(Introducers) \cup {"Local"}) \cup {"Inbox"}) \cup {"Custody"}) \cup {"Unbound"}
  BY DEF Open!Principal, Open!OwnShare
<1> QED BY <1>2, <1>3

LEMMA PoolItemsNat ==
    ASSUME NEW p \in Open!Principal, NEW n \in Nat
    PROVE  Open!PoolItems(p, n) \in Nat
BY CapacityAssumption DEF Open!PoolItems

LEMMA PoolHeldIsWeight ==
    ASSUME NEW use \in [Open!Principal -> Nat]
    PROVE  /\ Weighs(PoolOf(use), Open!Principal)
           /\ Open!PoolHeld(use) = Weight(PoolOf(use), Open!Principal)
<1> DEFINE P == Open!Principal
           R(f) == f = [s \in SUBSET P |->
                          IF s = {} THEN 0
                          ELSE Open!PoolItems(Pick(s), use[Pick(s)]) + f[s \ {Pick(s)}]]
<1>1. Open!PoolHeld(use) = (CHOOSE f : R(f))[P]
  BY DEF Open!PoolHeld, Open!MapThenSumSet, Open!MapThenFoldSet, Pick
<1>2. ASSUME NEW f PROVE R(f) <=> Folding(f, PoolOf(use), P)
  <2>1. ASSUME NEW s \in SUBSET P, s # {}
        PROVE  PoolOf(use)[Pick(s)] = Open!PoolItems(Pick(s), use[Pick(s)])
    BY <2>1, PickIn DEF PoolOf
  <2>2. ASSUME NEW s \in SUBSET P
        PROVE  (IF s = {} THEN 0
                ELSE Open!PoolItems(Pick(s), use[Pick(s)]) + f[s \ {Pick(s)}])
               = (IF s = {} THEN 0 ELSE PoolOf(use)[Pick(s)] + f[s \ {Pick(s)}])
    BY <2>1
  <2> HIDE DEF P
  <2> QED BY <2>2 DEF Folding
<1>3. (CHOOSE f : R(f)) = (CHOOSE f : Folding(f, PoolOf(use), P))
  <2> HIDE DEF R, P
  <2> QED BY <1>2
<1>4. Weighs(PoolOf(use), P)
  <2>1. \A p \in P : PoolOf(use)[p] \in Nat
    BY PoolItemsNat DEF PoolOf
  <2> QED BY <2>1, PrincipalsFinite DEF Weighs
<1>5. (CHOOSE f : Folding(f, PoolOf(use), P))[P] = Weight(PoolOf(use), P)
  <2> HIDE DEF P
  <2> QED BY <1>4, ChosenFolding
<1> QED BY <1>1, <1>3, <1>4, <1>5

\* A share of a pool among more claimants is no larger.
LEMMA CeilDivShrinks ==
    ASSUME NEW a \in Nat, NEW m \in Nat \ {0}, NEW n \in Nat \ {0}, m <= n
    PROVE  Open!CeilDiv(a, n) <= Open!CeilDiv(a, m)
<1> DEFINE q == (a + n - 1) \div n
           p == (a + m - 1) \div m
<1>1. q \in Nat /\ p \in Nat
  OBVIOUS
<1>2. n * q <= a + n - 1
  OBVIOUS
<1>3. a + m - 1 < m * (p + 1)
  OBVIOUS
<1>4. SUFFICES ASSUME p < q PROVE FALSE
  BY <1>1 DEF Open!CeilDiv
<1>5. PICK k \in Nat : q = k + 1
  BY <1>1, <1>4
<1>6. n * q = n * k + n
  BY <1>5
<1>7. m * k <= n * k
  OBVIOUS
<1>8. m * (p + 1) <= m * q
  BY <1>1, <1>4
<1>9. m * q = m * k + m
  BY <1>5
<1>10. m * k \in Nat /\ n * k \in Nat
  OBVIOUS
<1> HIDE DEF p, q
<1> QED BY <1>1, <1>2, <1>3, <1>6, <1>7, <1>8, <1>9, <1>10

\* The principals that claim the pool once this one does.
Claiming(use, p) == {q \in Open!Principal : Open!PoolItems(q, use[q]) > 0} \cup {p}

LEMMA ClaimingCounted ==
    ASSUME NEW use \in [Open!Principal -> Nat], NEW p \in Open!Principal
    PROVE  /\ IsFiniteSet(Claiming(use, p))
           /\ Cardinality(Claiming(use, p)) \in Nat \ {0}
           /\ Open!Claimants(use) + (IF Open!PoolItems(p, use[p]) = 0 THEN 1 ELSE 0)
              = Cardinality(Claiming(use, p))
<1> DEFINE C == {q \in Open!Principal : Open!PoolItems(q, use[q]) > 0}
<1>1. IsFiniteSet(C) /\ Open!Claimants(use) = Cardinality(C)
  <2>1. C \in SUBSET Open!Principal
    OBVIOUS
  <2>2. Open!Claimants(use) = Cardinality(C)
    BY DEF Open!Claimants, Open!Cardinality, Cardinality
  <2> HIDE DEF C
  <2> QED BY <2>1, <2>2, PrincipalsFinite, FS_Subset
<1>2. p \in C <=> Open!PoolItems(p, use[p]) # 0
  BY PoolItemsNat
<1>3. Claiming(use, p) = C \cup {p}
  BY DEF Claiming
<1> HIDE DEF C
<1>4. /\ IsFiniteSet(C \cup {p}) /\ Cardinality(C) \in Nat
      /\ Cardinality(C \cup {p}) = IF p \in C THEN Cardinality(C) ELSE Cardinality(C) + 1
  BY <1>1, FS_AddElement, FS_CardinalityType
<1>5. Cardinality(C \cup {p}) # 0
  BY <1>4, FS_EmptySet
<1>6. Cardinality(C \cup {p}) \in Nat
  BY <1>4
<1> QED BY <1>1, <1>2, <1>3, <1>4, <1>5, <1>6

\* What the table admits it also admits once its principals hold less.
LEMMA AdmitsLess ==
    ASSUME NEW more \in [Open!Principal -> Nat], NEW less \in [Open!Principal -> Nat],
           \A q \in Open!Principal : less[q] <= more[q],
           NEW p \in Open!Principal, NEW n \in Nat, Open!AdmitsItems(more, p, n)
    PROVE  Open!AdmitsItems(less, p, n)
<1> DEFINE P == Open!Principal
           Claimed(use) == Open!PoolItems(p, use[p])
           After(use) == Open!PoolItems(p, use[p] + n)
<1>1. less[p] \in Nat /\ more[p] \in Nat /\ less[p] <= more[p] /\ OpenFloor \in Nat /\ OpenPoolBytes \in Nat
  BY CapacityAssumption
<1>2. CASE p \in Open!OwnShare
  <2>1. Open!Reserved(p) = 0
    BY <1>2 DEF Open!OwnShare, Open!Reserved
  <2>2. more[p] + n <= 0
    BY <1>2, <2>1 DEF Open!AdmitsItems
  <2>3. less[p] + n <= 0
    BY <1>1, <2>2
  <2> QED BY <1>2, <2>1, <2>3 DEF Open!AdmitsItems
<1>3. CASE p \notin Open!OwnShare
  <2>1. \A q \in P : /\ PoolOf(less)[q] \in Nat /\ PoolOf(more)[q] \in Nat
                     /\ PoolOf(less)[q] <= PoolOf(more)[q]
                     /\ PoolOf(less)[q] = Open!PoolItems(q, less[q])
                     /\ PoolOf(more)[q] = Open!PoolItems(q, more[q])
    BY CapacityAssumption DEF PoolOf, Open!PoolItems
  <2>2. /\ Claimed(less) \in Nat /\ Claimed(more) \in Nat
        /\ After(less) \in Nat /\ After(more) \in Nat /\ After(less) <= After(more)
        /\ After(less) - Claimed(less) \in Nat
        /\ After(less) - Claimed(less) <= After(more) - Claimed(more)
    BY <1>1, <1>3 DEF Open!PoolItems
  <2>3. CASE After(more) - Claimed(more) = 0
    <3>1. After(less) - Claimed(less) = 0
      BY <2>2, <2>3
    <3> QED BY <1>3, <3>1 DEF Open!AdmitsItems
  <2>4. CASE After(more) - Claimed(more) # 0
    <3> DEFINE Share(use) == Open!CeilDiv(OpenPoolBytes, Cardinality(Claiming(use, p)))
    <3>1. /\ Open!PoolHeld(more) + (After(more) - Claimed(more)) <= OpenPoolBytes
          /\ Claimed(more) + (After(more) - Claimed(more)) <= Share(more)
      BY <1>3, <2>4, ClaimingCounted DEF Open!AdmitsItems
    <3>2. /\ Weighs(PoolOf(less), P) /\ Weighs(PoolOf(more), P)
          /\ Open!PoolHeld(less) = Weight(PoolOf(less), P)
          /\ Open!PoolHeld(more) = Weight(PoolOf(more), P)
      BY PoolHeldIsWeight
    <3> DEFINE others(use) == Weight(PoolOf(use), P \ {p})
    <3>3. /\ Weighs(PoolOf(less), P \ {p}) /\ Weighs(PoolOf(more), P \ {p})
          /\ others(less) \in Nat /\ others(more) \in Nat
          /\ Open!PoolHeld(less) = others(less) + Claimed(less)
          /\ Open!PoolHeld(more) = others(more) + Claimed(more)
      <4> HIDE DEF P
      <4>1. p \in P
        BY DEF P
      <4> QED BY <2>1, <3>2, <4>1, WeightRemove
    <3>4. others(less) <= others(more)
      <4> HIDE DEF P
      <4> QED BY <2>1, <3>3, WeightMonotone
    <3>5. Open!PoolHeld(less) + (After(less) - Claimed(less)) <= OpenPoolBytes
      <4> HIDE DEF P, Claimed, After, others
      <4> QED BY <1>1, <2>2, <3>1, <3>3, <3>4
    <3>6. Share(more) <= Share(less) /\ Share(more) \in Nat /\ Share(less) \in Nat
      <4>1. Claiming(less, p) \in SUBSET Claiming(more, p)
        BY <2>1 DEF Claiming
      <4>2. Cardinality(Claiming(less, p)) <= Cardinality(Claiming(more, p))
        BY <4>1, ClaimingCounted, FS_Subset
      <4>3. Cardinality(Claiming(less, p)) \in Nat \ {0} /\ Cardinality(Claiming(more, p)) \in Nat \ {0}
        BY ClaimingCounted
      <4>4. \A k \in Nat \ {0} : Open!CeilDiv(OpenPoolBytes, k) \in Nat
        BY <1>1 DEF Open!CeilDiv
      <4> QED BY <1>1, <4>2, <4>3, <4>4, CeilDivShrinks
    <3>7. Claimed(less) + (After(less) - Claimed(less)) <= Share(less)
      <4> HIDE DEF Claimed, After, Share
      <4> QED BY <2>2, <3>1, <3>6
    <3> QED BY <1>3, <3>5, <3>7, ClaimingCounted DEF Open!AdmitsItems
  <2> QED BY <2>3, <2>4
<1> QED BY <1>2, <1>3

LEMMA FitsOpenLess ==
    ASSUME NEW T \in SUBSET Request, IsFiniteSet(T), NEW S \in SUBSET T, NEW r \in Request,
           FitsOpen(T, r)
    PROVE  FitsOpen(S, r)
<1> DEFINE Of(U, p) == {o \in U : Requests[o].introducer = p}
<1>1. ASSUME NEW p \in Open!Principal
      PROVE  /\ OpenUse(S)[p] \in Nat /\ OpenUse(T)[p] \in Nat /\ OpenUse(S)[p] <= OpenUse(T)[p]
  <2>1. /\ Of(T, p) \in SUBSET Request /\ IsFiniteSet(Of(T, p)) /\ Of(S, p) \in SUBSET Of(T, p)
        /\ IsFiniteSet(Of(S, p)) /\ Of(S, p) \in SUBSET Request
    BY FS_Subset
  <2>2. OpenUse(S)[p] = SumBytes(Of(S, p)) /\ OpenUse(T)[p] = SumBytes(Of(T, p))
    BY DEF OpenUse
  <2> HIDE DEF Of
  <2> QED BY <2>1, <2>2, SumBytesMonotone, SumBytesNat
<1>2. OpenUse(S) \in [Open!Principal -> Nat] /\ OpenUse(T) \in [Open!Principal -> Nat]
  BY <1>1 DEF OpenUse
<1>3. Requests[r].introducer \in Open!Principal /\ Requests[r].bytes \in Nat
  BY RequestsAssumption
<1>4. SUFFICES ASSUME Opening(r)
               PROVE  Open!AdmitsItems(OpenUse(S), Requests[r].introducer, Requests[r].bytes)
  BY DEF FitsOpen
<1>5. Open!AdmitsItems(OpenUse(T), Requests[r].introducer, Requests[r].bytes)
  BY <1>4 DEF FitsOpen
<1> QED BY <1>1, <1>2, <1>3, <1>5, AdmitsLess

-----------------------------------------------------------------------------
(* Resources and their order.                                              *)

LEMMA NatLeast ==
    ASSUME NEW S \in SUBSET Nat, S # {}
    PROVE  \E m \in S : \A n \in S : m <= n
<1>1. PICK k \in S : TRUE
  OBVIOUS
<1> DEFINE T == {0..m : m \in S \cap (0..k)}
           U == 0..k
<1>2. IsFiniteSet(U) /\ T \in SUBSET (SUBSET U) /\ T # {}
  <2>1. IsFiniteSet(U)
    BY FS_Interval
  <2>2. ASSUME NEW m \in S \cap (0..k) PROVE 0..m \subseteq U
    OBVIOUS
  <2>3. k \in S \cap (0..k)
    OBVIOUS
  <2>4. 0..k \in T
    BY <2>3
  <2> QED BY <2>1, <2>2, <2>4
<1>3. PICK s \in T : \A t \in T : ~(t \subseteq s /\ t # s)
  <2> HIDE DEF T, U
  <2> QED BY <1>2, MinimalSubset
<1>4. PICK m \in S \cap (0..k) : s = 0..m
  OBVIOUS
<1>5. ASSUME NEW n \in S, n < m PROVE FALSE
  <2>1. n \in S \cap (0..k)
    BY <1>5
  <2>2. 0..n \in T /\ 0..n \subseteq 0..m /\ 0..n # 0..m
    <3>1. m \in 0..m /\ m \notin 0..n
      BY <1>5
    <3> QED BY <1>5, <2>1, <3>1
  <2> QED BY <1>3, <1>4, <2>2
<1> QED BY <1>5

\* A set of resources has a least one.
LEMMA LeastIn ==
    ASSUME NEW S \in SUBSET Resource, S # {}
    PROVE  Least(S) \in S /\ \A b \in S \ {Least(S)} : Precedes(Least(S), b)
<1> DEFINE A == {a[1] : a \in S}
<1>1. A \in SUBSET Nat /\ A # {}
  BY DEF Resource
<1>2. PICK i \in A : \A n \in A : i <= n
  <2> HIDE DEF A
  <2> QED BY <1>1, NatLeast
<1> DEFINE B == {a[2] : a \in {b \in S : b[1] = i}}
<1>3. B \in SUBSET Nat /\ B # {}
  BY DEF Resource
<1>4. PICK j \in B : \A n \in B : j <= n
  <2> HIDE DEF B
  <2> QED BY <1>3, NatLeast
<1>5. PICK a \in S : a[1] = i /\ a[2] = j
  OBVIOUS
<1>6. ASSUME NEW b \in S \ {a} PROVE Precedes(a, b)
  <2>1. i <= b[1] /\ (b[1] = i => j <= b[2])
    BY <1>2, <1>4
  <2>2. b[1] # i \/ b[2] # j
    BY <1>5, <1>6 DEF Resource
  <2>3. i \in Nat /\ j \in Nat /\ b[1] \in Nat /\ b[2] \in Nat
    BY <1>1, <1>3 DEF Resource
  <2> HIDE DEF A, B
  <2> QED BY <1>5, <2>1, <2>2, <2>3 DEF Precedes
<1>7. \E x \in S : \A b \in S \ {x} : Precedes(x, b)
  BY <1>6
<1> QED BY <1>7 DEF Least

LEMMA ResourceTypes ==
    ASSUME NEW r \in Request
    PROVE  {Stream(r), Peer(r), Lane(r), Shared, OpenPool, Floor(r), Nothing} \subseteq Resource
<1>1. Principals[Requests[r].introducer] \in Nat
  BY RequestsAssumption, CapacityAssumption DEF Principals, Range
<1>2. Requests[r].stream \in Nat /\ Requests[r].peer \in Nat /\ Requests[r].lane \in Nat
  BY RequestsAssumption, CapacityAssumption
<1> QED BY <1>1, <1>2
        DEF Resource, Stream, Peer, Lane, Shared, OpenPool, Floor, Nothing

LEMMA LedgerTypes ==
    ASSUME NEW r \in Request, NEW C, NEW O
    PROVE  /\ footprint(C, O, r) \subseteq Resource
           /\ refusal_of(C, O, r) \subseteq Resource
           /\ \A x \in reliefs(C, O, r) : x[1] \in Resource
<1>1. footprint(C, O, r) \subseteq Resource
  BY ResourceTypes DEF footprint
<1>2. refusal_of(C, O, r) \subseteq Resource
  BY ResourceTypes DEF refusal_of
<1>3. \A x \in reliefs(C, O, r) : x[1] \in Resource
  <2>1. reliefs(C, O, r) \subseteq {<<Lane(r), {Shared}>>, <<Floor(r), {OpenPool}>>}
    BY DEF reliefs
  <2> QED BY <2>1, ResourceTypes
<1> QED BY <1>1, <1>2, <1>3

-----------------------------------------------------------------------------
(* The waitlist.                                                           *)

LEMMA FirstIn ==
    ASSUME Types, Ordered, NEW S \in SUBSET Ungranted, S # {}
    PROVE  First(S) \in S /\ ahead[First(S)] \cap S = {}
<1> DEFINE T == {Earlier(w) : w \in S}
<1>1. T \in SUBSET (SUBSET Ungranted) /\ T # {} /\ IsFiniteSet(Ungranted)
  BY DEF Types, Earlier
<1>2. PICK s \in T : \A t \in T : ~(t \subseteq s /\ t # s)
  <2> HIDE DEF T
  <2> QED BY <1>1, MinimalSubset
<1>3. PICK w \in S : s = Earlier(w)
  OBVIOUS
<1>4. ASSUME NEW v \in ahead[w] \cap S PROVE FALSE
  <2>1. v \in Ungranted /\ v \in Request /\ w \in Request
    BY DEF Ungranted
  <2>2. ahead[v] \subseteq ahead[w] /\ v \notin ahead[v]
    BY <2>1 DEF Ordered
  <2>3. Earlier(v) \subseteq Earlier(w) /\ v \in Earlier(w) /\ v \notin Earlier(v)
    BY <2>1, <2>2 DEF Earlier
  <2> QED BY <1>2, <1>3, <2>3
<1>5. \E x \in S : ahead[x] \cap S = {}
  BY <1>4
<1> QED BY <1>5 DEF First

\* The type of the waiters' entries, applied.
LEMMA Entries ==
    ASSUME Types, NEW v \in Request
    PROVE  /\ waiter[v] \in Index /\ ahead[v] \in SUBSET Request
           /\ waiter[v].refusal \subseteq Resource /\ waiter[v].holds \subseteq Resource
           /\ waiter[v].parked \subseteq Resource /\ Held(v) \subseteq Resource
BY DEF Types, Index, Held

\* A judgement takes a waiter that waits, out of the indices of one resource.
LEMMA JudgeTakes ==
    ASSUME Types, Ordered, Judge
    PROVE  \E w \in Ungranted, at \in Resource, scans \in SUBSET Resource,
              after \in Request \cup {Nobody} :
             /\ lock' = [lock EXCEPT !.at = at, !.after = after, !.scans = scans, !.judged = w,
                                     !.blockers = blockers(w, Earlier(w)), !.held = Held(w)]
             /\ waiter' = [waiter EXCEPT ![w] = NoIndex]
             /\ UNCHANGED <<phase, ahead, charged, opened, cancels>>
<1> DEFINE at == NextAt
           stays == at = lock.at /\ Parked(lock.at, lock.after) # {}
           from == IF stays THEN lock.after ELSE Nobody
           S == Parked(at, from)
           w == First(S)
           scans == IF stays THEN lock.scans ELSE {x \in lock.scans : Precedes(at, x)}
<1>1. /\ lock.at \in Resource /\ lock.scans \in SUBSET Resource
      /\ lock.after \in Request \cup {Nobody}
  BY DEF Types, Lock
<1>2. at # Nothing
  BY DEF Judge
<1>3. at \in Resource /\ S # {}
  <2>1. CASE lock.at # Nothing /\ Parked(lock.at, lock.after) # {}
    <3>1. at = lock.at
      BY <2>1 DEF NextAt
    <3> QED BY <1>1, <2>1, <3>1
  <2>2. CASE ~(lock.at # Nothing /\ Parked(lock.at, lock.after) # {})
    <3> DEFINE live == {x \in lock.scans : Parked(x, Nobody) # {}}
    <3>1. at = IF live = {} THEN Nothing ELSE Least(live)
      BY <2>2 DEF NextAt
    <3>2. live # {} /\ at = Least(live)
      BY <1>2, <3>1
    <3>3. live \in SUBSET Resource
      BY <1>1
    <3>4. at \in live
      <4> HIDE DEF live, at
      <4> QED BY <3>2, <3>3, LeastIn
    <3>5. ~stays
      BY <1>2, <2>2
    <3> QED BY <1>1, <3>4, <3>5
  <2> QED BY <2>1, <2>2
<1>4. w \in S /\ S \subseteq Ungranted
  <2>1. S \in SUBSET Ungranted
    BY DEF Parked
  <2> HIDE DEF S
  <2> QED BY <1>3, <2>1, FirstIn
<1>5. from \in Request \cup {Nobody} /\ scans \in SUBSET Resource
  BY <1>1
<1>6. /\ lock' = [lock EXCEPT !.at = at, !.after = from, !.scans = scans, !.judged = w,
                              !.blockers = blockers(w, Earlier(w)), !.held = Held(w)]
      /\ waiter' = [waiter EXCEPT ![w] = NoIndex]
      /\ UNCHANGED <<phase, ahead, charged, opened, cancels>>
  BY DEF Judge
<1>7. w \in Ungranted
  BY <1>4
<1> HIDE DEF at, from, scans, w
<1> QED BY <1>3, <1>5, <1>6, <1>7

-----------------------------------------------------------------------------
(* Every step keeps the invariant.                                         *)

LEMMA FreeType == Free \in Lock /\ NoIndex \in Index
<1>1. Nothing \in Resource
  BY DEF Nothing, Resource
<1> QED BY <1>1 DEF Free, Lock, NoIndex, Index

LEMMA JudgeInv ==
    ASSUME AdmissionInv, Judge
    PROVE  AdmissionInv'
<1> USE DEF AdmissionInv
<1>1. PICK w \in Ungranted, at \in Resource, scans \in SUBSET Resource,
           after \in Request \cup {Nobody} :
             /\ lock' = [lock EXCEPT !.at = at, !.after = after, !.scans = scans, !.judged = w,
                                     !.blockers = blockers(w, Earlier(w)), !.held = Held(w)]
             /\ waiter' = [waiter EXCEPT ![w] = NoIndex]
             /\ UNCHANGED <<phase, ahead, charged, opened, cancels>>
  BY JudgeTakes
<1>2. /\ w \in Request /\ phase[w] = "waiting" /\ Ungranted' = Ungranted
      /\ \A v : Earlier(v)' = Earlier(v)
  BY <1>1 DEF Ungranted, Earlier
<1>3. blockers(w, Earlier(w)) \subseteq Resource /\ Held(w) \subseteq Resource
  BY <1>2, Entries, LedgerTypes, ResourceTypes DEF blockers
<1>4. /\ lock' \in Lock /\ lock'.judged = w /\ lock'.blockers = blockers(w, Earlier(w))
      /\ lock'.busy = lock.busy /\ lock'.served = lock.served
  BY <1>1, <1>2, <1>3 DEF Types, Lock
<1>5. /\ waiter' \in [Request -> Index] /\ waiter'[w] = NoIndex
      /\ \A v \in Request \ {w} : waiter'[v] = waiter[v]
  BY <1>1, <1>2, FreeType DEF Types
<1>6. Types'
  BY <1>1, <1>2, <1>4, <1>5 DEF Types
<1>7. Ordered'
  BY <1>1, <1>2, <1>4 DEF Ordered
<1>8. Locked'
  <2>1. lock.busy
    BY DEF Judge
  <2> QED BY <1>1, <1>2, <1>4, <1>5, <2>1 DEF Locked
<1>9. Charged' /\ ReservationsKept'
  BY <1>1 DEF Charged, ReservationsKept
<1>10. ReadingStands'
  <2>1. SUFFICES ASSUME blockers(w, Earlier(w)) = {}, NEW v \in Earlier(w)
                 PROVE  /\ Stream(v) # Stream(w)
                        /\ Held(v)' \cap footprint(charged, opened, w)' = {}
    BY <1>2, <1>4 DEF ReadingStands
  <2>2. Stream(v) # Stream(w) /\ Held(v) \cap footprint(charged, opened, w) = {}
    BY <2>1 DEF blockers
  <2>3. v \in Request \ {w}
    BY <1>2 DEF Earlier, Ungranted, Ordered
  <2>4. Held(v)' = Held(v)
    BY <1>5, <2>3 DEF Held
  <2>5. footprint(charged, opened, w)' = footprint(charged, opened, w)
    BY <1>1
  <2> QED BY <2>2, <2>4, <2>5
<1>11. RefusalsAgree'
  <2>1. \A v \in Ungranted : waiter'[v].refusal = waiter[v].refusal \/ waiter'[v].refusal = {}
    BY <1>5 DEF NoIndex, Ungranted
  <2>2. \A v \in Ungranted : \A u \in Earlier(v) : u \in Ungranted
    BY DEF Earlier
  <2> QED BY <1>2, <2>1, <2>2 DEF RefusalsAgree
<1> QED BY <1>6, <1>7, <1>8, <1>9, <1>10, <1>11

\* The lock once a judgement ended.
LEMMA JudgedLock ==
    ASSUME Types, NEW w \in Request, NEW parked \in SUBSET Resource,
           NEW named \in SUBSET Resource, NEW granted \in BOOLEAN,
           Judged(w, parked, named, granted)
    PROVE  /\ lock' \in Lock /\ lock'.judged = Nobody /\ lock'.busy = lock.busy
           /\ lock'.served = IF granted THEN lock.served \cup {w} ELSE lock.served
<1>1. Nothing \in Resource
  BY DEF Nothing, Resource
<1> QED BY <1>1 DEF Types, Lock, Judged

\* The waiter that is judged.
LEMMA JudgedWaits ==
    ASSUME AdmissionInv, lock.judged # Nobody
    PROVE  /\ lock.judged \in Ungranted /\ lock.judged \in Request
           /\ phase[lock.judged] = "waiting" /\ waiter[lock.judged] = NoIndex
BY DEF AdmissionInv, Locked, Ungranted

LEMMA BlockInv ==
    ASSUME AdmissionInv, lock.busy, lock.judged # Nobody, Block(lock.judged)
    PROVE  AdmissionInv'
<1> USE DEF AdmissionInv
<1> DEFINE w == lock.judged
           h == holds(w, lock.blockers)
           parked == {Least(lock.blockers)} \cup h
<1>1. w \in Ungranted /\ w \in Request /\ phase[w] = "waiting"
  BY JudgedWaits
<1>2. h \in SUBSET Resource
  BY <1>1, LedgerTypes DEF holds
<1>3. parked \in SUBSET Resource
  <2>1. lock.blockers \in SUBSET Resource /\ lock.blockers # {}
    BY DEF Types, Lock, Block
  <2> QED BY <1>2, <2>1, LeastIn
<1>4. /\ waiter' = [waiter EXCEPT ![w] = [refusal |-> {}, holds |-> h, parked |-> parked]]
      /\ Judged(w, parked, lock.held \ h, FALSE)
      /\ UNCHANGED <<phase, ahead, charged, opened, cancels>>
  BY DEF Block
<1>5. lock.held \ h \in SUBSET Resource
  BY DEF Types, Lock
<1> HIDE DEF h, parked
<1>6. /\ lock' \in Lock /\ lock'.judged = Nobody /\ lock'.busy = lock.busy
      /\ lock'.served = lock.served
  BY <1>1, <1>3, <1>4, <1>5, JudgedLock
<1>7. /\ waiter' \in [Request -> Index] /\ waiter'[w].refusal = {}
      /\ \A v \in Request \ {w} : waiter'[v] = waiter[v]
  <2>1. [refusal |-> {}, holds |-> h, parked |-> parked] \in Index
    BY <1>2, <1>3 DEF Index
  <2> QED BY <1>1, <1>4, <2>1 DEF Types
<1>8. Ungranted' = Ungranted /\ \A v : Earlier(v)' = Earlier(v)
  BY <1>4 DEF Ungranted, Earlier
<1>9. Types'
  BY <1>4, <1>6, <1>7, <1>8 DEF Types
<1>10. Ordered'
  BY <1>4, <1>6, <1>8 DEF Ordered
<1>11. Locked'
  BY <1>1, <1>4, <1>6, <1>7, <1>8 DEF Locked
<1>12. Charged' /\ ReservationsKept'
  BY <1>4 DEF Charged, ReservationsKept
<1>13. ReadingStands'
  BY <1>6 DEF ReadingStands
<1>14. RefusalsAgree'
  <2>1. \A v \in Ungranted : waiter'[v].refusal = waiter[v].refusal \/ waiter'[v].refusal = {}
    BY <1>7 DEF Ungranted
  <2>2. \A v \in Ungranted : \A u \in Earlier(v) : u \in Ungranted
    BY DEF Earlier
  <2> QED BY <1>8, <2>1, <2>2 DEF RefusalsAgree
<1> QED BY <1>9, <1>10, <1>11, <1>12, <1>13, <1>14

LEMMA RefuseInv ==
    ASSUME AdmissionInv, lock.busy, lock.judged # Nobody, Refuse(lock.judged)
    PROVE  AdmissionInv'
<1> USE DEF AdmissionInv
<1> DEFINE w == lock.judged
           refusal == refusal_of(charged, opened, w)
           demoted == Demoted(w, refusal)
           freedBy == UNION {waiter[v].refusal \ {DemotedTo(v, refusal)} : v \in demoted}
<1>1. w \in Ungranted /\ w \in Request /\ phase[w] = "waiting"
  BY JudgedWaits
<1>2. refusal \in SUBSET Resource
  BY <1>1, LedgerTypes
<1>3. /\ lock.blockers = {}
      /\ waiter' = [v \in Request |->
              IF v = w THEN [refusal |-> refusal, holds |-> {}, parked |-> refusal]
              ELSE IF v \in demoted
                   THEN [NoIndex EXCEPT !.parked = {DemotedTo(v, refusal)}]
                   ELSE waiter[v]]
      /\ Judged(w, refusal, (lock.held \ refusal) \cup freedBy, FALSE)
      /\ UNCHANGED <<phase, ahead, charged, opened, cancels>>
  BY DEF Refuse
<1>4. \A v \in demoted : /\ v \in Request /\ v \in Ungranted /\ w \in ahead[v]
                         /\ DemotedTo(v, refusal) \in Resource
  <2>1. SUFFICES ASSUME NEW v \in demoted PROVE /\ v \in Request /\ v \in Ungranted /\ w \in ahead[v]
                                                /\ DemotedTo(v, refusal) \in Resource
    OBVIOUS
  <2>2. v \in Ungranted /\ w \in ahead[v] /\ waiter[v].refusal \cap refusal # {}
    BY DEF Demoted, Later
  <2>3. v \in Request /\ waiter[v].refusal \cap refusal \in SUBSET Resource
    BY <1>2, <2>2 DEF Ungranted
  <2> HIDE DEF refusal, demoted
  <2> QED BY <2>2, <2>3, LeastIn DEF DemotedTo
<1>5. (lock.held \ refusal) \cup freedBy \in SUBSET Resource
  BY <1>4, Entries DEF Types, Lock
<1>6. /\ lock' \in Lock /\ lock'.judged = Nobody /\ lock'.busy = lock.busy
      /\ lock'.served = lock.served
  <2> HIDE DEF refusal, freedBy
  <2> QED BY <1>1, <1>2, <1>3, <1>5, JudgedLock
<1>7. /\ waiter' \in [Request -> Index] /\ waiter'[w].refusal = refusal
      /\ \A v \in Request \ {w} :
            IF v \in demoted THEN waiter'[v].refusal = {} ELSE waiter'[v] = waiter[v]
  <2>1. [refusal |-> refusal, holds |-> {}, parked |-> refusal] \in Index
    BY <1>2 DEF Index
  <2>2. \A v \in demoted : /\ [NoIndex EXCEPT !.parked = {DemotedTo(v, refusal)}] \in Index
                           /\ [NoIndex EXCEPT !.parked = {DemotedTo(v, refusal)}].refusal = {}
    BY <1>4 DEF NoIndex, Index
  <2>3. \A v \in Request : waiter[v] \in Index
    BY DEF Types
  <2> HIDE DEF refusal, demoted
  <2> QED BY <1>1, <1>3, <2>1, <2>2, <2>3
<1>8. Ungranted' = Ungranted /\ \A v : Earlier(v)' = Earlier(v)
  BY <1>3 DEF Ungranted, Earlier
<1>9. Types'
  BY <1>3, <1>6, <1>7, <1>8 DEF Types
<1>10. Ordered'
  BY <1>3, <1>6, <1>8 DEF Ordered
<1>11. Locked'
  <2>1. \A r \in Request : phase[r] # "waiting" => r # w /\ r \notin demoted
    BY <1>1, <1>4 DEF Ungranted
  <2> HIDE DEF refusal, demoted
  <2> QED BY <1>3, <1>6, <1>7, <1>8, <2>1 DEF Locked
<1>12. Charged' /\ ReservationsKept'
  BY <1>3 DEF Charged, ReservationsKept
<1>13. ReadingStands'
  BY <1>6 DEF ReadingStands
<1>14. RefusalsAgree'
  <2>1. refusal \subseteq footprint(charged, opened, w)
    <3>1. /\ charged \in SUBSET Request /\ IsFiniteSet(charged) /\ opened \in SUBSET charged
          /\ LanesKept(charged)
      BY DEF Types, ReservationsKept, LanesKept
    <3> QED BY <1>1, <3>1, RefusalInFootprint
  <2>2. \A v \in Earlier(w) : waiter[v].refusal \cap refusal = {}
    BY <1>1, <1>3, <2>1 DEF ReadingStands, Held
  <2>3. SUFFICES ASSUME NEW x \in Ungranted, NEW v \in Earlier(x),
                        waiter'[v].refusal # waiter'[x].refusal
                 PROVE  waiter'[v].refusal \cap waiter'[x].refusal = {}
    BY <1>8 DEF RefusalsAgree
  <2>4. v \in Ungranted /\ v \in Request /\ x \in Request /\ v \in ahead[x] /\ v # x
    BY DEF Earlier, Ungranted, Ordered
  <2>5. CASE x = w
    <3>1. v # w /\ v \in Earlier(w)
      BY <2>4, <2>5
    <3> HIDE DEF refusal, demoted
    <3> QED BY <1>7, <2>2, <2>4, <2>5, <3>1
  <2>6. CASE v = w /\ x # w
    <3>1. x \in Later(w)
      BY <2>4, <2>6 DEF Later
    <3>2. \/ x \in demoted
          \/ waiter[x].refusal = refusal
          \/ waiter[x].refusal \cap refusal = {}
      BY <3>1 DEF Demoted
    <3> HIDE DEF refusal, demoted
    <3> QED BY <1>7, <2>3, <2>4, <2>6, <3>2
  <2>7. CASE v # w /\ x # w
    <3>1. waiter[v].refusal # waiter[x].refusal => waiter[v].refusal \cap waiter[x].refusal = {}
      BY DEF RefusalsAgree
    <3> HIDE DEF refusal, demoted
    <3> QED BY <1>7, <2>3, <2>4, <2>7, <3>1
  <2> QED BY <2>5, <2>6, <2>7
<1> QED BY <1>9, <1>10, <1>11, <1>12, <1>13, <1>14

LEMMA GrantInv ==
    ASSUME AdmissionInv, lock.busy, lock.judged # Nobody, Grant(lock.judged)
    PROVE  AdmissionInv'
<1> USE DEF AdmissionInv
<1> DEFINE w == lock.judged
<1>1. w \in Ungranted /\ w \in Request /\ phase[w] = "waiting" /\ waiter[w] = NoIndex
  BY JudgedWaits
<1>2. /\ refusal_of(charged, opened, w) = {}
      /\ phase' = [phase EXCEPT ![w] = "granted"]
      /\ charged' = IF Charges(w) THEN charged \cup {w} ELSE charged
      /\ opened' = IF Opening(w) THEN opened \cup {w} ELSE opened
      /\ Judged(w, {}, lock.held \cup {Stream(w)}, TRUE)
      /\ UNCHANGED <<ahead, waiter, cancels>>
  BY DEF Grant
<1>3. lock.held \cup {Stream(w)} \in SUBSET Resource
  BY <1>1, ResourceTypes DEF Types, Lock
<1>4. /\ lock' \in Lock /\ lock'.judged = Nobody /\ lock'.busy = lock.busy
      /\ lock'.served = lock.served \cup {w}
  <2>1. {} \in SUBSET Resource /\ TRUE \in BOOLEAN
    OBVIOUS
  <2> HIDE DEF w
  <2> QED BY <1>1, <1>2, <1>3, <2>1, JudgedLock
<1>5. /\ phase' \in [Request -> Phase] /\ phase'[w] = "granted"
      /\ \A v \in Request \ {w} : phase'[v] = phase[v]
  BY <1>1, <1>2 DEF Types, Phase
<1>6. Ungranted' = Ungranted \ {w} /\ IsFiniteSet(Ungranted \ {w})
  BY <1>5, FS_RemoveElement DEF Ungranted, Types
<1>7. Opening(w) => Charges(w)
  BY DEF Opening, Charges
<1>8. w \notin charged
  BY <1>1 DEF Charged
<1>9. Types'
  <2>1. /\ charged' \in SUBSET Request /\ opened' \in SUBSET charged'
        /\ IsFiniteSet(charged')
    BY <1>1, <1>2, <1>7, FS_AddElement DEF Types
  <2> QED BY <1>2, <1>4, <1>5, <1>6, <2>1 DEF Types
<1>10. Ordered'
  BY <1>2, <1>4, <1>6 DEF Ordered
<1>11. Locked'
  BY <1>1, <1>2, <1>4, <1>5 DEF Locked, Types, Lock
<1>12. Charged'
  BY <1>1, <1>2, <1>5, <1>8 DEF Charged
<1>13. ReservationsKept'
  <2>1. charged \in SUBSET Request /\ IsFiniteSet(charged) /\ LanesKept(charged)
    BY DEF Types, ReservationsKept, LanesKept
  <2>2. LanesKept(charged')
    <3>1. CASE Charges(w)
      <4>1. FitsMailbox(charged, w)
        BY <1>2, <3>1 DEF refusal_of
      <4> QED BY <1>1, <1>2, <1>8, <2>1, <3>1, <4>1, LanesKeptMore
    <3>2. CASE ~Charges(w)
      BY <1>2, <2>1, <3>2
    <3> QED BY <3>1, <3>2
  <2> QED BY <2>2 DEF ReservationsKept, LanesKept
<1>14. ReadingStands'
  BY <1>4 DEF ReadingStands
<1>15. RefusalsAgree'
  BY <1>2, <1>6 DEF RefusalsAgree, Earlier
<1> QED BY <1>9, <1>10, <1>11, <1>12, <1>13, <1>14, <1>15

\* What forgetting the numbers of all but W, some of those that wait, leaves.
LEMMA NumbersKept ==
    ASSUME Types, Ordered, NEW W \in SUBSET Ungranted
    PROVE  /\ Numbers(W) \in [Request -> SUBSET Request]
           /\ \A r \in Request :
                /\ Numbers(W)[r] \subseteq W /\ Numbers(W)[r] \subseteq ahead[r]
                /\ r \notin Numbers(W)[r]
                /\ \A v \in Numbers(W)[r] : Numbers(W)[v] \subseteq Numbers(W)[r]
           /\ \A v, w \in W : v \in Numbers(W)[w] \/ w \in Numbers(W)[v] \/ v = w
<1>1. W \subseteq Request
  BY DEF Ungranted
<1>2. \A r \in Request : Numbers(W)[r] = IF r \in W THEN ahead[r] \cap W ELSE {}
  BY DEF Numbers
<1>3. Numbers(W) \in [Request -> SUBSET Request]
  BY <1>1 DEF Numbers
<1>4. ASSUME NEW r \in Request
      PROVE  /\ Numbers(W)[r] \subseteq W /\ Numbers(W)[r] \subseteq ahead[r]
             /\ r \notin Numbers(W)[r]
             /\ \A v \in Numbers(W)[r] : Numbers(W)[v] \subseteq Numbers(W)[r]
  <2>1. CASE r \notin W
    BY <1>2, <2>1
  <2>2. CASE r \in W
    <3>1. r \notin ahead[r] /\ \A v \in ahead[r] : ahead[v] \subseteq ahead[r]
      BY DEF Ordered
    <3>2. Numbers(W)[r] = ahead[r] \cap W
      BY <1>2, <2>2
    <3>3. \A v \in W : Numbers(W)[v] = ahead[v] \cap W
      BY <1>1, <1>2
    <3> QED BY <3>1, <3>2, <3>3
  <2> QED BY <2>1, <2>2
<1>5. \A v, w \in W : v \in Numbers(W)[w] \/ w \in Numbers(W)[v] \/ v = w
  <2>1. \A v \in W : Numbers(W)[v] = ahead[v] \cap W
    BY <1>1, <1>2
  <2>2. \A v, w \in W : v \in ahead[w] \/ w \in ahead[v] \/ v = w
    BY DEF Ordered
  <2> QED BY <2>1, <2>2
<1> QED BY <1>3, <1>4, <1>5

LEMMA DeliverInv ==
    ASSUME AdmissionInv, Deliver
    PROVE  AdmissionInv'
<1> USE DEF AdmissionInv
<1>1. ahead' = Numbers(Ungranted) /\ lock' = Free
      /\ UNCHANGED <<phase, waiter, charged, opened, cancels>>
  BY DEF Deliver
<1>2. Ungranted' = Ungranted
  BY <1>1 DEF Ungranted
<1>3. lock' \in Lock /\ lock'.judged = Nobody /\ lock'.served = {}
  BY <1>1, FreeType DEF Free
<1>4. /\ ahead' \in [Request -> SUBSET Request]
      /\ \A r \in Request :
           /\ ahead'[r] \subseteq Ungranted /\ ahead'[r] \subseteq ahead[r]
           /\ r \notin ahead'[r]
           /\ \A v \in ahead'[r] : ahead'[v] \subseteq ahead'[r]
      /\ \A v, w \in Ungranted : v \in ahead'[w] \/ w \in ahead'[v] \/ v = w
  BY <1>1, NumbersKept
<1>5. Types'
  BY <1>1, <1>2, <1>3, <1>4 DEF Types
<1>6. Ordered'
  BY <1>2, <1>3, <1>4 DEF Ordered
<1>7. Locked'
  BY <1>1, <1>3 DEF Locked
<1>8. Charged' /\ ReservationsKept'
  BY <1>1 DEF Charged, ReservationsKept
<1>9. ReadingStands'
  BY <1>3 DEF ReadingStands
<1>10. RefusalsAgree'
  <2>1. \A w \in Ungranted : Earlier(w)' \subseteq Earlier(w)
    BY <1>2, <1>4 DEF Earlier, Ungranted
  <2> QED BY <1>1, <1>2, <2>1 DEF RefusalsAgree
<1> QED BY <1>5, <1>6, <1>7, <1>8, <1>9, <1>10

LEMMA ArriveInv ==
    ASSUME AdmissionInv, NEW r \in Request, Arrive(r)
    PROVE  AdmissionInv'
<1> USE DEF AdmissionInv
<1>1. /\ ~lock.busy /\ phase[r] = "idle"
      /\ phase' = [phase EXCEPT ![r] = "waiting"]
      /\ ahead' = [ahead EXCEPT ![r] = Ungranted]
      /\ lock' = [Scan({}) EXCEPT !.judged = r, !.blockers = blockers(r, Ungranted)]
      /\ UNCHANGED <<waiter, charged, opened, cancels>>
  BY DEF Arrive
<1>2. /\ phase' \in [Request -> Phase] /\ phase'[r] = "waiting"
      /\ \A v \in Request \ {r} : phase'[v] = phase[v]
  BY <1>1 DEF Types, Phase
<1>3. /\ Ungranted' = Ungranted \cup {r} /\ r \notin Ungranted
      /\ Ungranted \in SUBSET Request /\ IsFiniteSet(Ungranted \cup {r})
  <2>1. /\ Ungranted' = Ungranted \cup {r} /\ r \notin Ungranted
        /\ Ungranted \in SUBSET Request
    BY <1>1, <1>2 DEF Ungranted
  <2>2. IsFiniteSet(Ungranted)
    BY DEF Types
  <2> QED BY <2>1, <2>2, FS_AddElement
<1>4. blockers(r, Ungranted) \in SUBSET Resource
  BY LedgerTypes, ResourceTypes DEF blockers
<1>5. /\ lock' \in Lock /\ lock'.judged = r /\ lock'.busy /\ lock'.served = {}
      /\ lock'.blockers = blockers(r, Ungranted)
  BY <1>1, <1>4, FreeType DEF Scan, Free, Lock
<1>6. lock.served = {}
  BY <1>1 DEF Locked, Free
<1>7. /\ ahead' \in [Request -> SUBSET Request] /\ ahead'[r] = Ungranted
      /\ \A v \in Request \ {r} : ahead'[v] = ahead[v]
  BY <1>1, <1>3 DEF Types
<1>8. \A v \in Request : ahead[v] \subseteq Ungranted /\ r \notin ahead[v]
  BY <1>3, <1>6 DEF Ordered
<1>9. waiter[r] = NoIndex
  BY <1>1 DEF Locked
<1>10. Types'
  BY <1>1, <1>2, <1>3, <1>5, <1>7 DEF Types
<1>11. Ordered'
  <2>1. ASSUME NEW v \in Request
        PROVE  /\ ahead'[v] \subseteq Ungranted' \cup lock'.served
               /\ v \notin ahead'[v] /\ \A u \in ahead'[v] : ahead'[u] \subseteq ahead'[v]
    BY <1>3, <1>7, <1>8 DEF Ordered
  <2>2. \A v, w \in Ungranted' : v \in ahead'[w] \/ w \in ahead'[v] \/ v = w
    BY <1>3, <1>7 DEF Ordered
  <2> QED BY <2>1, <2>2 DEF Ordered
<1>12. Locked'
  BY <1>1, <1>2, <1>3, <1>5, <1>9 DEF Locked
<1>13. Charged' /\ ReservationsKept'
  BY <1>1, <1>2 DEF Charged, ReservationsKept
<1>14. Earlier(r)' = Ungranted /\ \A w \in Ungranted : Earlier(w)' = Earlier(w)
  BY <1>3, <1>7, <1>8 DEF Earlier
<1>15. ReadingStands'
  <2>1. SUFFICES ASSUME blockers(r, Ungranted) = {}, NEW v \in Ungranted
                 PROVE  /\ Stream(v) # Stream(r)
                        /\ Held(v)' \cap footprint(charged, opened, r)' = {}
    BY <1>5, <1>14 DEF ReadingStands
  <2>2. Stream(v) # Stream(r) /\ Held(v) \cap footprint(charged, opened, r) = {}
    BY <2>1 DEF blockers
  <2>3. Held(v)' = Held(v) /\ footprint(charged, opened, r)' = footprint(charged, opened, r)
    BY <1>1 DEF Held
  <2> QED BY <2>2, <2>3
<1>16. RefusalsAgree'
  <2>1. waiter[r].refusal = {}
    BY <1>9 DEF NoIndex
  <2> QED BY <1>1, <1>3, <1>14, <2>1 DEF RefusalsAgree
<1> QED BY <1>10, <1>11, <1>12, <1>13, <1>15, <1>16

LEMMA ScanType ==
    ASSUME NEW S \in SUBSET Resource
    PROVE  /\ Scan(S) \in Lock /\ Scan(S).busy /\ Scan(S).judged = Nobody
           /\ Scan(S).served = {}
BY FreeType DEF Scan, Free, Lock

LEMMA WithdrawInv ==
    ASSUME AdmissionInv, NEW r \in Request, Withdraw(r)
    PROVE  AdmissionInv'
<1> USE DEF AdmissionInv
<1>1. /\ ~lock.busy /\ phase[r] = "waiting"
      /\ phase' = [phase EXCEPT ![r] = "idle"]
      /\ ahead' = Numbers(Ungranted \ {r})
      /\ waiter' = [waiter EXCEPT ![r] = NoIndex]
      /\ lock' = Scan(Held(r) \cup {Stream(r)})
      /\ UNCHANGED <<charged, opened>>
  BY DEF Withdraw
<1>2. /\ phase' \in [Request -> Phase] /\ phase'[r] = "idle"
      /\ \A v \in Request \ {r} : phase'[v] = phase[v]
  BY <1>1 DEF Types, Phase
<1>3. /\ Ungranted' = Ungranted \ {r} /\ Ungranted \ {r} \in SUBSET Ungranted
      /\ IsFiniteSet(Ungranted \ {r})
  BY <1>2, FS_RemoveElement DEF Ungranted, Types
<1>4. lock' \in Lock /\ lock'.busy /\ lock'.judged = Nobody /\ lock'.served = {}
  <2>1. Held(r) \cup {Stream(r)} \in SUBSET Resource
    BY Entries, ResourceTypes
  <2> QED BY <1>1, <2>1, ScanType
<1>5. /\ ahead' \in [Request -> SUBSET Request]
      /\ \A x \in Request :
           /\ ahead'[x] \subseteq Ungranted \ {r} /\ ahead'[x] \subseteq ahead[x]
           /\ x \notin ahead'[x]
           /\ \A v \in ahead'[x] : ahead'[v] \subseteq ahead'[x]
      /\ \A v, w \in Ungranted \ {r} : v \in ahead'[w] \/ w \in ahead'[v] \/ v = w
  BY <1>1, <1>3, NumbersKept
<1>6. /\ waiter' \in [Request -> Index] /\ waiter'[r] = NoIndex
      /\ \A v \in Request \ {r} : waiter'[v] = waiter[v]
  BY <1>1, FreeType DEF Types
<1>7. Types'
  BY <1>1, <1>2, <1>3, <1>4, <1>5, <1>6 DEF Types
<1>8. Ordered'
  BY <1>3, <1>4, <1>5 DEF Ordered
<1>9. Locked'
  BY <1>2, <1>4, <1>6 DEF Locked
<1>10. Charged' /\ ReservationsKept'
  BY <1>1, <1>2 DEF Charged, ReservationsKept
<1>11. ReadingStands'
  BY <1>4 DEF ReadingStands
<1>12. RefusalsAgree'
  <2>1. \A w \in Ungranted' : w \in Ungranted /\ Earlier(w)' \subseteq Earlier(w)
    BY <1>3, <1>5 DEF Earlier, Ungranted
  <2>2. \A v \in Ungranted' : waiter'[v] = waiter[v]
    BY <1>3, <1>6 DEF Ungranted
  <2>3. \A w \in Ungranted' : \A v \in Earlier(w)' : v \in Ungranted'
    BY DEF Earlier
  <2> QED BY <2>1, <2>2, <2>3 DEF RefusalsAgree
<1> QED BY <1>7, <1>8, <1>9, <1>10, <1>11, <1>12

\* Steps that move a request along outside the waitlist, and at most return
\* charges, keep what is known of the waitlist.
LEMMA OutsideKeeps ==
    ASSUME AdmissionInv, NEW r \in Request, phase[r] # "waiting",
           phase' \in [Request -> Phase], phase'[r] # "waiting",
           \A v \in Request \ {r} : phase'[v] = phase[v],
           charged' \subseteq charged, opened' \in SUBSET charged', opened' \subseteq opened,
           UNCHANGED <<ahead, waiter>>,
           \/ lock' = lock /\ r \notin lock.served
           \/ /\ ~lock.busy /\ lock' \in Lock /\ lock'.busy
              /\ lock'.judged = Nobody /\ lock'.served = {}
    PROVE  Types' /\ Ordered' /\ Locked' /\ ReservationsKept' /\ ReadingStands' /\ RefusalsAgree'
<1> USE DEF AdmissionInv
<1>1. Ungranted' = Ungranted /\ \A v : Earlier(v)' = Earlier(v)
  BY DEF Ungranted, Earlier
<1>2. charged' \in SUBSET Request /\ IsFiniteSet(charged')
  BY FS_Subset DEF Types
<1>3. Types'
  BY <1>1, <1>2 DEF Types
<1>4. lock'.served = lock.served
  BY DEF Locked, Free
<1>5. Ordered'
  BY <1>1, <1>4 DEF Ordered
<1>6. Locked'
  <2>1. \A v \in lock'.served : phase'[v] = "granted"
    BY <1>4 DEF Locked, Types, Lock
  <2>2. ~lock'.busy => lock' = Free
    BY DEF Locked
  <2>3. lock'.judged # Nobody => lock'.judged \in Ungranted /\ waiter[lock'.judged] = NoIndex
    BY DEF Locked
  <2>4. \A v \in Request : phase'[v] # "waiting" => waiter[v] = NoIndex
    BY DEF Locked
  <2> QED BY <1>1, <2>1, <2>2, <2>3, <2>4 DEF Locked
<1>7. ReservationsKept'
  <2>1. /\ charged \in SUBSET Request /\ IsFiniteSet(charged) /\ LanesKept(charged)
        /\ charged' \in SUBSET charged
    BY DEF Types, ReservationsKept, LanesKept
  <2>2. LanesKept(charged')
    BY <2>1, LanesKeptLess
  <2> QED BY <2>2 DEF ReservationsKept, LanesKept
<1>8. ReadingStands'
  <2>1. CASE lock'.judged = Nobody
    BY <2>1 DEF ReadingStands
  <2>2. CASE lock'.judged # Nobody /\ lock' = lock
    <3>1. SUFFICES ASSUME lock.blockers = {}, NEW v \in Earlier(lock.judged)
                   PROVE  /\ Stream(v) # Stream(lock.judged)
                          /\ Held(v)' \cap footprint(charged', opened', lock.judged) = {}
      BY <1>1, <2>2 DEF ReadingStands
    <3>2. lock.judged \in Request
      BY <2>2, JudgedWaits
    <3>3. /\ Stream(v) # Stream(lock.judged)
          /\ Held(v) \cap footprint(charged, opened, lock.judged) = {}
      BY <2>2, <3>1 DEF ReadingStands
    <3>4. footprint(charged', opened', lock.judged)
          \subseteq footprint(charged, opened, lock.judged)
      <4>1. /\ charged \in SUBSET Request /\ IsFiniteSet(charged) /\ charged' \in SUBSET charged
            /\ opened \in SUBSET charged /\ opened' \in SUBSET opened
        BY DEF Types
      <4> QED BY <3>2, <4>1, FootprintShrinks
    <3>5. Held(v)' = Held(v)
      BY DEF Held
    <3> QED BY <3>3, <3>4, <3>5
  <2> QED BY <2>1, <2>2
<1>9. RefusalsAgree'
  BY <1>1 DEF RefusalsAgree
<1> QED BY <1>3, <1>5, <1>6, <1>7, <1>8, <1>9

LEMMA ClaimInv ==
    ASSUME AdmissionInv, NEW r \in Request, Claim(r)
    PROVE  AdmissionInv'
<1>1. /\ phase[r] = "granted" /\ r \notin lock.served
      /\ phase' = [phase EXCEPT ![r] = IF ~Charges(r) THEN "idle"
                                       ELSE IF Opening(r) THEN "open" ELSE "dispatch"]
      /\ UNCHANGED <<ahead, waiter, charged, opened, lock, cancels>>
  BY DEF Claim
<1>2. /\ phase' \in [Request -> Phase] /\ \A v \in Request \ {r} : phase'[v] = phase[v]
      /\ phase'[r] = IF ~Charges(r) THEN "idle" ELSE IF Opening(r) THEN "open" ELSE "dispatch"
  BY <1>1 DEF AdmissionInv, Types, Phase
<1>3. opened \in SUBSET charged
  BY DEF AdmissionInv, Types
<1>4. Types' /\ Ordered' /\ Locked' /\ ReservationsKept' /\ ReadingStands' /\ RefusalsAgree'
  BY <1>1, <1>2, <1>3, OutsideKeeps
<1>5. Charged'
  BY <1>1, <1>2 DEF AdmissionInv, Charged
<1> QED BY <1>4, <1>5 DEF AdmissionInv

LEMMA ReturnInv ==
    ASSUME AdmissionInv, NEW r \in Request, phase[r] \in {"granted", "open", "dispatch"},
           r \notin lock.served, ReturnCharge(r), UNCHANGED <<ahead, waiter, lock>>
    PROVE  AdmissionInv'
<1>1. /\ charged' = charged \ {r} /\ opened' = opened \ {r}
      /\ phase' = [phase EXCEPT ![r] = IF ~Charges(r) THEN "idle"
                                       ELSE IF r \in opened THEN "expired" ELSE "freed"]
  BY DEF ReturnCharge
<1>2. /\ phase' \in [Request -> Phase] /\ \A v \in Request \ {r} : phase'[v] = phase[v]
      /\ phase'[r] \in {"idle", "expired", "freed"}
  BY <1>1 DEF AdmissionInv, Types, Phase
<1>3. charged' \subseteq charged /\ opened' \in SUBSET charged' /\ opened' \subseteq opened
  BY <1>1 DEF AdmissionInv, Types
<1>4. Types' /\ Ordered' /\ Locked' /\ ReservationsKept' /\ ReadingStands' /\ RefusalsAgree'
  BY <1>2, <1>3, OutsideKeeps
<1>5. Charged'
  BY <1>1, <1>2 DEF AdmissionInv, Charged
<1> QED BY <1>4, <1>5 DEF AdmissionInv

LEMMA CloseInv ==
    ASSUME AdmissionInv, NEW r \in Request, Close(r)
    PROVE  AdmissionInv'
<1>1. /\ phase[r] = "open" /\ phase' = [phase EXCEPT ![r] = "closing"]
      /\ opened' = opened \ {r} /\ UNCHANGED <<ahead, waiter, charged, lock, cancels>>
  BY DEF Close
<1>2. /\ phase' \in [Request -> Phase] /\ \A v \in Request \ {r} : phase'[v] = phase[v]
      /\ phase'[r] = "closing"
  BY <1>1 DEF AdmissionInv, Types, Phase
<1>3. charged' \subseteq charged /\ opened' \in SUBSET charged' /\ opened' \subseteq opened
  BY <1>1 DEF AdmissionInv, Types
<1>4. r \notin lock.served
  BY <1>1 DEF AdmissionInv, Locked
<1>5. Types' /\ Ordered' /\ Locked' /\ ReservationsKept' /\ ReadingStands' /\ RefusalsAgree'
  BY <1>1, <1>2, <1>3, <1>4, OutsideKeeps
<1>6. Charged'
  BY <1>1, <1>2 DEF AdmissionInv, Charged
<1> QED BY <1>5, <1>6 DEF AdmissionInv

LEMMA ReleaseInv ==
    ASSUME AdmissionInv, NEW r \in Request, Release(r)
    PROVE  AdmissionInv'
<1>1. /\ ~lock.busy /\ phase[r] \in {"closing", "freed", "expired"}
      /\ phase' = [phase EXCEPT ![r] = IF @ = "closing" THEN "dispatch" ELSE "idle"]
      /\ lock' = Scan(freed(r)) /\ UNCHANGED <<ahead, waiter, charged, opened, cancels>>
  BY DEF Release, Owed
<1>2. /\ phase' \in [Request -> Phase] /\ \A v \in Request \ {r} : phase'[v] = phase[v]
      /\ phase'[r] = IF phase[r] = "closing" THEN "dispatch" ELSE "idle"
  BY <1>1 DEF AdmissionInv, Types, Phase
<1>3. opened \in SUBSET charged
  BY DEF AdmissionInv, Types
<1>4. lock' \in Lock /\ lock'.busy /\ lock'.judged = Nobody /\ lock'.served = {}
  <2>1. freed(r) \in SUBSET Resource
    BY <1>1, ResourceTypes DEF freed
  <2> QED BY <1>1, <2>1, ScanType
<1>5. Types' /\ Ordered' /\ Locked' /\ ReservationsKept' /\ ReadingStands' /\ RefusalsAgree'
  BY <1>1, <1>2, <1>3, <1>4, OutsideKeeps
<1>6. Charged'
  BY <1>1, <1>2 DEF AdmissionInv, Charged
<1> QED BY <1>5, <1>6 DEF AdmissionInv

LEMMA InitInv == Init => AdmissionInv
<1> SUFFICES ASSUME Init PROVE AdmissionInv
  OBVIOUS
<1> USE DEF Init
<1>1. Ungranted = {} /\ IsFiniteSet(Ungranted) /\ IsFiniteSet(charged)
  BY FS_EmptySet DEF Ungranted
<1>2. lock \in Lock /\ lock.judged = Nobody /\ lock.served = {}
  BY FreeType DEF Free
<1>3. Types
  BY <1>1, <1>2, FreeType DEF Types, Phase
<1>4. Ordered
  BY <1>1 DEF Ordered
<1>5. Locked
  BY <1>2 DEF Locked
<1>6. Charged
  BY DEF Charged
<1>7. ReservationsKept
  BY LanesKeptEmpty DEF ReservationsKept, LanesKept
<1>8. ReadingStands /\ RefusalsAgree
  BY <1>1, <1>2 DEF ReadingStands, RefusalsAgree
<1> QED BY <1>3, <1>4, <1>5, <1>6, <1>7, <1>8 DEF AdmissionInv

LEMMA NextInv == AdmissionInv /\ [Next]_vars => AdmissionInv'
<1> SUFFICES ASSUME AdmissionInv, [Next]_vars PROVE AdmissionInv'
  OBVIOUS
<1>1. CASE Judge
  BY <1>1, JudgeInv
<1>2. CASE Settle
  BY <1>2, BlockInv, RefuseInv, GrantInv DEF Settle
<1>3. CASE Deliver
  BY <1>3, DeliverInv
<1>4. ASSUME NEW r \in Request, Arrive(r) PROVE AdmissionInv'
  BY <1>4, ArriveInv
<1>5. ASSUME NEW r \in Request, Claim(r) PROVE AdmissionInv'
  BY <1>5, ClaimInv
<1>6. ASSUME NEW r \in Request, Withdraw(r) PROVE AdmissionInv'
  BY <1>6, WithdrawInv
<1>7. ASSUME NEW r \in Request, Abandon(r) PROVE AdmissionInv'
  <2>1. lock.served = {}
    BY <1>7 DEF Abandon, AdmissionInv, Locked, Free
  <2> QED BY <1>7, <2>1, ReturnInv DEF Abandon
<1>8. ASSUME NEW r \in Request, Close(r) PROVE AdmissionInv'
  BY <1>8, CloseInv
<1>9. ASSUME NEW r \in Request, Drop(r) PROVE AdmissionInv'
  <2>1. r \notin lock.served
    BY <1>9 DEF Drop, AdmissionInv, Locked
  <2> QED BY <1>9, <2>1, ReturnInv DEF Drop
<1>10. ASSUME NEW r \in Request, Release(r) PROVE AdmissionInv'
  BY <1>10, ReleaseInv
<1>11. CASE UNCHANGED vars
  <2>1. UNCHANGED <<phase, ahead, waiter, charged, opened, lock>>
    BY <1>11 DEF vars
  <2>2. Ungranted' = Ungranted /\ (\A v : Earlier(v)' = Earlier(v)) /\ \A v : Held(v)' = Held(v)
    BY <2>1 DEF Ungranted, Earlier, Held
  <2>3. Types' /\ Ordered' /\ Locked' /\ Charged'
    BY <2>1, <2>2 DEF AdmissionInv, Types, Ordered, Locked, Charged
  <2>4. ReservationsKept' /\ RefusalsAgree'
    BY <2>1, <2>2 DEF AdmissionInv, ReservationsKept, RefusalsAgree
  <2>5. ReadingStands'
    BY <2>1, <2>2 DEF AdmissionInv, ReadingStands
  <2> QED BY <2>3, <2>4, <2>5 DEF AdmissionInv
<1> QED BY <1>1, <1>2, <1>3, <1>4, <1>5, <1>6, <1>7, <1>8, <1>9, <1>10, <1>11 DEF Next

LEMMA AdmissionInvAlways == Spec => []AdmissionInv
BY InitInv, NextInv, PTL DEF Spec

-----------------------------------------------------------------------------
(* Nobody waits without a reason: the anchors of the waiters.              *)

\* All that a request may come to draw on.
Drawn(r) ==
    IF ~Charges(r) THEN {}
    ELSE {Peer(r), Lane(r), Shared, OpenPool} \cup (IF Opening(r) THEN {Floor(r)} ELSE {})

\* An earlier waiter blocks w by x: it has the stream, or holds the resource.
Behind(w, x) ==
    \E u \in Earlier(w) : x \in Held(u) \/ (x = Stream(w) /\ x = Stream(u))

\* The event that holds the lock has yet to judge those parked under x, from w on.
Scanned(w, x) ==
    \/ x \in lock.scans
    \/ x = lock.at /\ (lock.after = Nobody \/ lock.after \in ahead[w])

\* x will be scanned for w: by the event that holds the lock, once the waiter
\* it judges let go of x, or by the thread that returned a charge of x.
Waking(w, x) ==
    \/ Scanned(w, x)
    \/ lock.judged # Nobody /\ lock.judged \in Earlier(w) /\ x \in lock.held
    \/ \E r \in Request : Owed(r) /\ x \in freed(r)

\* Why w waits, at a resource it is parked under: it is blocked there, or
\* refused there, or about to be judged.  The lane of a refusal is not enough:
\* what it was refused for is the shared capacity.
Anchor(w, x) ==
    /\ waiter[w].refusal # {} => x[1] # 3
    /\ Behind(w, x) \/ (x \in waiter[w].refusal /\ Refuses(x, w)) \/ Waking(w, x)

Anchored == \A w \in Ungranted \ {lock.judged} : \E x \in waiter[w].parked : Anchor(w, x)

\* What a waiter may be indexed under.
Indexed ==
    \A r \in Request :
        /\ waiter[r].refusal \in {{}, {Peer(r)}, {Lane(r), Shared}, {OpenPool}}
        /\ waiter[r].refusal # {} => waiter[r].parked = waiter[r].refusal /\ waiter[r].holds = {}
        /\ waiter[r].holds \subseteq {Lane(r), Floor(r)}
        /\ waiter[r].parked \subseteq {Stream(r)} \cup Drawn(r)

\* The blockers read of the judged waiter still block it, and it is the first
\* of those the scan it belongs to had to judge.
JudgedFirst ==
    lock.judged # Nobody =>
        /\ lock.blockers \subseteq {Stream(lock.judged)} \cup Drawn(lock.judged)
        /\ \A x \in lock.blockers : Behind(lock.judged, x)
        /\ \A v \in Ungranted \ {lock.judged} :
             /\ lock.at \in waiter[v].parked
             /\ lock.after = Nobody \/ lock.after \in ahead[v]
             => lock.judged \in ahead[v]

AnchorInv == Indexed /\ JudgedFirst /\ Anchored

\* Resources of different kinds differ.
LEMMA Kinds ==
    ASSUME NEW r \in Request
    PROVE  /\ Stream(r)[1] = 1 /\ Peer(r)[1] = 2 /\ Lane(r)[1] = 3 /\ Shared[1] = 4
           /\ OpenPool[1] = 5 /\ Floor(r)[1] = 6 /\ Nothing[1] = 0
BY DEF Stream, Peer, Lane, Shared, OpenPool, Floor, Nothing

LEMMA FootprintDrawn ==
    ASSUME NEW r \in Request, NEW C, NEW O
    PROVE  /\ footprint(C, O, r) \subseteq Drawn(r)
           /\ Drawn(r) \ {Shared, OpenPool} \subseteq footprint(C, O, r)
BY DEF footprint, Drawn

\* What a refusal consists of; it names a budget that has no room.
LEMMA RefusalNames ==
    ASSUME NEW r \in Request
    PROVE  LET refusal == refusal_of(charged, opened, r)
           IN  /\ refusal \in {{}, {Peer(r)}, {Lane(r), Shared}, {OpenPool}}
               /\ refusal \subseteq Drawn(r)
               /\ refusal # {} => \E x \in refusal : x[1] # 3 /\ Refuses(x, r)
<1>1. /\ refusal_of(charged, opened, r) \in {{}, {Peer(r)}, {Lane(r), Shared}, {OpenPool}}
      /\ refusal_of(charged, opened, r) \subseteq Drawn(r)
  BY DEF refusal_of, Drawn
<1>2. ASSUME refusal_of(charged, opened, r) # {}
      PROVE  \E x \in refusal_of(charged, opened, r) : x[1] # 3 /\ Refuses(x, r)
  BY <1>2, Kinds DEF refusal_of, Refuses
<1> QED BY <1>1, <1>2

\* A budget without room for r does not refuse it for nothing.
LEMMA RefusesRefuses ==
    ASSUME NEW r \in Request, Charges(r), NEW x, Refuses(x, r)
    PROVE  refusal_of(charged, opened, r) # {}
BY DEF Refuses, refusal_of

\* A budget without room does not get any by further charges.
LEMMA RefusesMore ==
    ASSUME charged' \in SUBSET Request, IsFiniteSet(charged'), charged \in SUBSET charged',
           opened' \in SUBSET charged', opened \in SUBSET opened',
           NEW r \in Request, NEW x, Refuses(x, r)
    PROVE  Refuses(x, r)'
<1>1. opened' \in SUBSET Request /\ IsFiniteSet(opened')
  BY FS_Subset
<1>2. /\ FitsPeer(charged', r) => FitsPeer(charged, r)
      /\ FitsMailbox(charged', r) => FitsMailbox(charged, r)
  BY FitsPeerLess, FitsMailboxLess
<1>3. FitsOpen(opened', r) => FitsOpen(opened, r)
  BY <1>1, FitsOpenLess
<1> QED BY <1>2, <1>3 DEF Refuses

\* The reliefs a waiter holds are its lane and its slot's floor.
LEMMA HoldsShape ==
    ASSUME NEW r \in Request, NEW blocking
    PROVE  holds(r, blocking) \subseteq {Lane(r), Floor(r)} \cap Drawn(r)
<1>1. ASSUME NEW x \in reliefs(charged, opened, r)
      PROVE  x[1] \in {Lane(r), Floor(r)} \cap Drawn(r)
  <2>1. /\ Charges(r)
        /\ x = <<Lane(r), {Shared}>> \/ (x = <<Floor(r), {OpenPool}>> /\ Opening(r))
    BY DEF reliefs
  <2> QED BY <2>1 DEF Drawn
<1> QED BY <1>1 DEF holds

\* Blockers read of r block it, and belong to it.
LEMMA BlockersShape ==
    ASSUME NEW r \in Request, NEW earlier
    PROVE  /\ blockers(r, earlier) \subseteq {Stream(r)} \cup Drawn(r)
           /\ \A x \in blockers(r, earlier) :
                \E u \in earlier : x \in Held(u) \/ (x = Stream(r) /\ x = Stream(u))
<1>1. blockers(r, earlier) \subseteq {Stream(r)} \cup Drawn(r)
  BY FootprintDrawn DEF blockers
<1> QED BY <1>1 DEF blockers

\* What a waiter is parked under is a resource.
LEMMA ParkedReal ==
    ASSUME Indexed, NEW r \in Request, NEW x \in waiter[r].parked
    PROVE  x # Nothing
<1>1. x \in {Stream(r), Peer(r), Lane(r), Shared, OpenPool, Floor(r)}
  BY DEF Indexed, Drawn
<1> QED BY <1>1, Kinds

\* Waiters keep their order: earlier than an earlier one is earlier.
LEMMA EarlierOf ==
    ASSUME Ordered, NEW w \in Ungranted, NEW v \in Earlier(w), NEW u \in Earlier(v)
    PROVE  u \in Earlier(w)
BY DEF Earlier, Ungranted, Ordered

\* While nobody holds the lock.
LEMMA FreeAnchor ==
    ASSUME AdmissionInv, AnchorInv, ~lock.busy, NEW w \in Ungranted
    PROVE  \E x \in waiter[w].parked :
             /\ waiter[w].refusal # {} => x[1] # 3
             /\ \/ Behind(w, x)
                \/ x \in waiter[w].refusal /\ Refuses(x, w)
                \/ \E r \in Request : Owed(r) /\ x \in freed(r)
<1>1. lock = Free /\ w \in Request
  BY DEF AdmissionInv, Locked, Ungranted
<1>2. w \in Ungranted \ {lock.judged}
  BY <1>1, NobodyAssumption DEF Free
<1>3. PICK x \in waiter[w].parked : Anchor(w, x)
  BY <1>2 DEF AnchorInv, Anchored
<1>4. x # Nothing
  BY <1>1, ParkedReal DEF AnchorInv
<1>5. lock.scans = {} /\ lock.at = Nothing /\ lock.judged = Nobody
  BY <1>1 DEF Free
<1>6. Waking(w, x) => \E r \in Request : Owed(r) /\ x \in freed(r)
  BY <1>4, <1>5 DEF Waking, Scanned
<1> QED BY <1>3, <1>6 DEF Anchor

\* A refusal has one member that is not a lane.
LEMMA OneBudgetRefuses ==
    ASSUME Indexed, NEW r \in Request, NEW x \in waiter[r].refusal, NEW y \in waiter[r].refusal,
           x[1] # 3, y[1] # 3
    PROVE  x = y
BY Kinds DEF Indexed

\* Once every event is over, who is admissible waits behind a refusal that stands.
LEMMA AnchoredStranded ==
    ASSUME AdmissionInv, AnchorInv
    PROVE  StrandedBehindRefused
<1>1. SUFFICES ASSUME Quiet, NEW w \in Ungranted, Admissible(w)
               PROVE  \E v \in Earlier(w) :
                         \E x \in waiter[v].refusal \cap waiter[w].parked : Refuses(x, v)
  BY DEF StrandedBehindRefused
<1>2. w \in Request /\ ~lock.busy /\ (\A r \in Request : ~Owed(r)) /\ Indexed /\ Types /\ Ordered
  BY <1>1 DEF Quiet, Ungranted, AnchorInv, AdmissionInv
<1>3. ASSUME NEW v \in Ungranted
      PROVE  \E x \in waiter[v].parked :
               /\ waiter[v].refusal # {} => x[1] # 3
               /\ Behind(v, x) \/ (x \in waiter[v].refusal /\ Refuses(x, v))
  BY <1>2, FreeAnchor
<1>4. PICK x \in waiter[w].parked : Behind(w, x) \/ (x \in waiter[w].refusal /\ Refuses(x, w))
  BY <1>3
<1>5. ~(x \in waiter[w].refusal /\ Refuses(x, w))
  <2>1. SUFFICES ASSUME x \in waiter[w].refusal, Refuses(x, w) PROVE FALSE
    OBVIOUS
  <2>2. x \in {Peer(w), Lane(w), Shared, OpenPool} /\ x \in {Stream(w)} \cup Drawn(w)
    BY <1>2, <2>1 DEF Indexed
  <2>3. Charges(w)
    BY <1>2, <2>2, Kinds DEF Drawn
  <2> QED BY <1>1, <1>2, <2>1, <2>3, RefusesRefuses DEF Admissible
<1>6. PICK u \in Earlier(w) : x \in Held(u) \/ (x = Stream(w) /\ x = Stream(u))
  BY <1>4, <1>5 DEF Behind
<1>7. u \in Ungranted /\ u \in Request /\ u \in ahead[w]
  BY <1>6 DEF Earlier, Ungranted
<1>8. ~(x = Stream(w) /\ x = Stream(u))
  BY <1>1, <1>6 DEF Admissible, blockers
<1>9. x \in Held(u) /\ x \notin footprint(charged, opened, w)
  BY <1>1, <1>6, <1>8 DEF Admissible, blockers
<1>10. x \in {Shared, OpenPool}
  <2>1. x \in {Peer(u), Lane(u), Shared, OpenPool, Floor(u)}
    BY <1>2, <1>7, <1>9 DEF Held, Indexed
  <2>2. x # Stream(w)
    BY <1>2, <1>7, <2>1, Kinds
  <2>3. x \in Drawn(w)
    BY <1>2, <1>4, <2>2 DEF Indexed
  <2> QED BY <1>2, <1>9, <2>3, FootprintDrawn
<1>11. ASSUME NEW v \in Request, x \in Held(v) PROVE x \in waiter[v].refusal
  <2>1. x \notin {Lane(v), Floor(v)}
    BY <1>10, Kinds
  <2> QED BY <1>2, <1>11, <2>1 DEF Held, Indexed
<1> DEFINE S == {v \in Ungranted : x \in waiter[v].refusal}
<1>12. u \in S /\ S \in SUBSET Ungranted
  BY <1>7, <1>9, <1>11
<1>13. PICK f \in S : ahead[f] \cap S = {}
  <2> HIDE DEF S
  <2> QED BY <1>2, <1>12, FirstIn
<1>14. f \in Ungranted /\ f \in Request /\ x \in waiter[f].refusal
  BY <1>13 DEF Ungranted
<1>15. f \in Earlier(w)
  <2>1. f = u \/ f \in ahead[u]
    BY <1>2, <1>7, <1>12, <1>13, <1>14 DEF Ordered
  <2> QED BY <1>2, <1>6, <1>7, <1>14, <2>1 DEF Earlier, Ordered
<1>16. Refuses(x, f)
  <2>1. PICK y \in waiter[f].parked :
               /\ waiter[f].refusal # {} => y[1] # 3
               /\ Behind(f, y) \/ (y \in waiter[f].refusal /\ Refuses(y, f))
    BY <1>3, <1>14
  <2>2. y \in waiter[f].refusal /\ y[1] # 3 /\ x[1] # 3
    BY <1>2, <1>10, <1>14, <2>1, Kinds DEF Indexed
  <2>3. y = x
    BY <1>2, <1>14, <2>2, OneBudgetRefuses
  <2>4. SUFFICES ASSUME Behind(f, x) PROVE FALSE
    BY <2>1, <2>3
  <2>5. PICK t \in Earlier(f) : x \in Held(t) \/ (x = Stream(f) /\ x = Stream(t))
    BY <2>4 DEF Behind
  <2>6. t \in Ungranted /\ t \in Request /\ t \in ahead[f] /\ x # Stream(f)
    BY <1>2, <1>10, <1>14, <2>5, Kinds DEF Earlier, Ungranted
  <2>7. t \in S
    BY <1>11, <2>5, <2>6
  <2> QED BY <1>13, <2>6, <2>7
<1> QED BY <1>14, <1>15, <1>16

\* A judgement takes the first of those the scan has to judge, and the scan
\* forgets nobody else.
LEMMA JudgeTakesFirst ==
    ASSUME AdmissionInv, AnchorInv, Judge
    PROVE  \E w \in Ungranted :
             /\ lock'.judged = w /\ lock'.held = Held(w)
             /\ lock'.blockers = blockers(w, Earlier(w))
             /\ waiter' = [waiter EXCEPT ![w] = NoIndex]
             /\ UNCHANGED <<phase, ahead, charged, opened>>
             /\ \A v \in Ungranted \ {w} :
                  /\ lock'.at \in waiter[v].parked
                  /\ lock'.after = Nobody \/ lock'.after \in ahead[v]
                  => w \in ahead[v]
             /\ \A v \in Ungranted : \A x \in waiter[v].parked : Scanned(v, x) => Scanned(v, x)'
<1> USE DEF AdmissionInv, AnchorInv
<1> DEFINE at == NextAt
           stays == at = lock.at /\ Parked(lock.at, lock.after) # {}
           from == IF stays THEN lock.after ELSE Nobody
           S == Parked(at, from)
           w == First(S)
           scans == IF stays THEN lock.scans ELSE {x \in lock.scans : Precedes(at, x)}
           live == {x \in lock.scans : Parked(x, Nobody) # {}}
<1>1. lock.scans \in SUBSET Resource /\ lock \in Lock
  BY DEF Types, Lock
<1>2. at # Nothing
  BY DEF Judge
<1>3. stays <=> lock.at # Nothing /\ Parked(lock.at, lock.after) # {}
  BY <1>2 DEF NextAt
<1>4. ~stays => /\ at \in live
                /\ \A x \in live \ {at} : Precedes(at, x)
  <2>1. SUFFICES ASSUME ~stays PROVE at \in live /\ \A x \in live \ {at} : Precedes(at, x)
    OBVIOUS
  <2>2. at = IF live = {} THEN Nothing ELSE Least(live)
    BY <1>3, <2>1 DEF NextAt
  <2>3. live # {} /\ at = Least(live) /\ live \in SUBSET Resource
    BY <1>1, <1>2, <2>2
  <2> HIDE DEF live, at
  <2> QED BY <2>3, LeastIn
<1>5. S # {} /\ S \in SUBSET Ungranted
  BY <1>4 DEF Parked
<1>6. w \in S /\ ahead[w] \cap S = {}
  <2> HIDE DEF S
  <2> QED BY <1>5, FirstIn
<1>7. /\ lock' = [lock EXCEPT !.at = at, !.after = from, !.scans = scans, !.judged = w,
                              !.blockers = blockers(w, Earlier(w)), !.held = Held(w)]
      /\ waiter' = [waiter EXCEPT ![w] = NoIndex]
      /\ UNCHANGED <<phase, ahead, charged, opened>>
  BY DEF Judge
<1>8. /\ lock'.judged = w /\ lock'.held = Held(w) /\ lock'.blockers = blockers(w, Earlier(w))
      /\ lock'.at = at /\ lock'.after = from /\ lock'.scans = scans
  <2> HIDE DEF at, from, scans, w
  <2> QED BY <1>1, <1>7 DEF Lock
<1>9. ASSUME NEW v \in Ungranted \ {w}, at \in waiter[v].parked,
             from = Nobody \/ from \in ahead[v]
      PROVE  w \in ahead[v]
  <2>1. v \in S
    BY <1>9 DEF Parked
  <2>2. v \in ahead[w] \/ w \in ahead[v] \/ v = w
    <3> HIDE DEF w
    <3> QED BY <1>5, <1>6 DEF Ordered
  <2> HIDE DEF w, S
  <2> QED BY <1>6, <1>9, <2>1, <2>2
<1>10. ASSUME NEW v \in Ungranted, NEW x \in waiter[v].parked, Scanned(v, x)
       PROVE  x \in scans \/ (x = at /\ (from = Nobody \/ from \in ahead[v]))
  <2>1. CASE stays
    BY <1>10, <2>1 DEF Scanned
  <2>2. CASE ~stays
    <3>1. x # Nothing
      BY ParkedReal DEF Ungranted
    <3>2. ~(x = lock.at /\ (lock.after = Nobody \/ lock.after \in ahead[v]))
      <4>1. SUFFICES ASSUME x = lock.at, lock.after = Nobody \/ lock.after \in ahead[v] PROVE FALSE
        OBVIOUS
      <4>2. v \in Parked(lock.at, lock.after)
        BY <4>1 DEF Parked
      <4> HIDE DEF stays
      <4> QED BY <1>3, <2>2, <3>1, <4>1, <4>2
    <3>3. x \in lock.scans
      BY <1>10, <3>2 DEF Scanned
    <3>4. v \in Parked(x, Nobody)
      BY DEF Parked
    <3>5. x \in live
      BY <3>3, <3>4
    <3> QED BY <1>4, <2>2, <3>3, <3>5
  <2> QED BY <2>1, <2>2
<1>11. w \in Ungranted
  BY <1>5, <1>6
<1>12. \A v \in Ungranted \ {w} : /\ lock'.at \in waiter[v].parked
                                  /\ lock'.after = Nobody \/ lock'.after \in ahead[v]
                                  => w \in ahead[v]
  <2> HIDE DEF at, from, w
  <2> QED BY <1>8, <1>9
<1>13. \A v \in Ungranted : \A x \in waiter[v].parked : Scanned(v, x) => Scanned(v, x)'
  <2>1. ahead' = ahead
    BY <1>7
  <2> HIDE DEF at, from, scans
  <2> QED BY <1>8, <1>10, <2>1 DEF Scanned
<1> HIDE DEF w
<1> QED BY <1>7, <1>8, <1>11, <1>12, <1>13

LEMMA JudgeAnchor ==
    ASSUME AdmissionInv, AnchorInv, Judge
    PROVE  AnchorInv'
<1> USE DEF AdmissionInv, AnchorInv
<1>1. PICK w \in Ungranted :
             /\ lock'.judged = w /\ lock'.held = Held(w)
             /\ lock'.blockers = blockers(w, Earlier(w))
             /\ waiter' = [waiter EXCEPT ![w] = NoIndex]
             /\ UNCHANGED <<phase, ahead, charged, opened>>
             /\ \A v \in Ungranted \ {w} :
                  /\ lock'.at \in waiter[v].parked
                  /\ lock'.after = Nobody \/ lock'.after \in ahead[v]
                  => w \in ahead[v]
             /\ \A v \in Ungranted : \A x \in waiter[v].parked : Scanned(v, x) => Scanned(v, x)'
  BY JudgeTakesFirst
<1>2. /\ w \in Request /\ Ungranted' = Ungranted /\ Ungranted \subseteq Request
      /\ w # Nobody /\ \A v : Earlier(v)' = Earlier(v)
  BY <1>1, NobodyAssumption DEF Ungranted, Earlier
<1>3. /\ waiter'[w] = NoIndex /\ \A v \in Request \ {w} : waiter'[v] = waiter[v]
      /\ \A v \in Request \ {w} : Held(v)' = Held(v)
  BY <1>1, <1>2 DEF Types, Held
<1>4. w \notin Earlier(w) /\ \A v : Earlier(v) \subseteq Ungranted
  BY <1>2 DEF Earlier, Ordered
<1>5. Indexed'
  <2>1. \A r \in Request \ {w} : waiter'[r] = waiter[r]
    BY <1>3
  <2> QED BY <1>2, <1>3, <2>1 DEF Indexed, NoIndex
<1>6. JudgedFirst'
  <2>1. blockers(w, Earlier(w)) \subseteq {Stream(w)} \cup Drawn(w)
    BY <1>2, BlockersShape
  <2>2. ASSUME NEW x \in blockers(w, Earlier(w)) PROVE Behind(w, x)'
    <3>1. PICK u \in Earlier(w) : x \in Held(u) \/ (x = Stream(w) /\ x = Stream(u))
      BY <1>2, BlockersShape
    <3>2. u \in Earlier(w)' /\ Held(u)' = Held(u)
      BY <1>2, <1>3, <1>4
    <3> QED BY <3>1, <3>2 DEF Behind
  <2>3. \A v \in Ungranted \ {w} : waiter'[v].parked = waiter[v].parked
    BY <1>2, <1>3
  <2> QED BY <1>1, <1>2, <2>1, <2>2, <2>3 DEF JudgedFirst
<1>7. Anchored'
  <2>1. SUFFICES ASSUME NEW v \in Ungranted \ {w} PROVE \E x \in waiter'[v].parked : Anchor(v, x)'
    BY <1>1, <1>2 DEF Anchored
  <2>2. v \in Request \ {w} /\ waiter'[v] = waiter[v]
    BY <1>2, <1>3
  <2>3. lock.judged = Nobody
    BY DEF Judge
  <2>4. PICK x \in waiter[v].parked : Anchor(v, x)
    BY <1>2, <2>3, NobodyAssumption DEF Anchored
  <2>5. CASE Behind(v, x)
    <3>1. PICK u \in Earlier(v) : x \in Held(u) \/ (x = Stream(v) /\ x = Stream(u))
      BY <2>5 DEF Behind
    <3>2. u \in Earlier(v)' /\ u \in Request
      BY <1>2, <1>4, <3>1
    <3>3. CASE u = w /\ x \in Held(u)
      <4>1. Waking(v, x)'
        BY <1>1, <1>2, <3>2, <3>3 DEF Waking
      <4> QED BY <2>2, <2>4, <4>1 DEF Anchor
    <3>4. CASE u # w \/ x \notin Held(u)
      <4>1. Behind(v, x)'
        BY <1>3, <3>1, <3>2, <3>4 DEF Behind
      <4> QED BY <2>2, <2>4, <4>1 DEF Anchor
    <3> QED BY <3>3, <3>4
  <2>6. CASE x \in waiter[v].refusal /\ Refuses(x, v)
    <3>1. Refuses(x, v)'
      BY <1>1, <2>6 DEF Refuses
    <3> QED BY <2>2, <2>4, <2>6, <3>1 DEF Anchor
  <2>7. CASE Waking(v, x)
    <3>1. Scanned(v, x) => Scanned(v, x)'
      BY <1>1
    <3>2. \A r \in Request : Owed(r) /\ x \in freed(r) => Owed(r)' /\ x \in freed(r)'
      BY <1>1 DEF Owed, freed
    <3>3. Waking(v, x)'
      BY <2>3, <2>7, <3>1, <3>2 DEF Waking
    <3> QED BY <2>2, <2>4, <3>3 DEF Anchor
  <2> QED BY <2>4, <2>5, <2>6, <2>7 DEF Anchor
<1> QED BY <1>5, <1>6, <1>7

\* What the end of a judgement does to those that were to be woken: each one
\* still is, or waits behind what the judged waiter keeps or is parked under.
LEMMA SettleWakes ==
    ASSUME AdmissionInv, AnchorInv, NEW j \in Request, lock.judged = j,
           NEW parked, NEW named, NEW granted, Judged(j, parked, named, granted),
           ahead' = ahead, \A r \in Request : Owed(r) => phase'[r] = phase[r],
           NEW v \in Ungranted, v # j, NEW x \in waiter[v].parked, Waking(v, x)
    PROVE  \/ Waking(v, x)'
           \/ /\ j \in Earlier(v)
              /\ x \in parked \/ (x \in lock.held /\ x \notin named)
<1> USE DEF AdmissionInv, AnchorInv
<1>0. j # Nobody
  BY NobodyAssumption
<1>1. /\ lock'.scans = lock.scans \cup named /\ lock'.judged = Nobody
      /\ lock'.at = IF lock.at \in parked THEN Nothing ELSE lock.at
      /\ lock'.after = IF lock.at = Nothing \/ lock.at \in parked THEN Nobody ELSE j
  BY DEF Judged, Types, Lock
<1>2. x # Nothing /\ j \in Ungranted
  BY <1>0, ParkedReal, JudgedWaits DEF Ungranted
<1>3. CASE x \in lock.scans
  BY <1>1, <1>3 DEF Waking, Scanned
<1>4. CASE x = lock.at /\ (lock.after = Nobody \/ lock.after \in ahead[v])
  <2>1. j \in ahead[v]
    BY <1>0, <1>4 DEF JudgedFirst
  <2>2. CASE x \in parked
    BY <1>2, <2>1, <2>2 DEF Earlier
  <2>3. CASE x \notin parked
    <3>1. lock'.at = x /\ lock'.after = j
      BY <1>1, <1>2, <1>4, <2>3
    <3> QED BY <2>1, <3>1 DEF Waking, Scanned
  <2> QED BY <2>2, <2>3
<1>5. CASE j \in Earlier(v) /\ x \in lock.held
  <2>1. CASE x \in named
    BY <1>1, <2>1 DEF Waking, Scanned
  <2> QED BY <1>5, <2>1
<1>6. CASE \E r \in Request : Owed(r) /\ x \in freed(r)
  <2>1. PICK r \in Request : Owed(r) /\ x \in freed(r)
    BY <1>6
  <2>2. Owed(r)' /\ x \in freed(r)'
    BY <2>1 DEF Owed, freed
  <2> QED BY <2>2 DEF Waking
<1> QED BY <1>3, <1>4, <1>5, <1>6 DEF Waking, Scanned

LEMMA BlockAnchor ==
    ASSUME AdmissionInv, AnchorInv, NEW j \in Request, lock.judged = j, Block(j)
    PROVE  AnchorInv'
<1> USE DEF AdmissionInv, AnchorInv
<1> DEFINE h == holds(j, lock.blockers)
           parked == {Least(lock.blockers)} \cup h
<1>0. j # Nobody
  BY NobodyAssumption
<1>1. j \in Ungranted /\ waiter[j] = NoIndex /\ Held(j) = {}
  BY <1>0, JudgedWaits DEF Held, NoIndex
<1>2. /\ waiter' = [waiter EXCEPT ![j] = [refusal |-> {}, holds |-> h, parked |-> parked]]
      /\ Judged(j, parked, lock.held \ h, FALSE)
      /\ UNCHANGED <<phase, ahead, charged, opened>>
  BY DEF Block
<1>3. lock'.judged = Nobody
  BY <1>2 DEF Judged, Types, Lock
<1>4. PICK b \in lock.blockers : b = Least(lock.blockers)
  <2>1. lock.blockers \in SUBSET Resource /\ lock.blockers # {}
    BY DEF Types, Lock, Block
  <2> QED BY <2>1, LeastIn
<1>5. h \subseteq {Lane(j), Floor(j)} \cap Drawn(j)
  BY <1>1, HoldsShape
<1> HIDE DEF h
<1>6. /\ waiter'[j].refusal = {} /\ waiter'[j].holds = h /\ waiter'[j].parked = {b} \cup h
      /\ \A v \in Request \ {j} : waiter'[v] = waiter[v]
  BY <1>1, <1>2, <1>4 DEF Types
<1>7. /\ Ungranted' = Ungranted /\ Ungranted \subseteq Request
      /\ \A v : Earlier(v)' = Earlier(v) /\ Earlier(v) \subseteq Ungranted
  BY <1>2 DEF Ungranted, Earlier
<1>8. Held(j)' = h /\ \A v \in Request \ {j} : Held(v)' = Held(v)
  BY <1>6 DEF Held
<1>9. ASSUME NEW w \in Request, NEW x, Behind(w, x) PROVE Behind(w, x)'
  <2>1. PICK u \in Earlier(w) : x \in Held(u) \/ (x = Stream(w) /\ x = Stream(u))
    BY <1>9 DEF Behind
  <2>2. u \in Earlier(w)' /\ (x \in Held(u) => x \in Held(u)')
    BY <1>1, <1>7, <1>8, <2>1
  <2> QED BY <2>1, <2>2 DEF Behind
<1>10. Indexed'
  <2>1. {b} \cup h \subseteq {Stream(j)} \cup Drawn(j)
    BY <1>0, <1>4, <1>5 DEF JudgedFirst
  <2>2. h \subseteq {Lane(j), Floor(j)}
    BY <1>5
  <2> QED BY <1>1, <1>6, <2>1, <2>2 DEF Indexed
<1>11. JudgedFirst'
  BY <1>3 DEF JudgedFirst
<1>12. Anchored'
  <2>1. SUFFICES ASSUME NEW v \in Ungranted PROVE \E x \in waiter'[v].parked : Anchor(v, x)'
    BY <1>7 DEF Anchored
  <2>2. CASE v = j
    <3>1. Behind(j, b)'
      BY <1>0, <1>4, <1>9 DEF JudgedFirst
    <3> QED BY <1>6, <2>2, <3>1 DEF Anchor
  <2>3. CASE v # j
    <3>1. v \in Request /\ waiter'[v] = waiter[v]
      BY <1>6, <1>7, <2>3
    <3>2. PICK x \in waiter[v].parked : Anchor(v, x)
      BY <2>3 DEF Anchored
    <3>3. CASE Behind(v, x)
      BY <1>9, <3>1, <3>2, <3>3 DEF Anchor
    <3>4. CASE x \in waiter[v].refusal /\ Refuses(x, v)
      <4>1. Refuses(x, v)'
        BY <1>2, <3>4 DEF Refuses
      <4> QED BY <3>1, <3>2, <3>4, <4>1 DEF Anchor
    <3>5. CASE Waking(v, x)
      <4>1. \/ Waking(v, x)'
            \/ j \in Earlier(v) /\ (x \in parked \/ (x \in lock.held /\ x \notin lock.held \ h))
        <5> DEFINE named == lock.held \ h
        <5>1. Judged(j, parked, named, FALSE) /\ \A r \in Request : Owed(r) => phase'[r] = phase[r]
          BY <1>2
        <5>2. ahead' = ahead
          BY <1>2
        <5> HIDE DEF parked, named
        <5>3. \/ Waking(v, x)'
              \/ j \in Earlier(v) /\ (x \in parked \/ (x \in lock.held /\ x \notin named))
          BY <2>3, <3>2, <3>5, <5>1, <5>2, SettleWakes
        <5> QED BY <5>3 DEF named
      <4>2. ASSUME j \in Earlier(v), x \in h PROVE Behind(v, x)'
        BY <1>7, <1>8, <4>2 DEF Behind
      <4>3. ASSUME j \in Earlier(v), x = b PROVE Behind(v, x)'
        <5>1. PICK u \in Earlier(j) : x \in Held(u) \/ (x = Stream(j) /\ x = Stream(u))
          BY <1>0, <1>4, <4>3 DEF JudgedFirst, Behind
        <5>2. u \in Earlier(v)
          BY <4>3, <5>1, EarlierOf
        <5>3. x = Stream(j) => x = Stream(v)
          <6>1. SUFFICES ASSUME x = Stream(j) PROVE x = Stream(v)
            OBVIOUS
          <6>2. x \in {Stream(v), Peer(v), Lane(v), Shared, OpenPool, Floor(v)}
            BY <3>1, <3>2 DEF Indexed, Drawn
          <6> QED BY <1>1, <3>1, <6>1, <6>2, Kinds
        <5>4. Behind(v, x)
          BY <5>1, <5>2, <5>3 DEF Behind
        <5> QED BY <1>9, <3>1, <5>4
      <4>4. Waking(v, x)' \/ Behind(v, x)'
        BY <1>4, <4>1, <4>2, <4>3
      <4> QED BY <3>1, <3>2, <4>4 DEF Anchor
    <3> QED BY <3>2, <3>3, <3>4, <3>5 DEF Anchor
  <2> QED BY <2>2, <2>3
<1> QED BY <1>10, <1>11, <1>12

LEMMA GrantAnchor ==
    ASSUME AdmissionInv, AdmissionInv', AnchorInv, NEW j \in Request, lock.judged = j, Grant(j)
    PROVE  AnchorInv'
<1> USE DEF AdmissionInv, AnchorInv
<1> DEFINE named == lock.held \cup {Stream(j)}
<1>0. j # Nobody
  BY NobodyAssumption
<1>1. /\ j \in Ungranted /\ waiter[j] = NoIndex /\ Held(j) = {}
      /\ phase[j] = "waiting"
  BY <1>0, JudgedWaits DEF Held, NoIndex
<1>2. /\ phase' = [phase EXCEPT ![j] = "granted"]
      /\ charged' = IF Charges(j) THEN charged \cup {j} ELSE charged
      /\ opened' = IF Opening(j) THEN opened \cup {j} ELSE opened
      /\ Judged(j, {}, named, TRUE)
      /\ UNCHANGED <<ahead, waiter>>
  BY DEF Grant
<1>3. lock'.judged = Nobody /\ lock'.scans = lock.scans \cup named
  BY <1>2 DEF Judged, Types, Lock
<1>4. \A r \in Request \ {j} : phase'[r] = phase[r]
  BY <1>1, <1>2 DEF Types
<1>5. phase'[j] = "granted"
  BY <1>1, <1>2 DEF Types
<1>6. Ungranted' = Ungranted \ {j} /\ \A v : Earlier(v)' = Earlier(v) \ {j}
  BY <1>2, <1>4, <1>5 DEF Ungranted, Earlier
<1>7. \A v : Held(v)' = Held(v)
  BY <1>2 DEF Held
<1>8. Indexed'
  BY <1>2 DEF Indexed
<1>9. JudgedFirst'
  BY <1>3 DEF JudgedFirst
<1>10. Anchored'
  <2>1. SUFFICES ASSUME NEW v \in Ungranted \ {j} PROVE \E x \in waiter[v].parked : Anchor(v, x)'
    BY <1>2, <1>6 DEF Anchored
  <2>2. v \in Request
    BY DEF Ungranted
  <2>3. PICK x \in waiter[v].parked : Anchor(v, x)
    BY DEF Anchored
  <2>4. CASE Behind(v, x)
    <3>1. PICK u \in Earlier(v) : x \in Held(u) \/ (x = Stream(v) /\ x = Stream(u))
      BY <2>4 DEF Behind
    <3>2. CASE u = j
      <4>1. x \in named
        BY <1>1, <3>1, <3>2
      <4>2. Waking(v, x)'
        BY <1>3, <4>1 DEF Waking, Scanned
      <4> QED BY <1>2, <2>3, <4>2 DEF Anchor
    <3>3. CASE u # j
      <4>1. Behind(v, x)'
        BY <1>6, <1>7, <3>1, <3>3 DEF Behind
      <4> QED BY <1>2, <2>3, <4>1 DEF Anchor
    <3> QED BY <3>2, <3>3
  <2>5. CASE x \in waiter[v].refusal /\ Refuses(x, v)
    <3>1. Refuses(x, v)'
      <4>1. /\ charged' \in SUBSET Request /\ IsFiniteSet(charged') /\ charged \in SUBSET charged'
            /\ opened' \in SUBSET charged' /\ opened \in SUBSET opened'
        BY <1>2 DEF Types
      <4> QED BY <2>2, <2>5, <4>1, RefusesMore
    <3> QED BY <1>2, <2>3, <2>5, <3>1 DEF Anchor
  <2>6. CASE Waking(v, x)
    <3>1. \A r \in Request : Owed(r) => phase'[r] = phase[r]
      BY <1>1, <1>4 DEF Owed
    <3>2. Waking(v, x)'
      <4> DEFINE nowhere == {}
      <4>1. Judged(j, nowhere, named, TRUE) /\ ahead' = ahead /\ v # j
        BY <1>2
      <4>2. \/ Waking(v, x)'
            \/ j \in Earlier(v) /\ (x \in nowhere \/ (x \in lock.held /\ x \notin named))
        <5> HIDE DEF named, nowhere
        <5> QED BY <2>3, <2>6, <3>1, <4>1, SettleWakes
      <4> QED BY <4>2
    <3> QED BY <1>2, <2>3, <3>2 DEF Anchor
  <2> QED BY <2>3, <2>4, <2>5, <2>6 DEF Anchor
<1> QED BY <1>8, <1>9, <1>10

LEMMA RefuseAnchor ==
    ASSUME AdmissionInv, AnchorInv, NEW j \in Request, lock.judged = j, Refuse(j)
    PROVE  AnchorInv'
<1> USE DEF AdmissionInv, AnchorInv
<1> DEFINE refusal == refusal_of(charged, opened, j)
           demoted == Demoted(j, refusal)
           freedBy == UNION {waiter[v].refusal \ {DemotedTo(v, refusal)} : v \in demoted}
           named == (lock.held \ refusal) \cup freedBy
<1>0. j # Nobody
  BY NobodyAssumption
<1>1. j \in Ungranted /\ waiter[j] = NoIndex /\ Held(j) = {}
  BY <1>0, JudgedWaits DEF Held, NoIndex
<1>2. /\ refusal # {}
      /\ waiter' = [v \in Request |->
              IF v = j THEN [refusal |-> refusal, holds |-> {}, parked |-> refusal]
              ELSE IF v \in demoted
                   THEN [NoIndex EXCEPT !.parked = {DemotedTo(v, refusal)}]
                   ELSE waiter[v]]
      /\ Judged(j, refusal, named, FALSE)
      /\ UNCHANGED <<phase, ahead, charged, opened>>
  BY DEF Refuse
<1>3. lock'.judged = Nobody /\ lock'.scans = lock.scans \cup named
  BY <1>2 DEF Judged, Types, Lock
<1>4. /\ refusal \in {{}, {Peer(j)}, {Lane(j), Shared}, {OpenPool}}
      /\ refusal \subseteq Drawn(j)
      /\ \E x \in refusal : x[1] # 3 /\ Refuses(x, j)
  BY <1>1, <1>2, RefusalNames
<1>5. ASSUME NEW v \in demoted
      PROVE  /\ v \in Ungranted /\ v \in Request /\ v # j /\ j \in Earlier(v)
             /\ DemotedTo(v, refusal) \in waiter[v].refusal \cap refusal
             /\ waiter[v].refusal # {}
  <2>1. v \in Ungranted /\ j \in ahead[v] /\ waiter[v].refusal \cap refusal # {}
    BY DEF Demoted, Later
  <2>2. v \in Request /\ v # j /\ j \in Earlier(v)
    BY <1>1, <2>1 DEF Ungranted, Earlier, Ordered
  <2>3. waiter[v].refusal \cap refusal \in SUBSET Resource
    BY <2>2, Entries
  <2> HIDE DEF refusal, demoted
  <2> QED BY <2>1, <2>2, <2>3, LeastIn DEF DemotedTo
<1>6. ASSUME NEW v \in demoted, NEW x \in waiter[v].refusal
      PROVE  x = DemotedTo(v, refusal) \/ x \in named
  BY <1>6
<1> HIDE DEF refusal, demoted, named, freedBy
<1>7. /\ waiter'[j].refusal = refusal /\ waiter'[j].holds = {} /\ waiter'[j].parked = refusal
      /\ \A v \in demoted : /\ waiter'[v].refusal = {} /\ waiter'[v].holds = {}
                            /\ waiter'[v].parked = {DemotedTo(v, refusal)}
      /\ \A v \in Request \ {j} : v \notin demoted => waiter'[v] = waiter[v]
  <2>1. \A v \in demoted : waiter'[v] = [NoIndex EXCEPT !.parked = {DemotedTo(v, refusal)}]
    BY <1>2, <1>5
  <2>2. waiter'[j] = [refusal |-> refusal, holds |-> {}, parked |-> refusal]
    BY <1>2
  <2>3. \A v \in Request \ {j} : v \notin demoted => waiter'[v] = waiter[v]
    BY <1>2
  <2>4. \A v \in demoted : /\ waiter'[v].refusal = {} /\ waiter'[v].holds = {}
                            /\ waiter'[v].parked = {DemotedTo(v, refusal)}
    BY <2>1 DEF NoIndex
  <2>5. waiter'[j].refusal = refusal /\ waiter'[j].holds = {} /\ waiter'[j].parked = refusal
    BY <2>2
  <2> QED BY <2>3, <2>4, <2>5
<1>8. /\ Ungranted' = Ungranted /\ Ungranted \subseteq Request
      /\ \A v : Earlier(v)' = Earlier(v) /\ Earlier(v) \subseteq Ungranted
  BY <1>2 DEF Ungranted, Earlier
<1>9. Held(j)' = refusal /\ \A v \in Request \ {j} : v \notin demoted => Held(v)' = Held(v)
  BY <1>7 DEF Held
<1>10. ASSUME NEW w \in Ungranted, NEW x, Behind(w, x)
       PROVE  Behind(w, x)' \/ Waking(w, x)'
  <2>1. PICK u \in Earlier(w) : x \in Held(u) \/ (x = Stream(w) /\ x = Stream(u))
    BY <1>10 DEF Behind
  <2>2. u \in Earlier(w)' /\ u \in Request
    BY <1>8, <2>1
  <2>3. CASE x = Stream(w) /\ x = Stream(u)
    BY <2>2, <2>3 DEF Behind
  <2>4. CASE x \in Held(u) /\ u \notin demoted
    <3>1. u # j
      BY <1>1, <2>4
    <3> QED BY <1>9, <2>2, <2>4, <3>1 DEF Behind
  <2>5. CASE x \in Held(u) /\ u \in demoted
    <3>1. x \in waiter[u].refusal /\ j \in Earlier(u)
      BY <1>5, <2>2, <2>5 DEF Held, Indexed
    <3>2. CASE x = DemotedTo(u, refusal)
      <4>1. x \in refusal /\ j \in Earlier(w)
        BY <1>5, <2>1, <2>5, <3>1, <3>2, EarlierOf
      <4> QED BY <1>8, <1>9, <4>1 DEF Behind
    <3>3. CASE x \in named
      BY <1>3, <3>3 DEF Waking, Scanned
    <3> QED BY <1>6, <2>5, <3>1, <3>2, <3>3
  <2> QED BY <2>1, <2>3, <2>4, <2>5
<1>11. Indexed'
  <2>1. ASSUME NEW r \in Request
        PROVE  /\ waiter'[r].refusal \in {{}, {Peer(r)}, {Lane(r), Shared}, {OpenPool}}
               /\ waiter'[r].refusal # {} =>
                     waiter'[r].parked = waiter'[r].refusal /\ waiter'[r].holds = {}
               /\ waiter'[r].holds \subseteq {Lane(r), Floor(r)}
               /\ waiter'[r].parked \subseteq {Stream(r)} \cup Drawn(r)
    <3>1. CASE r = j
      BY <1>4, <1>7, <3>1
    <3>2. CASE r \in demoted
      <4>1. DemotedTo(r, refusal) \in waiter[r].parked
        BY <1>5, <3>2 DEF Indexed
      <4>2. DemotedTo(r, refusal) \in {Stream(r)} \cup Drawn(r)
        BY <4>1 DEF Indexed
      <4> QED BY <1>7, <3>2, <4>2
    <3>3. CASE r # j /\ r \notin demoted
      BY <1>7, <3>3 DEF Indexed
    <3> QED BY <3>1, <3>2, <3>3
  <2> QED BY <2>1 DEF Indexed
<1>12. JudgedFirst'
  BY <1>3 DEF JudgedFirst
<1>13. Anchored'
  <2>1. SUFFICES ASSUME NEW v \in Ungranted PROVE \E x \in waiter'[v].parked : Anchor(v, x)'
    BY <1>8 DEF Anchored
  <2>2. CASE v = j
    <3>1. PICK x \in refusal : x[1] # 3 /\ Refuses(x, j)
      BY <1>4
    <3>2. Refuses(x, j)'
      BY <1>2, <3>1 DEF Refuses
    <3> QED BY <1>7, <2>2, <3>1, <3>2 DEF Anchor
  <2>3. CASE v \in demoted
    <3>1. PICK d \in refusal : d = DemotedTo(v, refusal)
      BY <1>5, <2>3
    <3>2. Behind(v, d)'
      BY <1>5, <1>8, <1>9, <2>3 DEF Behind
    <3> QED BY <1>7, <2>3, <3>1, <3>2 DEF Anchor
  <2>4. CASE v # j /\ v \notin demoted
    <3>1. v \in Request /\ waiter'[v] = waiter[v]
      BY <1>7, <1>8, <2>4
    <3>2. PICK x \in waiter[v].parked : Anchor(v, x)
      BY <2>4 DEF Anchored
    <3>3. CASE Behind(v, x)
      BY <1>10, <3>1, <3>2, <3>3 DEF Anchor
    <3>4. CASE x \in waiter[v].refusal /\ Refuses(x, v)
      <4>1. Refuses(x, v)'
        BY <1>2, <3>4 DEF Refuses
      <4> QED BY <3>1, <3>2, <3>4, <4>1 DEF Anchor
    <3>5. CASE Waking(v, x)
      <4>1. \/ Waking(v, x)'
            \/ j \in Earlier(v) /\ (x \in refusal \/ (x \in lock.held /\ x \notin named))
        BY <1>2, <2>4, <3>2, <3>5, SettleWakes
      <4>2. x \in lock.held /\ x \notin named => x \in refusal
        BY DEF named
      <4>3. j \in Earlier(v) /\ x \in refusal => Behind(v, x)'
        BY <1>8, <1>9 DEF Behind
      <4> QED BY <3>1, <3>2, <4>1, <4>2, <4>3 DEF Anchor
    <3> QED BY <3>2, <3>3, <3>4, <3>5 DEF Anchor
  <2> QED BY <2>2, <2>3, <2>4
<1> QED BY <1>11, <1>12, <1>13

LEMMA DeliverAnchor ==
    ASSUME AdmissionInv, AnchorInv, Deliver
    PROVE  AnchorInv'
<1> USE DEF AdmissionInv, AnchorInv
<1>1. /\ ahead' = Numbers(Ungranted) /\ lock' = Free /\ lock.judged = Nobody /\ NextAt = Nothing
      /\ UNCHANGED <<phase, waiter, charged, opened>>
  BY DEF Deliver, ScanOver
<1>2. lock'.judged = Nobody
  BY <1>1 DEF Free
<1>3. Ungranted' = Ungranted /\ Ungranted \subseteq Request
  BY <1>1 DEF Ungranted
<1>4. \A w \in Ungranted : Earlier(w)' = Earlier(w)
  BY <1>1, <1>3 DEF Earlier, Numbers
<1>5. \A v : Held(v)' = Held(v)
  BY <1>1 DEF Held
<1>6. Indexed' /\ JudgedFirst'
  BY <1>1, <1>2 DEF Indexed, JudgedFirst
<1>7. Anchored'
  <2>1. SUFFICES ASSUME NEW v \in Ungranted PROVE \E x \in waiter[v].parked : Anchor(v, x)'
    BY <1>1, <1>3 DEF Anchored
  <2>2. v # Nobody /\ v \in Request
    BY <1>3, NobodyAssumption
  <2>3. PICK x \in waiter[v].parked : Anchor(v, x)
    BY <1>1, <2>2 DEF Anchored
  <2>4. x # Nothing
    BY <2>2, ParkedReal
  <2>5. ~Scanned(v, x)
    <3>1. SUFFICES ASSUME Scanned(v, x) PROVE FALSE
      OBVIOUS
    <3>2. ~(x = lock.at /\ (lock.after = Nobody \/ lock.after \in ahead[v]))
      <4>1. SUFFICES ASSUME x = lock.at, lock.after = Nobody \/ lock.after \in ahead[v] PROVE FALSE
        OBVIOUS
      <4>2. v \in Parked(lock.at, lock.after)
        BY <4>1 DEF Parked
      <4>3. NextAt = lock.at
        BY <2>4, <4>1, <4>2 DEF NextAt
      <4> QED BY <1>1, <2>4, <4>1, <4>3
    <3> DEFINE live == {y \in lock.scans : Parked(y, Nobody) # {}}
    <3>3. x \in live
      <4>1. x \in lock.scans /\ v \in Parked(x, Nobody)
        BY <3>1, <3>2 DEF Scanned, Parked
      <4> QED BY <4>1
    <3>4. NextAt = lock.at \/ NextAt = Least(live)
      BY <3>3 DEF NextAt
    <3>5. Least(live) # Nothing
      <4>1. live \in SUBSET Resource
        BY DEF Types, Lock
      <4>2. Least(live) \in live
        <5> HIDE DEF live
        <5> QED BY <3>3, <4>1, LeastIn
      <4>3. PICK u \in Ungranted : Least(live) \in waiter[u].parked
        BY <4>2 DEF Parked
      <4> QED BY <1>3, <4>3, ParkedReal
    <3>6. NextAt = Least(live)
      BY <1>1, <3>3, <3>4 DEF NextAt
    <3> QED BY <1>1, <3>5, <3>6
  <2>6. CASE Behind(v, x)
    <3>1. Behind(v, x)'
      BY <1>4, <1>5, <2>6 DEF Behind
    <3> QED BY <1>1, <2>3, <3>1 DEF Anchor
  <2>7. CASE x \in waiter[v].refusal /\ Refuses(x, v)
    <3>1. Refuses(x, v)'
      BY <1>1, <2>7 DEF Refuses
    <3> QED BY <1>1, <2>3, <2>7, <3>1 DEF Anchor
  <2>8. CASE Waking(v, x)
    <3>1. PICK r \in Request : Owed(r) /\ x \in freed(r)
      BY <1>1, <2>5, <2>8 DEF Waking
    <3>2. Owed(r)' /\ x \in freed(r)'
      BY <1>1, <3>1 DEF Owed, freed
    <3>3. Waking(v, x)'
      BY <3>2 DEF Waking
    <3> QED BY <1>1, <2>3, <3>3 DEF Anchor
  <2> QED BY <2>3, <2>6, <2>7, <2>8 DEF Anchor
<1> QED BY <1>6, <1>7

LEMMA ArriveAnchor ==
    ASSUME AdmissionInv, AnchorInv, NEW r \in Request, Arrive(r)
    PROVE  AnchorInv'
<1> USE DEF AdmissionInv, AnchorInv
<1>1. /\ ~lock.busy /\ phase[r] = "idle"
      /\ phase' = [phase EXCEPT ![r] = "waiting"]
      /\ ahead' = [ahead EXCEPT ![r] = Ungranted]
      /\ lock' = [Scan({}) EXCEPT !.judged = r, !.blockers = blockers(r, Ungranted)]
      /\ UNCHANGED <<waiter, charged, opened>>
  BY DEF Arrive
<1>2. phase'[r] = "waiting" /\ \A v \in Request \ {r} : phase'[v] = phase[v]
  BY <1>1 DEF Types
<1>3. /\ Ungranted' = Ungranted \cup {r} /\ r \notin Ungranted /\ Ungranted \subseteq Request
  BY <1>1, <1>2 DEF Ungranted
<1>4. /\ lock'.judged = r /\ lock'.blockers = blockers(r, Ungranted) /\ lock'.at = Nothing
  BY <1>1 DEF Scan, Free
<1>5. ahead'[r] = Ungranted /\ \A v \in Request \ {r} : ahead'[v] = ahead[v]
  BY <1>1 DEF Types
<1>6. Earlier(r)' = Ungranted /\ \A v \in Ungranted : Earlier(v) \subseteq Earlier(v)'
  BY <1>3, <1>5 DEF Earlier
<1>7. \A v : Held(v)' = Held(v)
  BY <1>1 DEF Held
<1>8. Indexed'
  BY <1>1 DEF Indexed
<1>9. JudgedFirst'
  <2>1. blockers(r, Ungranted) \subseteq {Stream(r)} \cup Drawn(r)
    BY BlockersShape
  <2>2. ASSUME NEW x \in blockers(r, Ungranted) PROVE Behind(r, x)'
    <3>1. PICK u \in Ungranted : x \in Held(u) \/ (x = Stream(r) /\ x = Stream(u))
      BY BlockersShape
    <3> QED BY <1>6, <1>7, <3>1 DEF Behind
  <2>3. \A v \in Request : Nothing \notin waiter[v].parked
    BY ParkedReal
  <2> QED BY <1>1, <1>3, <1>4, <2>1, <2>2, <2>3 DEF JudgedFirst
<1>10. Anchored'
  <2>1. SUFFICES ASSUME NEW v \in Ungranted PROVE \E x \in waiter[v].parked : Anchor(v, x)'
    BY <1>1, <1>3, <1>4 DEF Anchored
  <2>2. PICK x \in waiter[v].parked :
             /\ waiter[v].refusal # {} => x[1] # 3
             /\ \/ Behind(v, x)
                \/ x \in waiter[v].refusal /\ Refuses(x, v)
                \/ \E q \in Request : Owed(q) /\ x \in freed(q)
    BY <1>1, FreeAnchor
  <2>3. Behind(v, x) => Behind(v, x)'
    BY <1>6, <1>7 DEF Behind
  <2>4. Refuses(x, v) => Refuses(x, v)'
    BY <1>1 DEF Refuses
  <2>5. ASSUME NEW q \in Request, Owed(q), x \in freed(q) PROVE Waking(v, x)'
    <3>1. phase'[q] = phase[q]
      BY <1>1, <1>2, <2>5 DEF Owed
    <3>2. Owed(q)' /\ x \in freed(q)'
      BY <2>5, <3>1 DEF Owed, freed
    <3> QED BY <3>2 DEF Waking
  <2> QED BY <1>1, <2>2, <2>3, <2>4, <2>5 DEF Anchor
<1> QED BY <1>8, <1>9, <1>10

LEMMA WithdrawAnchor ==
    ASSUME AdmissionInv, AnchorInv, NEW r \in Request, Withdraw(r)
    PROVE  AnchorInv'
<1> USE DEF AdmissionInv, AnchorInv
<1>1. /\ ~lock.busy /\ phase[r] = "waiting"
      /\ phase' = [phase EXCEPT ![r] = "idle"]
      /\ ahead' = Numbers(Ungranted \ {r})
      /\ waiter' = [waiter EXCEPT ![r] = NoIndex]
      /\ lock' = Scan(Held(r) \cup {Stream(r)})
      /\ UNCHANGED <<charged, opened>>
  BY DEF Withdraw
<1>2. phase'[r] = "idle" /\ \A v \in Request \ {r} : phase'[v] = phase[v]
  BY <1>1 DEF Types
<1>3. Ungranted' = Ungranted \ {r} /\ Ungranted \subseteq Request
  BY <1>2 DEF Ungranted
<1>4. lock'.judged = Nobody /\ lock'.scans = Held(r) \cup {Stream(r)}
  BY <1>1 DEF Scan, Free
<1>5. \A v \in Ungranted \ {r} : Earlier(v)' = Earlier(v) \ {r}
  BY <1>1, <1>3 DEF Earlier, Numbers
<1>6. /\ waiter'[r] = NoIndex /\ \A v \in Request \ {r} : waiter'[v] = waiter[v]
      /\ \A v \in Request \ {r} : Held(v)' = Held(v)
  BY <1>1 DEF Types, Held
<1>7. Indexed'
  BY <1>6 DEF Indexed, NoIndex
<1>8. JudgedFirst'
  BY <1>4 DEF JudgedFirst
<1>9. Anchored'
  <2>1. SUFFICES ASSUME NEW v \in Ungranted \ {r} PROVE \E x \in waiter'[v].parked : Anchor(v, x)'
    BY <1>3 DEF Anchored
  <2>2. PICK x \in waiter[v].parked :
             /\ waiter[v].refusal # {} => x[1] # 3
             /\ \/ Behind(v, x)
                \/ x \in waiter[v].refusal /\ Refuses(x, v)
                \/ \E q \in Request : Owed(q) /\ x \in freed(q)
    BY <1>1, FreeAnchor
  <2>3. waiter'[v] = waiter[v]
    BY <1>3, <1>6
  <2>4. ASSUME Behind(v, x) PROVE Behind(v, x)' \/ Waking(v, x)'
    <3>1. PICK u \in Earlier(v) : x \in Held(u) \/ (x = Stream(v) /\ x = Stream(u))
      BY <2>4 DEF Behind
    <3>2. CASE u = r
      <4>1. x \in lock'.scans
        BY <1>4, <3>1, <3>2
      <4> QED BY <4>1 DEF Waking, Scanned
    <3>3. CASE u # r
      <4>1. u \in Earlier(v)' /\ Held(u)' = Held(u)
        BY <1>3, <1>5, <1>6, <3>1, <3>3 DEF Earlier
      <4> QED BY <3>1, <4>1 DEF Behind
    <3> QED BY <3>2, <3>3
  <2>5. Refuses(x, v) => Refuses(x, v)'
    BY <1>1 DEF Refuses
  <2>6. ASSUME NEW q \in Request, Owed(q), x \in freed(q) PROVE Waking(v, x)'
    <3>1. phase'[q] = phase[q]
      BY <1>1, <1>2, <2>6 DEF Owed
    <3>2. Owed(q)' /\ x \in freed(q)'
      BY <2>6, <3>1 DEF Owed, freed
    <3> QED BY <3>2 DEF Waking
  <2> QED BY <2>2, <2>3, <2>4, <2>5, <2>6 DEF Anchor
<1> QED BY <1>7, <1>8, <1>9

LEMMA ReleaseAnchor ==
    ASSUME AdmissionInv, AnchorInv, NEW r \in Request, Release(r)
    PROVE  AnchorInv'
<1> USE DEF AdmissionInv, AnchorInv
<1>1. /\ ~lock.busy /\ phase[r] \in {"closing", "freed", "expired"}
      /\ phase' = [phase EXCEPT ![r] = IF @ = "closing" THEN "dispatch" ELSE "idle"]
      /\ lock' = Scan(freed(r)) /\ UNCHANGED <<ahead, waiter, charged, opened>>
  BY DEF Release, Owed
<1>2. phase'[r] \in {"dispatch", "idle"} /\ \A v \in Request \ {r} : phase'[v] = phase[v]
  BY <1>1 DEF Types
<1>3. Ungranted' = Ungranted /\ \A v : Earlier(v)' = Earlier(v)
  BY <1>1, <1>2 DEF Ungranted, Earlier
<1>4. lock'.judged = Nobody /\ lock'.scans = freed(r)
  BY <1>1 DEF Scan, Free
<1>5. \A v : Held(v)' = Held(v)
  BY <1>1 DEF Held
<1>6. Indexed' /\ JudgedFirst'
  BY <1>1, <1>4 DEF Indexed, JudgedFirst
<1>7. Anchored'
  <2>1. SUFFICES ASSUME NEW v \in Ungranted PROVE \E x \in waiter[v].parked : Anchor(v, x)'
    BY <1>1, <1>3 DEF Anchored
  <2>2. PICK x \in waiter[v].parked :
             /\ waiter[v].refusal # {} => x[1] # 3
             /\ \/ Behind(v, x)
                \/ x \in waiter[v].refusal /\ Refuses(x, v)
                \/ \E q \in Request : Owed(q) /\ x \in freed(q)
    BY <1>1, FreeAnchor
  <2>3. Behind(v, x) => Behind(v, x)'
    BY <1>3, <1>5 DEF Behind
  <2>4. Refuses(x, v) => Refuses(x, v)'
    BY <1>1 DEF Refuses
  <2>5. ASSUME NEW q \in Request, Owed(q), x \in freed(q) PROVE Waking(v, x)'
    <3>1. CASE q = r
      BY <1>4, <2>5, <3>1 DEF Waking, Scanned
    <3>2. CASE q # r
      <4>1. Owed(q)' /\ x \in freed(q)'
        BY <1>2, <2>5, <3>2 DEF Owed, freed
      <4> QED BY <4>1 DEF Waking
    <3> QED BY <3>1, <3>2
  <2> QED BY <1>1, <2>2, <2>3, <2>4, <2>5 DEF Anchor
<1> QED BY <1>6, <1>7

\* Steps of threads that do not take the lock: a budget they give room to is
\* one they owe a scan of.
LEMMA OutsideAnchor ==
    ASSUME AdmissionInv, AnchorInv, NEW r \in Request, phase[r] # "waiting", ~Owed(r),
           phase'[r] # "waiting", \A v \in Request \ {r} : phase'[v] = phase[v],
           UNCHANGED <<ahead, waiter, lock>>,
           \A v \in Ungranted : \A x : Refuses(x, v) => Refuses(x, v)' \/ (Owed(r)' /\ x \in freed(r)')
    PROVE  AnchorInv'
<1> USE DEF AdmissionInv, AnchorInv
<1>1. Ungranted' = Ungranted /\ \A v : Earlier(v)' = Earlier(v)
  BY DEF Ungranted, Earlier
<1>2. \A v : Held(v)' = Held(v)
  BY DEF Held
<1>3. \A v, x : Behind(v, x) => Behind(v, x)'
  BY <1>1, <1>2 DEF Behind
<1>4. Indexed'
  BY DEF Indexed
<1>5. JudgedFirst'
  BY <1>1, <1>3 DEF JudgedFirst
<1>6. Anchored'
  <2>1. SUFFICES ASSUME NEW v \in Ungranted \ {lock.judged}
                 PROVE  \E x \in waiter[v].parked : Anchor(v, x)'
    BY <1>1 DEF Anchored
  <2>2. PICK x \in waiter[v].parked : Anchor(v, x)
    BY DEF Anchored
  <2>3. Refuses(x, v) => Refuses(x, v)' \/ Waking(v, x)'
    BY DEF Waking
  <2>4. ASSUME Waking(v, x) PROVE Waking(v, x)'
    <3>1. Scanned(v, x) => Scanned(v, x)'
      BY DEF Scanned
    <3>2. \A q \in Request : Owed(q) /\ x \in freed(q) => Owed(q)' /\ x \in freed(q)'
      <4>1. ASSUME NEW q \in Request, Owed(q), x \in freed(q) PROVE Owed(q)' /\ x \in freed(q)'
        <5>1. phase'[q] = phase[q]
          BY <4>1
        <5> QED BY <4>1, <5>1 DEF Owed, freed
      <4> QED BY <4>1
    <3> QED BY <1>1, <2>4, <3>1, <3>2 DEF Waking
  <2> QED BY <1>3, <2>2, <2>3, <2>4 DEF Anchor
<1> QED BY <1>4, <1>5, <1>6

LEMMA ReturnAnchor ==
    ASSUME AdmissionInv, AnchorInv, NEW r \in Request, phase[r] \in {"granted", "open", "dispatch"},
           ReturnCharge(r), UNCHANGED <<ahead, waiter, lock>>
    PROVE  AnchorInv'
<1> USE DEF AdmissionInv
<1>1. /\ charged' = charged \ {r} /\ opened' = opened \ {r}
      /\ phase' = [phase EXCEPT ![r] = IF ~Charges(r) THEN "idle"
                                       ELSE IF r \in opened THEN "expired" ELSE "freed"]
  BY DEF ReturnCharge
<1>2. /\ \A v \in Request \ {r} : phase'[v] = phase[v]
      /\ phase'[r] = IF ~Charges(r) THEN "idle" ELSE IF r \in opened THEN "expired" ELSE "freed"
  BY <1>1 DEF Types
<1>3. ASSUME NEW v \in Ungranted, NEW x, Refuses(x, v)
      PROVE  Refuses(x, v)' \/ (Owed(r)' /\ x \in freed(r)')
  <2>1. CASE r \notin charged
    <3>1. charged' = charged /\ opened' = opened
      BY <1>1, <2>1 DEF Types
    <3> QED BY <1>3, <3>1 DEF Refuses
  <2>2. CASE r \in charged
    <3>1. Charges(r)
      BY <2>2 DEF Charged
    <3>2. Owed(r)' /\ {Peer(r), Shared} \subseteq freed(r)' /\ (r \in opened => OpenPool \in freed(r)')
      BY <1>2, <3>1 DEF Owed, freed
    <3>3. CASE x = Shared
      BY <3>2, <3>3
    <3>4. CASE x = OpenPool /\ ~FitsOpen(opened, v)
      <4>1. r \notin opened => opened' = opened
        BY <1>1
      <4> QED BY <3>2, <3>4, <4>1 DEF Refuses
    <3>5. CASE x = Peer(v) /\ ~FitsPeer(charged, v)
      <4>1. CASE Requests[r].peer = Requests[v].peer
        BY <3>2, <3>5, <4>1 DEF Peer
      <4>2. CASE Requests[r].peer # Requests[v].peer
        <5>1. {c \in charged' : Requests[c].peer = Requests[v].peer}
              = {c \in charged : Requests[c].peer = Requests[v].peer}
          BY <1>1, <4>2
        <5>2. ~FitsPeer(charged', v)
          BY <3>5, <5>1 DEF FitsPeer
        <5> QED BY <3>5, <5>2 DEF Refuses
      <4> QED BY <4>1, <4>2
    <3> QED BY <1>3, <3>3, <3>4, <3>5 DEF Refuses
  <2> QED BY <2>1, <2>2
<1>4. phase[r] # "waiting" /\ ~Owed(r) /\ phase'[r] # "waiting"
  BY <1>2 DEF Owed
<1> QED BY <1>2, <1>3, <1>4, OutsideAnchor

LEMMA CloseAnchor ==
    ASSUME AdmissionInv, AnchorInv, NEW r \in Request, Close(r)
    PROVE  AnchorInv'
<1>1. /\ phase[r] = "open" /\ phase' = [phase EXCEPT ![r] = "closing"]
      /\ opened' = opened \ {r} /\ UNCHANGED <<ahead, waiter, charged, lock>>
  BY DEF Close
<1>2. phase'[r] = "closing" /\ \A v \in Request \ {r} : phase'[v] = phase[v]
  BY <1>1 DEF AdmissionInv, Types
<1>3. Owed(r)' /\ OpenPool \in freed(r)'
  BY <1>2 DEF Owed, freed
<1>4. \A v \in Ungranted : \A x : Refuses(x, v) => Refuses(x, v)' \/ (Owed(r)' /\ x \in freed(r)')
  BY <1>1, <1>3 DEF Refuses
<1>5. phase[r] # "waiting" /\ ~Owed(r) /\ phase'[r] # "waiting"
  BY <1>1, <1>2 DEF Owed
<1> QED BY <1>1, <1>2, <1>4, <1>5, OutsideAnchor

LEMMA ClaimAnchor ==
    ASSUME AdmissionInv, AnchorInv, NEW r \in Request, Claim(r)
    PROVE  AnchorInv'
<1>1. /\ phase[r] = "granted"
      /\ phase' = [phase EXCEPT ![r] = IF ~Charges(r) THEN "idle"
                                       ELSE IF Opening(r) THEN "open" ELSE "dispatch"]
      /\ UNCHANGED <<ahead, waiter, charged, opened, lock>>
  BY DEF Claim
<1>2. phase'[r] \in {"idle", "open", "dispatch"} /\ \A v \in Request \ {r} : phase'[v] = phase[v]
  BY <1>1 DEF AdmissionInv, Types
<1>3. \A v \in Ungranted : \A x : Refuses(x, v) => Refuses(x, v)'
  BY <1>1 DEF Refuses
<1>4. phase[r] # "waiting" /\ ~Owed(r) /\ phase'[r] # "waiting"
  BY <1>1, <1>2 DEF Owed
<1> QED BY <1>1, <1>2, <1>3, <1>4, OutsideAnchor

LEMMA InitAnchor == Init => AnchorInv
<1> SUFFICES ASSUME Init PROVE AnchorInv
  OBVIOUS
<1>1. Ungranted = {}
  BY DEF Init, Ungranted
<1>2. lock.judged = Nobody
  BY DEF Init, Free
<1>3. Indexed
  BY DEF Init, Indexed, NoIndex
<1> QED BY <1>1, <1>2, <1>3 DEF AnchorInv, JudgedFirst, Anchored

LEMMA NextAnchor == AdmissionInv /\ AdmissionInv' /\ AnchorInv /\ [Next]_vars => AnchorInv'
<1> SUFFICES ASSUME AdmissionInv, AdmissionInv', AnchorInv, [Next]_vars PROVE AnchorInv'
  OBVIOUS
<1>1. CASE Judge
  BY <1>1, JudgeAnchor
<1>2. CASE Settle
  <2>1. lock.judged \in Request
    BY <1>2, JudgedWaits DEF Settle
  <2> QED BY <1>2, <2>1, BlockAnchor, RefuseAnchor, GrantAnchor DEF Settle
<1>3. CASE Deliver
  BY <1>3, DeliverAnchor
<1>4. ASSUME NEW r \in Request, Arrive(r) PROVE AnchorInv'
  BY <1>4, ArriveAnchor
<1>5. ASSUME NEW r \in Request, Claim(r) PROVE AnchorInv'
  BY <1>5, ClaimAnchor
<1>6. ASSUME NEW r \in Request, Withdraw(r) PROVE AnchorInv'
  BY <1>6, WithdrawAnchor
<1>7. ASSUME NEW r \in Request, Abandon(r) PROVE AnchorInv'
  BY <1>7, ReturnAnchor DEF Abandon
<1>8. ASSUME NEW r \in Request, Close(r) PROVE AnchorInv'
  BY <1>8, CloseAnchor
<1>9. ASSUME NEW r \in Request, Drop(r) PROVE AnchorInv'
  BY <1>9, ReturnAnchor DEF Drop
<1>10. ASSUME NEW r \in Request, Release(r) PROVE AnchorInv'
  BY <1>10, ReleaseAnchor
<1>11. CASE UNCHANGED vars
  <2>1. UNCHANGED <<phase, ahead, waiter, charged, opened, lock>>
    BY <1>11 DEF vars
  <2>2. Ungranted' = Ungranted /\ (\A v : Earlier(v)' = Earlier(v)) /\ \A v : Held(v)' = Held(v)
    BY <2>1 DEF Ungranted, Earlier, Held
  <2>3. \A v, x : Behind(v, x) <=> Behind(v, x)'
    BY <2>2 DEF Behind
  <2>4. Indexed' /\ JudgedFirst'
    BY <2>1, <2>2, <2>3 DEF AnchorInv, Indexed, JudgedFirst
  <2>5. \A v, x : (Refuses(x, v) <=> Refuses(x, v)') /\ (Scanned(v, x) <=> Scanned(v, x)')
    BY <2>1 DEF Refuses, Scanned
  <2>6. \A r : (Owed(r) <=> Owed(r)') /\ freed(r)' = freed(r)
    BY <2>1 DEF Owed, freed
  <2>7. \A v, x : Waking(v, x) <=> Waking(v, x)'
    BY <2>1, <2>2, <2>5, <2>6 DEF Waking
  <2>8. Anchored'
    BY <2>1, <2>2, <2>3, <2>5, <2>7 DEF AnchorInv, Anchored, Anchor
  <2> QED BY <2>4, <2>8 DEF AnchorInv
<1> QED BY <1>1, <1>2, <1>3, <1>4, <1>5, <1>6, <1>7, <1>8, <1>9, <1>10, <1>11 DEF Next

-----------------------------------------------------------------------------
(* The theorems.                                                           *)

\* The waitlist stays one arrival order, only those that wait are indexed in
\* it, and a charge is on the ledger exactly from its grant to its return.
THEOREM TypeOKAlways == Spec => []TypeOK
<1>1. AdmissionInv => TypeOK
  <2>1. SUFFICES ASSUME AdmissionInv PROVE TypeOK
    OBVIOUS
  <2>2. phase \in [Request -> Phase] /\ charged \subseteq Request /\ opened \subseteq charged
    BY <2>1 DEF AdmissionInv, Types
  <2>3. \A r \in Request :
          /\ phase[r] \in {"open", "closing", "dispatch"} => r \in charged
          /\ r \in charged => phase[r] \in {"granted", "open", "closing", "dispatch"}
    BY <2>1 DEF AdmissionInv, Charged
  <2>4. \A r \in Request : phase[r] # "waiting" => waiter[r] = NoIndex
    BY <2>1 DEF AdmissionInv, Locked
  <2>5. /\ \A r \in Request : r \notin ahead[r] /\ \A v \in ahead[r] : ahead[v] \subseteq ahead[r]
        /\ \A v, w \in Ungranted : v \in ahead[w] \/ w \in ahead[v] \/ v = w
    BY <2>1 DEF AdmissionInv, Ordered
  <2> QED BY <2>2, <2>3, <2>4, <2>5 DEF TypeOK
<1> QED BY <1>1, AdmissionInvAlways, PTL

\* Every lane can at any moment be given the rest of its fixed reservation,
\* in arrivals and in bytes: no interleaving of admissions with the charges
\* other threads return spends what is held back.
THEOREM ReservationsKeptAlways == Spec => []ReservationsKept
<1>1. AdmissionInv => ReservationsKept
  BY DEF AdmissionInv
<1> QED BY <1>1, AdmissionInvAlways, PTL

\* One refusal per resource, the invariant the stop rule of Waitlist::scan
\* rests on: waiters refused by sets that share a resource are refused by the
\* same set, although blockers are read before other threads return charges
\* and the refusal is decided after.
THEOREM RefusalsAgreeAlways == Spec => []RefusalsAgree
<1>1. AdmissionInv => RefusalsAgree
  BY DEF AdmissionInv
<1> QED BY <1>1, AdmissionInvAlways, PTL

\* The arrivals of a stream are granted in the order they came.
THEOREM StreamOrderAlways == Spec => StreamOrder
<1> DEFINE InOrder == \A r \in Ungranted : phase'[r] = "granted" =>
                          \A v \in Earlier(r) : Stream(v) # Stream(r)
<1>1. AdmissionInv /\ [Next]_vars => [InOrder]_vars
  <2> SUFFICES ASSUME AdmissionInv, Next, NEW r \in Ungranted, phase'[r] = "granted"
               PROVE  \A v \in Earlier(r) : Stream(v) # Stream(r)
    OBVIOUS
  <2>1. r \in Request /\ phase[r] = "waiting" /\ phase \in [Request -> Phase]
    BY DEF Ungranted, AdmissionInv, Types
  <2>2. Settle
    <3>1. phase' # phase
      BY <2>1
    <3>2. \/ Settle
          \/ \E q \in Request : Arrive(q) \/ Claim(q) \/ Withdraw(q) \/ Abandon(q)
                                \/ Close(q) \/ Drop(q) \/ Release(q)
      BY <3>1 DEF Next, Judge, Deliver
    <3>3. ASSUME NEW q \in Request, NEW x, phase' = [phase EXCEPT ![q] = x], x # "granted"
          PROVE  FALSE
      BY <2>1, <3>3
    <3>4. ASSUME NEW q \in Request,
                 Arrive(q) \/ Claim(q) \/ Withdraw(q) \/ Abandon(q) \/ Close(q) \/ Drop(q)
                 \/ Release(q)
          PROVE  \E x : phase' = [phase EXCEPT ![q] = x] /\ x # "granted"
      BY <3>4 DEF Arrive, Claim, Withdraw, Abandon, Close, Drop, Release, ReturnCharge
    <3> QED BY <3>2, <3>3, <3>4
  <2>3. lock.judged # Nobody /\ Grant(lock.judged)
    BY <2>1, <2>2 DEF Settle, Block, Refuse
  <2>4. r = lock.judged
    BY <2>1, <2>3 DEF Grant
  <2> QED BY <2>3, <2>4 DEF Grant, AdmissionInv, ReadingStands
<1> QED BY <1>1, AdmissionInvAlways, PTL DEF Spec, StreamOrder

\* No wake-up is lost: once no event holds the lock and no thread owes a scan,
\* an admissible waiter is left only under a resource that refused an earlier
\* waiter and has no room for that one now.
THEOREM StrandedBehindRefusedAlways == Spec => []StrandedBehindRefused
<1>1. AdmissionInv /\ AdmissionInv' /\ AnchorInv /\ [Next]_vars => AnchorInv'
  BY NextAnchor
<1>2. AdmissionInv /\ AnchorInv => StrandedBehindRefused
  BY AnchoredStranded
<1>3. Spec => []AnchorInv
  BY <1>1, InitAnchor, AdmissionInvAlways, PTL DEF Spec
<1> QED BY <1>2, <1>3, AdmissionInvAlways, PTL
=============================================================================
