------------------------ MODULE OutboundCapacityProofs ------------------------
(***************************************************************************)
(* The rules of outbound capacity, for any classes, reservations, demands  *)
(* and peers: they are of the kind TransferCapacity and Rerouting rely on, *)
(* and under them no interleaving takes what is reserved for a class.      *)
(***************************************************************************)
EXTENDS OutboundCapacity, TransferCapacityProofs, ReservedCapacityProofs

-----------------------------------------------------------------------------
(* What the holders of a scope add up to.                                  *)

Cost == [r \in Demand |-> Demands[r].bytes]

LEMMA CostWeighs ==
    ASSUME NEW H \in SUBSET Demand
    PROVE  IsFiniteSet(H) /\ Weighs(Cost, H)
<1>1. IsFiniteSet(H)
  BY BudgetAssumption, FS_Subset
<1>2. \A r \in H : Cost[r] \in Nat
  BY BudgetAssumption DEF Cost
<1> QED BY <1>1, <1>2 DEF Weighs

LEMMA BytesIsWeight ==
    ASSUME NEW H \in SUBSET Demand
    PROVE  Bytes(H) = Weight(Cost, H) /\ Bytes(H) \in Nat
<1> DEFINE R(f) == f = [s \in SUBSET H |->
                          IF s = {} THEN 0
                          ELSE Demands[Pick(s)].bytes + f[s \ {Pick(s)}]]
<1>1. Bytes(H) = (CHOOSE f : R(f))[H]
  BY DEF Bytes, MapThenSumSet, MapThenFoldSet, Pick
<1>2. ASSUME NEW f PROVE R(f) <=> Folding(f, Cost, H)
  <2>1. ASSUME NEW s \in SUBSET H, s # {} PROVE Cost[Pick(s)] = Demands[Pick(s)].bytes
    BY <2>1, PickIn DEF Cost
  <2>2. ASSUME NEW s \in SUBSET H
        PROVE  (IF s = {} THEN 0 ELSE Demands[Pick(s)].bytes + f[s \ {Pick(s)}])
               = (IF s = {} THEN 0 ELSE Cost[Pick(s)] + f[s \ {Pick(s)}])
    BY <2>1
  <2> QED BY <2>2 DEF Folding
<1>3. (CHOOSE f : R(f)) = (CHOOSE f : Folding(f, Cost, H))
  <2> HIDE DEF R
  <2> QED BY <1>2
<1> QED BY <1>1, <1>3, CostWeighs, ChosenFolding, WeightNat

Class == DOMAIN NodeReservations

LEMMA Budgets ==
    /\ IsFiniteSet(Class)
    /\ TransferReservations \in [Class -> Nat]
    /\ \A s : Reservations(s) \in [Class -> Nat] /\ Capacity(s) \in Nat
    /\ Transfers \in Nat
    /\ \A r \in Demand : Demands[r].class \in Class /\ Demands[r].bytes \in Nat \ {0}
BY BudgetAssumption DEF Class, Reservations, Capacity

\* The counters of a scope are numbers, one for every class.
LEMMA ScopeHolds ==
    ASSUME NEW H \in SUBSET Demand, NEW s
    PROVE  /\ Classes(Counts(H), TransferReservations)
           /\ Classes(Sizes(H, s), Reservations(s))
<1>1. ASSUME NEW c \in Class PROVE CountOf(H, c) \in Nat /\ BytesOf(H, c) \in Nat
  <2>1. OfClass(H, c) \in SUBSET Demand
    BY DEF OfClass
  <2>2. IsFiniteSet(OfClass(H, c))
    BY <2>1, CostWeighs
  <2> QED BY <2>1, <2>2, BytesIsWeight, FS_CardinalityType DEF CountOf, BytesOf
<1> QED BY <1>1, Budgets DEF Classes, Counts, Sizes

\* Fewer holders hold less.
LEMMA ScopeHoldsLess ==
    ASSUME NEW H \in SUBSET Demand, NEW G \in SUBSET H, NEW s, NEW c \in Class
    PROVE  Counts(G)[c] <= Counts(H)[c] /\ Sizes(G, s)[c] <= Sizes(H, s)[c]
<1>1. /\ OfClass(G, c) \subseteq OfClass(H, c)
      /\ OfClass(G, c) \in SUBSET Demand /\ OfClass(H, c) \in SUBSET Demand
  BY DEF OfClass
<1>2. CountOf(G, c) <= CountOf(H, c)
  BY <1>1, CostWeighs, FS_Subset DEF CountOf
<1>3. \A r \in OfClass(G, c) : Cost[r] <= Cost[r]
  BY <1>1, Budgets DEF Cost
<1>4. BytesOf(G, c) <= BytesOf(H, c)
  BY <1>1, <1>3, CostWeighs, BytesIsWeight, WeightMonotone DEF BytesOf
<1> QED BY <1>2, <1>4, Budgets DEF Counts, Sizes

Plus(used, c, amount) == [used EXCEPT ![c] = @ + amount]

\* One more holder adds its transfer and its bytes.
LEMMA ScopeHoldsMore ==
    ASSUME NEW H \in SUBSET Demand, NEW s, NEW r \in Demand, r \notin H
    PROVE  /\ Counts(H \cup {r}) = Plus(Counts(H), Demands[r].class, 1)
           /\ Sizes(H \cup {r}, s) = Plus(Sizes(H, s), Demands[r].class, Demands[r].bytes)
<1> DEFINE k == Demands[r].class
           T == H \cup {r}
<1>1. OfClass(T, k) = OfClass(H, k) \cup {r} /\ r \notin OfClass(H, k)
  BY DEF OfClass
<1>2. \A c \in Class \ {k} : OfClass(T, c) = OfClass(H, c)
  BY DEF OfClass
<1>3. OfClass(H, k) \in SUBSET Demand /\ OfClass(T, k) \in SUBSET Demand
  BY DEF OfClass
<1>4. CountOf(T, k) = CountOf(H, k) + 1
  BY <1>1, <1>3, CostWeighs, FS_AddElement DEF CountOf
<1>5. BytesOf(T, k) = BytesOf(H, k) + Demands[r].bytes
  <2>1. Cost[r] = Demands[r].bytes /\ Cost[r] \in Nat
    BY Budgets DEF Cost
  <2> QED BY <1>1, <1>3, <2>1, CostWeighs, BytesIsWeight, WeightAdd DEF BytesOf
<1>6. k \in Class
  BY Budgets
<1>7. \A c \in Class \ {k} : CountOf(T, c) = CountOf(H, c) /\ BytesOf(T, c) = BytesOf(H, c)
  BY <1>2 DEF CountOf, BytesOf
<1>8. DOMAIN TransferReservations = Class /\ DOMAIN Reservations(s) = Class
  BY Budgets
<1> HIDE DEF k, T
<1>9. Counts(T) = [Counts(H) EXCEPT ![k] = @ + 1]
  BY <1>4, <1>6, <1>7, <1>8 DEF Counts
<1>10. Sizes(T, s) = [Sizes(H, s) EXCEPT ![k] = @ + Demands[r].bytes]
  BY <1>5, <1>6, <1>7, <1>8 DEF Sizes
<1> QED BY <1>9, <1>10 DEF k, T, Plus

-----------------------------------------------------------------------------
(* The rules.                                                              *)

\* A demand that a scope admits it also admits once others gave shares back,
\* and a reservation that covers it goes on covering it: what TransferCapacity
\* (ReservationAssumption) and Rerouting (CoverAssumption) ask of their rules
\* holds of try_reserve and reservation_covers of both scopes, for any
\* capacities.
THEOREM RulesAreMonotone ==
    ASSUME NEW s \in Scope, NEW r \in Demand, NEW H \in SUBSET Demand, NEW G \in SUBSET H
    PROVE  /\ StateFits(s, H, r) => StateFits(s, G, r)
           /\ StateCovers(s, H, r) => StateCovers(s, G, r)
<1> DEFINE c == Demands[r].class
           b == Demands[r].bytes
<1>1. /\ c \in Class /\ b \in Nat \ {0} /\ Transfers \in Nat /\ Capacity(s) \in Nat
      /\ DOMAIN TransferReservations = Class /\ DOMAIN Reservations(s) = Class
  BY Budgets
<1>2. /\ Classes(Counts(H), TransferReservations) /\ Classes(Sizes(H, s), Reservations(s))
      /\ Classes(Counts(G), TransferReservations) /\ Classes(Sizes(G, s), Reservations(s))
  BY ScopeHolds
<1>3. \A k \in Class : Counts(G)[k] <= Counts(H)[k] /\ Sizes(G, s)[k] <= Sizes(H, s)[k]
  BY ScopeHoldsLess
<1>4. fair_reservation_fits(c, Counts(H), 1, Transfers, TransferReservations)
      => fair_reservation_fits(c, Counts(G), 1, Transfers, TransferReservations)
  BY <1>1, <1>2, <1>3, FittingSurvivesRelease
<1>5. fair_reservation_fits(c, Sizes(H, s), b, Capacity(s), Reservations(s))
      => fair_reservation_fits(c, Sizes(G, s), b, Capacity(s), Reservations(s))
  BY <1>1, <1>2, <1>3, FittingSurvivesRelease
<1>6. fixed_reservation_covers(c, Counts(H), 1, TransferReservations)
      => fixed_reservation_covers(c, Counts(G), 1, TransferReservations)
  BY <1>1, <1>2, <1>3 DEF fixed_reservation_covers, Classes
<1>7. fixed_reservation_covers(c, Sizes(H, s), b, Reservations(s))
      => fixed_reservation_covers(c, Sizes(G, s), b, Reservations(s))
  BY <1>1, <1>2, <1>3 DEF fixed_reservation_covers, Classes
<1> QED BY <1>4, <1>5, <1>6, <1>7 DEF StateFits, StateCovers

-----------------------------------------------------------------------------
(* The reservations of the classes.                                        *)

\* ReservationsKept at one scope.
Kept(s, H) ==
    /\ s # Node => ReservationsFree(Counts(H), Transfers, TransferReservations)
    /\ ReservationsFree(Sizes(H, s), Capacity(s), Reservations(s))

LEMMA KeptEverywhere == ReservationsKept <=> \A s \in Scope : Kept(s, held[s])
BY DemandAssumption DEF ReservationsKept, Kept, Scope

LEMMA EmptyScope == ASSUME NEW s \in Scope PROVE Kept(s, {})
<1>1. Classes(Counts({}), TransferReservations) /\ Classes(Sizes({}, s), Reservations(s))
  BY ScopeHolds
<1>2. \A c \in Class : OfClass({}, c) = {}
  BY DEF OfClass
<1>3. Bytes({}) = 0 /\ Cardinality({}) = 0
  BY BytesIsWeight, UnitsEmpty, FS_EmptySet
<1>4. \A c \in Class : Counts({})[c] = 0 /\ Sizes({}, s)[c] = 0
  BY <1>2, <1>3, Budgets DEF Counts, Sizes, CountOf, BytesOf
<1>5. /\ Total(TransferReservations) <= Transfers /\ Total(Reservations(s)) <= Capacity(s)
      /\ DOMAIN TransferReservations = Class /\ DOMAIN Reservations(s) = Class
      /\ Transfers \in Nat /\ Capacity(s) \in Nat
  BY Budgets, BudgetAssumption DEF Reservations, Capacity
<1> QED BY <1>1, <1>4, <1>5, EmptyIsFree DEF Kept

LEMMA FewerHolders ==
    ASSUME NEW s \in Scope, NEW H \in SUBSET Demand, NEW G \in SUBSET H, Kept(s, H)
    PROVE  Kept(s, G)
<1>1. /\ Classes(Counts(H), TransferReservations) /\ Classes(Sizes(H, s), Reservations(s))
      /\ Classes(Counts(G), TransferReservations) /\ Classes(Sizes(G, s), Reservations(s))
  BY ScopeHolds
<1>2. \A k \in Class : Counts(G)[k] <= Counts(H)[k] /\ Sizes(G, s)[k] <= Sizes(H, s)[k]
  BY ScopeHoldsLess
<1>3. /\ DOMAIN TransferReservations = Class /\ DOMAIN Reservations(s) = Class
      /\ Transfers \in Nat /\ Capacity(s) \in Nat
  BY Budgets
<1> QED BY <1>1, <1>2, <1>3, ReleaseKeepsReservations DEF Kept

LEMMA OneMoreHolder ==
    ASSUME NEW s \in Scope, NEW H \in SUBSET Demand, NEW r \in Demand, r \notin H,
           Kept(s, H), StateFits(s, H, r)
    PROVE  Kept(s, H \cup {r})
<1> DEFINE c == Demands[r].class
           b == Demands[r].bytes
<1>1. Classes(Counts(H), TransferReservations) /\ Classes(Sizes(H, s), Reservations(s))
  BY ScopeHolds
<1>2. /\ c \in Class /\ b \in Nat /\ Transfers \in Nat /\ Capacity(s) \in Nat
      /\ DOMAIN TransferReservations = Class /\ DOMAIN Reservations(s) = Class
  BY Budgets
<1>3. ASSUME s # Node
      PROVE  ReservationsFree(Counts(H \cup {r}), Transfers, TransferReservations)
  <2>1. ReservationsFree(Plus(Counts(H), c, 1), Transfers, TransferReservations)
    BY <1>1, <1>2, <1>3, FittingKeepsReservations DEF Kept, StateFits, Plus
  <2> QED BY <2>1, ScopeHoldsMore
<1>4. ReservationsFree(Sizes(H \cup {r}, s), Capacity(s), Reservations(s))
  <2>1. ReservationsFree(Plus(Sizes(H, s), c, b), Capacity(s), Reservations(s))
    BY <1>1, <1>2, FittingKeepsReservations DEF Kept, StateFits, Plus
  <2> QED BY <2>1, ScopeHoldsMore
<1> QED BY <1>3, <1>4 DEF Kept

\* Every step gives back shares, or takes one that fits.
LEMMA HoldersMove ==
    ASSUME TypeOK, [Next]_vars, NEW s \in Scope
    PROVE  \/ held'[s] \subseteq held[s]
           \/ \E r \in Demand : Fits(s, held[s], r) /\ held'[s] = held[s] \cup {r}
<1>1. held \in [Scope -> SUBSET Demand] /\ \A r \in Demand : at[r] \in Scope
  BY DEF TypeOK
<1>2. ASSUME NEW r \in Demand, Admitted(r), Fits(at[r], held[at[r]], r)
      PROVE  \/ held'[s] \subseteq held[s]
             \/ Fits(s, held[s], r) /\ held'[s] = held[s] \cup {r}
  BY <1>1, <1>2 DEF Admitted
<1>3. ASSUME NEW r \in Demand, Release(r) PROVE held'[s] \subseteq held[s]
  BY <1>1, <1>3 DEF Release
<1>4. ASSUME NEW r \in Demand, TryReserved(r) \/ try_admit_unqueued(r) \/ admit_or_wait(r)
                               \/ Poll(r)
      PROVE  held' = held \/ (Admitted(r) /\ Fits(at[r], held[at[r]], r))
  BY <1>4 DEF TryReserved, try_admit_unqueued, admit_or_wait, Poll
<1>5. ASSUME NEW r \in Demand, Acquire(r) \/ WakeFront(r) \/ Cancel(r) \/ End(r)
      PROVE  held' = held
  BY <1>5 DEF Acquire, WakeFront, Cancel, End
<1>6. CASE UNCHANGED vars
  BY <1>6 DEF vars
<1>7. CASE Next
  <2>1. PICK r \in Demand : Acquire(r) \/ Proceed(r) \/ Poll(r) \/ Cancel(r) \/ End(r)
    BY <1>7 DEF Next
  <2> QED BY <1>2, <1>3, <1>4, <1>5, <2>1 DEF Proceed
<1> QED BY <1>6, <1>7

\* Whatever transfers of both scopes are admitted, wait, give up and end, in
\* any order, every class can still be given the rest of its reservation at
\* every peer and at the node (capacity.rs: fair_reservation_fits under
\* ScopedCapacity::try_reserve).
THEOREM ReservationsKeptAlways == Spec => []ReservationsKept
<1>1. Init => ReservationsKept
  BY EmptyScope, KeptEverywhere DEF Init
<1>2. TypeOK /\ ReservationsKept /\ [Next]_vars => ReservationsKept'
  <2> SUFFICES ASSUME TypeOK, ReservationsKept, [Next]_vars PROVE ReservationsKept'
    OBVIOUS
  <2>1. ASSUME NEW s \in Scope PROVE Kept(s, held'[s])
    <3>1. Kept(s, held[s]) /\ held[s] \in SUBSET Demand
      BY KeptEverywhere DEF TypeOK
    <3>2. CASE held'[s] \subseteq held[s]
      BY <3>1, <3>2, FewerHolders
    <3>3. ASSUME NEW r \in Demand, Fits(s, held[s], r), held'[s] = held[s] \cup {r}
          PROVE  Kept(s, held'[s])
      <4>1. StateFits(s, held[s], r)
        BY <3>1, <3>3, RulesAssumption
      <4>2. CASE r \in held[s]
        BY <3>1, <3>3, <4>2, FewerHolders
      <4>3. CASE r \notin held[s]
        BY <3>1, <3>3, <4>1, <4>3, OneMoreHolder
      <4> QED BY <4>2, <4>3
    <3> QED BY <3>2, <3>3, HoldersMove
  <2> QED BY <2>1, DemandAssumption DEF ReservationsKept, Kept, Scope
<1> QED BY <1>1, <1>2, TypeInvariant, PTL DEF Spec

\* A demand that its class's reservation covers fits, at every scope and at all
\* times: the reservation is tried first and the demand is admitted at once,
\* whoever waits and whatever other classes hold (capacity.rs:
\* acquire_with_fixed_reservation).
ReservationHonoured ==
    \A s \in Scope, r \in Demand : Covers(s, held[s], r) => Fits(s, held[s], r)

THEOREM ReservationHonouredAlways == Spec => []ReservationHonoured
<1>1. TypeOK /\ ReservationsKept => ReservationHonoured
  <2> SUFFICES ASSUME TypeOK, ReservationsKept, NEW s \in Scope, NEW r \in Demand,
                      Covers(s, held[s], r)
               PROVE  Fits(s, held[s], r)
    BY DEF ReservationHonoured
  <2> DEFINE H == held[s]
  <2>1. H \in SUBSET Demand /\ Kept(s, H)
    BY KeptEverywhere DEF TypeOK
  <2>2. StateCovers(s, H, r)
    BY <2>1, RulesAssumption
  <2>3. Classes(Counts(H), TransferReservations) /\ Classes(Sizes(H, s), Reservations(s))
    BY <2>1, ScopeHolds
  <2>4. /\ Demands[r].class \in Class /\ Demands[r].bytes \in Nat
        /\ Transfers \in Nat /\ Capacity(s) \in Nat
        /\ DOMAIN TransferReservations = Class /\ DOMAIN Reservations(s) = Class
    BY Budgets
  <2> HIDE DEF H
  <2>5. StateFits(s, H, r)
    BY <2>1, <2>2, <2>3, <2>4, CoveredFits DEF StateFits, StateCovers, Kept
  <2> QED BY <2>1, <2>5, RulesAssumption DEF H
<1> QED BY <1>1, TypeInvariant, ReservationsKeptAlways, PTL
=============================================================================
