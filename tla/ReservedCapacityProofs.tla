------------------------ MODULE ReservedCapacityProofs ------------------------
(***************************************************************************)
(* What fair_reservation_fits and fixed_reservation_covers of              *)
(* crates/core/src/fair_admission/capacity.rs promise, for every number of *)
(* classes, every reservation and every amount.                            *)
(*                                                                         *)
(* The sums of ReservedCapacity fold over a set in an order of their own.  *)
(* Weight(g, S) is the same sum with nothing recursive about it: the       *)
(* number of pairs <<x, i>> with x in S and i in 1..g[x].  The lemmas      *)
(* below reason about Weight, and SumIsWeight brings them to the folds.    *)
(***************************************************************************)
EXTENDS ReservedCapacity, FiniteSetTheorems, WellFoundedInduction, TLAPS

Units(g, S) == {p \in S \X Nat : 1 <= p[2] /\ p[2] <= g[p[1]]}
Weight(g, S) == Cardinality(Units(g, S))

\* A weight of natural numbers on a finite set.
Weighs(g, S) == IsFiniteSet(S) /\ \A x \in S : g[x] \in Nat

\* A family of subsets of a finite set has a member none of the others is in.
LEMMA MinimalSubset ==
    ASSUME NEW S, IsFiniteSet(S), NEW T \in SUBSET (SUBSET S), T # {}
    PROVE  \E s \in T : \A t \in T : ~(t \subseteq s /\ t # s)
<1> DEFINE F == FiniteSubsetsOf(S)
<1>1. T \subseteq F
  BY FS_Subset DEF FiniteSubsetsOf
<1>2. PICK s \in T : \A t \in T : ~(<<t, s>> \in StrictSubsetOrdering(S))
  <2>1. IsWellFoundedOn(StrictSubsetOrdering(S), F)
    BY FS_StrictSubsetOrderingWellFounded
  <2> HIDE DEF F
  <2> QED BY <1>1, <2>1, WFMin
<1>3. \A t \in T : ~(t \subseteq s /\ t # s)
  BY <1>2 DEF StrictSubsetOrdering
<1> QED BY <1>3

\* A column of n units is n units.
LEMMA Column ==
    ASSUME NEW x, NEW n \in Nat
    PROVE  IsFiniteSet({x} \X (1..n)) /\ Cardinality({x} \X (1..n)) = n
<1> DEFINE f == [i \in 1..n |-> <<x, i>>]
<1>1. f \in Bijection(1..n, {x} \X (1..n))
  BY DEF Bijection, Injection, Surjection, IsInjective
<1>2. IsFiniteSet(1..n) /\ Cardinality(1..n) = n
  BY FS_Interval
<1> QED BY <1>1, <1>2, FS_Bijection DEF ExistsBijection

\* One more element adds its own weight.
LEMMA UnitsStep ==
    ASSUME NEW g, NEW S, NEW x, x \notin S, g[x] \in Nat, IsFiniteSet(Units(g, S))
    PROVE  /\ IsFiniteSet(Units(g, S \cup {x}))
           /\ Weight(g, S \cup {x}) = Weight(g, S) + g[x]
<1>1. Units(g, S \cup {x}) = Units(g, S) \cup ({x} \X (1..g[x]))
  <2>1. ASSUME NEW p \in Units(g, S \cup {x}) PROVE p \in Units(g, S) \cup ({x} \X (1..g[x]))
    BY DEF Units
  <2>2. ASSUME NEW p \in Units(g, S) PROVE p \in Units(g, S \cup {x})
    BY DEF Units
  <2>3. ASSUME NEW p \in {x} \X (1..g[x]) PROVE p \in Units(g, S \cup {x})
    BY DEF Units
  <2> QED BY <2>1, <2>2, <2>3
<1>2. Units(g, S) \cap ({x} \X (1..g[x])) = {}
  BY DEF Units
<1>3. IsFiniteSet({x} \X (1..g[x])) /\ Cardinality({x} \X (1..g[x])) = g[x]
  BY Column
<1>4. Cardinality(Units(g, S)) \in Nat
  BY FS_CardinalityType
<1>5. /\ IsFiniteSet(Units(g, S) \cup ({x} \X (1..g[x])))
      /\ Cardinality(Units(g, S) \cup ({x} \X (1..g[x])))
         = Cardinality(Units(g, S)) + Cardinality({x} \X (1..g[x]))
           - Cardinality(Units(g, S) \cap ({x} \X (1..g[x])))
  BY <1>3, FS_Union
<1>6. Cardinality(Units(g, S) \cap ({x} \X (1..g[x]))) = 0
  BY <1>2, FS_EmptySet
<1>7. /\ IsFiniteSet(Units(g, S \cup {x}))
      /\ Cardinality(Units(g, S \cup {x})) = Cardinality(Units(g, S)) + g[x] - 0
  BY <1>1, <1>3, <1>5, <1>6
<1> QED BY <1>4, <1>7 DEF Weight

LEMMA UnitsEmpty ==
    ASSUME NEW g
    PROVE  Units(g, {}) = {} /\ IsFiniteSet(Units(g, {})) /\ Weight(g, {}) = 0
<1>1. Units(g, {}) = {}
  BY DEF Units
<1> QED BY <1>1, FS_EmptySet DEF Weight

\* The units of a finite set are finitely many.
LEMMA UnitsFinite ==
    ASSUME NEW g, NEW S, Weighs(g, S)
    PROVE  IsFiniteSet(Units(g, S))
<1> DEFINE T == {s \in SUBSET S : ~IsFiniteSet(Units(g, s))}
<1>1. SUFFICES ASSUME T # {} PROVE FALSE
  OBVIOUS
<1>2. PICK s \in T : \A t \in T : ~(t \subseteq s /\ t # s)
  <2>1. T \in SUBSET (SUBSET S)
    OBVIOUS
  <2> HIDE DEF T
  <2> QED BY <1>1, <2>1, MinimalSubset DEF Weighs
<1>3. s # {}
  BY UnitsEmpty
<1>4. PICK x \in s : TRUE
  BY <1>3
<1>5. IsFiniteSet(Units(g, s \ {x}))
  BY <1>2
<1>6. g[x] \in Nat /\ x \notin s \ {x} /\ (s \ {x}) \cup {x} = s
  BY DEF Weighs
<1>7. IsFiniteSet(Units(g, s))
  BY <1>5, <1>6, UnitsStep
<1> QED BY <1>7

LEMMA WeightNat ==
    ASSUME NEW g, NEW S, Weighs(g, S)
    PROVE  Weight(g, S) \in Nat
BY UnitsFinite, FS_CardinalityType DEF Weight

LEMMA WeightAdd ==
    ASSUME NEW g, NEW S, Weighs(g, S), NEW x, x \notin S, g[x] \in Nat
    PROVE  Weight(g, S \cup {x}) = Weight(g, S) + g[x]
BY UnitsFinite, UnitsStep

LEMMA WeightRemove ==
    ASSUME NEW g, NEW S, Weighs(g, S), NEW x \in S
    PROVE  /\ Weighs(g, S \ {x}) /\ Weight(g, S \ {x}) \in Nat
           /\ Weight(g, S) = Weight(g, S \ {x}) + g[x]
<1>1. Weighs(g, S \ {x})
  BY FS_RemoveElement DEF Weighs
<1>2. (S \ {x}) \cup {x} = S /\ x \notin S \ {x} /\ g[x] \in Nat
  BY DEF Weighs
<1>3. Weight(g, S) = Weight(g, S \ {x}) + g[x]
  BY <1>1, <1>2, WeightAdd
<1> QED BY <1>1, <1>3, WeightNat

-----------------------------------------------------------------------------
(* The folds of the community modules compute the weight.                  *)

Pick(s) == CHOOSE x \in s : TRUE

\* What the recursive function of MapThenFoldSet is required to be.
Folding(f, g, S) ==
    f = [s \in SUBSET S |-> IF s = {} THEN 0 ELSE g[Pick(s)] + f[s \ {Pick(s)}]]

LEMMA PickIn ==
    ASSUME NEW s, s # {}
    PROVE  Pick(s) \in s
BY DEF Pick

\* The weight satisfies the recursion.
LEMMA FoldingExists ==
    ASSUME NEW g, NEW S, Weighs(g, S)
    PROVE  Folding([s \in SUBSET S |-> Weight(g, s)], g, S)
<1> DEFINE f == [s \in SUBSET S |-> Weight(g, s)]
<1>1. ASSUME NEW s \in SUBSET S
      PROVE  f[s] = IF s = {} THEN 0 ELSE g[Pick(s)] + f[s \ {Pick(s)}]
  <2>1. CASE s = {}
    BY <2>1, UnitsEmpty
  <2>2. CASE s # {}
    <3>1. Pick(s) \in s
      BY <2>2, PickIn
    <3>2. Weighs(g, s)
      BY FS_Subset DEF Weighs
    <3>3. g[Pick(s)] \in Nat
      BY <3>1, <3>2 DEF Weighs
    <3>4. Weight(g, s) = Weight(g, s \ {Pick(s)}) + g[Pick(s)]
          /\ Weight(g, s \ {Pick(s)}) \in Nat
      BY <3>1, <3>2, WeightRemove
    <3>5. f[s \ {Pick(s)}] = Weight(g, s \ {Pick(s)}) /\ f[s] = Weight(g, s)
      OBVIOUS
    <3> HIDE DEF f
    <3> QED BY <2>2, <3>3, <3>4, <3>5
  <2> QED BY <2>1, <2>2
<1>2. f = [s \in SUBSET S |-> f[s]]
  OBVIOUS
<1> HIDE DEF f
<1>3. f = [s \in SUBSET S |-> IF s = {} THEN 0 ELSE g[Pick(s)] + f[s \ {Pick(s)}]]
  BY <1>1, <1>2
<1> QED BY <1>3 DEF Folding, f

\* Nothing else does: every function the recursion allows is the weight.
LEMMA FoldingIsWeight ==
    ASSUME NEW f, NEW g, NEW S, Weighs(g, S), Folding(f, g, S)
    PROVE  f[S] = Weight(g, S)
<1> DEFINE T == {s \in SUBSET S : f[s] # Weight(g, s)}
<1>1. SUFFICES ASSUME T # {} PROVE FALSE
  OBVIOUS
<1>2. PICK s \in T : \A t \in T : ~(t \subseteq s /\ t # s)
  <2>1. T \in SUBSET (SUBSET S)
    OBVIOUS
  <2> HIDE DEF T
  <2> QED BY <1>1, <2>1, MinimalSubset DEF Weighs
<1>3. f[s] = IF s = {} THEN 0 ELSE g[Pick(s)] + f[s \ {Pick(s)}]
  BY DEF Folding
<1>4. s # {}
  BY <1>3, UnitsEmpty
<1>5. Pick(s) \in s
  BY <1>4, PickIn
<1>6. f[s \ {Pick(s)}] = Weight(g, s \ {Pick(s)})
  BY <1>2, <1>5
<1>7. Weighs(g, s)
  BY FS_Subset DEF Weighs
<1>8. /\ Weight(g, s) = Weight(g, s \ {Pick(s)}) + g[Pick(s)]
      /\ Weight(g, s \ {Pick(s)}) \in Nat
  BY <1>5, <1>7, WeightRemove
<1>9. g[Pick(s)] \in Nat
  BY <1>5, <1>7 DEF Weighs
<1> QED BY <1>3, <1>4, <1>6, <1>8, <1>9

LEMMA ChosenFolding ==
    ASSUME NEW g, NEW S, Weighs(g, S)
    PROVE  (CHOOSE f : Folding(f, g, S))[S] = Weight(g, S)
<1>1. \E f : Folding(f, g, S)
  BY FoldingExists
<1>2. Folding(CHOOSE f : Folding(f, g, S), g, S)
  BY <1>1
<1> QED BY <1>2, FoldingIsWeight

\* The sums of ReservedCapacity are weights.
LEMMA TotalIsWeight ==
    ASSUME NEW used, Weighs(used, DOMAIN used)
    PROVE  Total(used) = Weight(used, DOMAIN used)
<1>1. Total(used) = (CHOOSE f : Folding(f, used, DOMAIN used))[DOMAIN used]
  BY DEF Total, MapThenSumSet, MapThenFoldSet, Folding, Pick
<1> QED BY <1>1, ChosenFolding

\* What each class has not used of its reservation.
Unused(used, reserved) == [k \in DOMAIN reserved |-> Monus(reserved[k], used[k])]

LEMMA ReservedIsWeight ==
    ASSUME NEW c, NEW used, NEW reserved,
           Weighs(Unused(used, reserved), DOMAIN reserved \ {c})
    PROVE  ReservedForOthers(c, used, reserved)
           = Weight(Unused(used, reserved), DOMAIN reserved \ {c})
<1> DEFINE S == DOMAIN reserved \ {c}
           g == Unused(used, reserved)
           R(f) == f = [s \in SUBSET S |->
                          IF s = {} THEN 0
                          ELSE Monus(reserved[Pick(s)], used[Pick(s)]) + f[s \ {Pick(s)}]]
<1>1. ReservedForOthers(c, used, reserved) = (CHOOSE f : R(f))[S]
  BY DEF ReservedForOthers, MapThenSumSet, MapThenFoldSet, Pick
<1>2. ASSUME NEW f PROVE R(f) <=> Folding(f, g, S)
  <2>1. ASSUME NEW s \in SUBSET S, s # {}
        PROVE  g[Pick(s)] = Monus(reserved[Pick(s)], used[Pick(s)])
    BY <2>1, PickIn DEF Unused
  <2>2. ASSUME NEW s \in SUBSET S
        PROVE  (IF s = {} THEN 0
                ELSE Monus(reserved[Pick(s)], used[Pick(s)]) + f[s \ {Pick(s)}])
               = (IF s = {} THEN 0 ELSE g[Pick(s)] + f[s \ {Pick(s)}])
    BY <2>1
  <2> HIDE DEF S, g
  <2> QED BY <2>2 DEF Folding
<1>3. (CHOOSE f : R(f)) = (CHOOSE f : Folding(f, g, S))
  <2> HIDE DEF R, S, g
  <2> QED BY <1>2
<1>4. (CHOOSE f : Folding(f, g, S))[S] = Weight(g, S)
  BY ChosenFolding
<1> QED BY <1>1, <1>3, <1>4

\* What each class holds or may still claim of its reservation.
Claims(used, reserved) == [c \in DOMAIN reserved |-> used[c] + Monus(reserved[c], used[c])]

LEMMA FreeIsWeight ==
    ASSUME NEW used, NEW capacity, NEW reserved,
           Weighs(Claims(used, reserved), DOMAIN reserved)
    PROVE  ReservationsFree(used, capacity, reserved)
           <=> Weight(Claims(used, reserved), DOMAIN reserved) <= capacity
<1> DEFINE S == DOMAIN reserved
           g == Claims(used, reserved)
           R(f) == f = [s \in SUBSET S |->
                          IF s = {} THEN 0
                          ELSE (used[Pick(s)] + Monus(reserved[Pick(s)], used[Pick(s)]))
                               + f[s \ {Pick(s)}]]
<1>1. ReservationsFree(used, capacity, reserved) <=> (CHOOSE f : R(f))[S] <= capacity
  BY DEF ReservationsFree, MapThenSumSet, MapThenFoldSet, Pick
<1>2. ASSUME NEW f PROVE R(f) <=> Folding(f, g, S)
  <2>1. ASSUME NEW s \in SUBSET S, s # {}
        PROVE  g[Pick(s)] = used[Pick(s)] + Monus(reserved[Pick(s)], used[Pick(s)])
    BY <2>1, PickIn DEF Claims
  <2>2. ASSUME NEW s \in SUBSET S
        PROVE  (IF s = {} THEN 0
                ELSE (used[Pick(s)] + Monus(reserved[Pick(s)], used[Pick(s)]))
                     + f[s \ {Pick(s)}])
               = (IF s = {} THEN 0 ELSE g[Pick(s)] + f[s \ {Pick(s)}])
    BY <2>1
  <2> HIDE DEF S, g
  <2> QED BY <2>2 DEF Folding
<1>3. (CHOOSE f : R(f)) = (CHOOSE f : Folding(f, g, S))
  <2> HIDE DEF R, S, g
  <2> QED BY <1>2
<1>4. (CHOOSE f : Folding(f, g, S))[S] = Weight(g, S)
  BY ChosenFolding
<1> QED BY <1>1, <1>3, <1>4

-----------------------------------------------------------------------------
(* Arithmetic of weights.                                                  *)

\* Weights that agree on a set weigh it alike.
LEMMA WeightEqual ==
    ASSUME NEW f, NEW g, NEW S, \A x \in S : f[x] = g[x]
    PROVE  Weight(f, S) = Weight(g, S)
<1>1. Units(f, S) = Units(g, S)
  BY DEF Units
<1> QED BY <1>1 DEF Weight

\* A smaller weight of a smaller set is smaller.
LEMMA WeightMonotone ==
    ASSUME NEW f, NEW g, NEW S, NEW T, Weighs(f, S), Weighs(g, T),
           S \subseteq T, \A x \in S : f[x] <= g[x]
    PROVE  Weight(f, S) <= Weight(g, T)
<1>1. Units(f, S) \subseteq Units(g, T)
  BY DEF Units, Weighs
<1>2. IsFiniteSet(Units(g, T))
  BY UnitsFinite
<1> QED BY <1>1, <1>2, FS_Subset DEF Weight

\* The weights of a sum of weights add up.
LEMMA WeightSum ==
    ASSUME NEW f, NEW g, NEW h, NEW S, Weighs(f, S), Weighs(g, S),
           \A x \in S : h[x] = f[x] + g[x]
    PROVE  Weighs(h, S) /\ Weight(h, S) = Weight(f, S) + Weight(g, S)
<1>0. Weighs(h, S)
  BY DEF Weighs
<1> DEFINE T == {s \in SUBSET S : Weight(h, s) # Weight(f, s) + Weight(g, s)}
<1>1. SUFFICES ASSUME T # {} PROVE FALSE
  BY <1>0
<1>2. PICK s \in T : \A t \in T : ~(t \subseteq s /\ t # s)
  <2>1. T \in SUBSET (SUBSET S)
    OBVIOUS
  <2> HIDE DEF T
  <2> QED BY <1>1, <2>1, MinimalSubset DEF Weighs
<1>3. s # {}
  BY UnitsEmpty
<1>4. PICK x \in s : TRUE
  BY <1>3
<1>5. Weighs(h, s) /\ Weighs(f, s) /\ Weighs(g, s)
  BY <1>0, FS_Subset DEF Weighs
<1>6. Weight(h, s \ {x}) = Weight(f, s \ {x}) + Weight(g, s \ {x})
  BY <1>2
<1>7. Weight(h, s) = Weight(h, s \ {x}) + h[x] /\ Weight(h, s \ {x}) \in Nat
  BY <1>5, WeightRemove
<1>8. Weight(f, s) = Weight(f, s \ {x}) + f[x] /\ Weight(f, s \ {x}) \in Nat
  BY <1>5, WeightRemove
<1>9. Weight(g, s) = Weight(g, s \ {x}) + g[x] /\ Weight(g, s \ {x}) \in Nat
  BY <1>5, WeightRemove
<1>10. h[x] = f[x] + g[x] /\ f[x] \in Nat /\ g[x] \in Nat
  BY DEF Weighs
<1>11. Weight(h, s) = Weight(f, s) + Weight(g, s)
  BY <1>6, <1>7, <1>8, <1>9, <1>10
<1> QED BY <1>11

-----------------------------------------------------------------------------
(* The rules of a reservation.                                             *)

\* What a class holds and what it reserves, as natural numbers.
Classes(used, reserved) ==
    /\ IsFiniteSet(DOMAIN reserved)
    /\ used \in [DOMAIN reserved -> Nat] /\ reserved \in [DOMAIN reserved -> Nat]

LEMMA MonusNat ==
    ASSUME NEW a \in Nat, NEW b \in Nat
    PROVE  Monus(a, b) \in Nat
BY DEF Monus

\* What all classes hold or may claim, with one class set apart.
LEMMA ClaimSplit ==
    ASSUME NEW used, NEW reserved, Classes(used, reserved), NEW c \in DOMAIN reserved
    PROVE  /\ Weighs(Claims(used, reserved), DOMAIN reserved)
           /\ Total(used) \in Nat /\ ReservedForOthers(c, used, reserved) \in Nat
           /\ Weight(Claims(used, reserved), DOMAIN reserved)
              = Total(used) + ReservedForOthers(c, used, reserved)
                + Monus(reserved[c], used[c])
<1> DEFINE S == DOMAIN reserved
           u == Unused(used, reserved)
<1>1. DOMAIN used = S /\ Weighs(used, S)
  BY DEF Classes, Weighs
<1>2. Weighs(u, S) /\ u[c] = Monus(reserved[c], used[c])
  BY MonusNat DEF Classes, Weighs, Unused
<1>3. Total(used) = Weight(used, S) /\ Total(used) \in Nat
  BY <1>1, TotalIsWeight, WeightNat
<1>4. /\ Weighs(u, S \ {c}) /\ Weight(u, S \ {c}) \in Nat
      /\ Weight(u, S) = Weight(u, S \ {c}) + u[c]
  BY <1>2, WeightRemove
<1>5. ReservedForOthers(c, used, reserved) = Weight(u, S \ {c})
  BY <1>4, ReservedIsWeight
<1>6. \A x \in S : Claims(used, reserved)[x] = used[x] + u[x]
  BY DEF Claims, Unused
<1>7. /\ Weighs(Claims(used, reserved), S)
      /\ Weight(Claims(used, reserved), S) = Weight(used, S) + Weight(u, S)
  <2> HIDE DEF S, u
  <2> QED BY <1>1, <1>2, <1>6, WeightSum
<1>8. u[c] \in Nat
  BY <1>2, MonusNat DEF Classes
<1> HIDE DEF u
<1> QED BY <1>2, <1>3, <1>4, <1>5, <1>7, <1>8

\* fixed_reservation_covers is never contradicted by fair_reservation_fits: an
\* amount the class's own reservation covers fits the shared capacity,
\* whatever the other classes hold, as long as the reservations are free.
THEOREM CoveredFits ==
    ASSUME NEW used, NEW reserved, NEW capacity \in Nat, NEW amount \in Nat,
           Classes(used, reserved), NEW c \in DOMAIN reserved,
           ReservationsFree(used, capacity, reserved),
           fixed_reservation_covers(c, used, amount, reserved)
    PROVE  fair_reservation_fits(c, used, amount, capacity, reserved)
<1>1. /\ Weight(Claims(used, reserved), DOMAIN reserved) <= capacity
      /\ Total(used) \in Nat /\ ReservedForOthers(c, used, reserved) \in Nat
      /\ Weight(Claims(used, reserved), DOMAIN reserved)
         = Total(used) + ReservedForOthers(c, used, reserved) + Monus(reserved[c], used[c])
  BY ClaimSplit, FreeIsWeight
<1>2. used[c] \in Nat /\ reserved[c] \in Nat /\ used[c] + amount <= reserved[c]
  BY DEF Classes, fixed_reservation_covers
<1> QED BY <1>1, <1>2 DEF fair_reservation_fits, Monus

\* What a class takes under fair_reservation_fits leaves every class able to
\* claim the rest of its reservation.
THEOREM FittingKeepsReservations ==
    ASSUME NEW used, NEW reserved, NEW capacity \in Nat, NEW amount \in Nat,
           Classes(used, reserved), NEW c \in DOMAIN reserved,
           ReservationsFree(used, capacity, reserved),
           fair_reservation_fits(c, used, amount, capacity, reserved)
    PROVE  ReservationsFree([used EXCEPT ![c] = @ + amount], capacity, reserved)
<1> DEFINE more == [used EXCEPT ![c] = @ + amount]
           S == DOMAIN reserved
<1>1. /\ Weight(Claims(used, reserved), S) <= capacity
      /\ Total(used) \in Nat /\ ReservedForOthers(c, used, reserved) \in Nat
      /\ Weight(Claims(used, reserved), S)
         = Total(used) + ReservedForOthers(c, used, reserved) + Monus(reserved[c], used[c])
  BY ClaimSplit, FreeIsWeight
<1>2. used[c] \in Nat /\ reserved[c] \in Nat /\ more[c] = used[c] + amount
  BY DEF Classes
<1>3. Classes(more, reserved)
  BY <1>2 DEF Classes
<1>4. /\ Weighs(Claims(more, reserved), S)
      /\ Weight(Claims(more, reserved), S)
         = Total(more) + ReservedForOthers(c, more, reserved) + Monus(reserved[c], more[c])
  BY <1>3, ClaimSplit
<1>5. Total(more) = Total(used) + amount
  <2>1. DOMAIN used = S /\ DOMAIN more = S /\ Weighs(used, S) /\ Weighs(more, S)
    BY <1>3 DEF Classes, Weighs
  <2>2. /\ Weight(used, S) = Weight(used, S \ {c}) + used[c]
        /\ Weight(used, S \ {c}) \in Nat
    BY <2>1, WeightRemove
  <2>3. Weight(more, S) = Weight(more, S \ {c}) + more[c]
    BY <2>1, WeightRemove
  <2>4. Weight(more, S \ {c}) = Weight(used, S \ {c})
    <3>1. \A x \in S \ {c} : more[x] = used[x]
      BY <2>1
    <3> HIDE DEF more, S
    <3> QED BY <3>1, WeightEqual
  <2>5. Total(used) = Weight(used, S) /\ Total(more) = Weight(more, S)
    BY <2>1, TotalIsWeight
  <2> HIDE DEF more, S
  <2> QED BY <1>2, <2>2, <2>3, <2>4, <2>5
<1>6. ReservedForOthers(c, more, reserved) = ReservedForOthers(c, used, reserved)
  <2>1. /\ Weighs(Unused(used, reserved), S \ {c})
        /\ Weighs(Unused(more, reserved), S \ {c})
    BY <1>3, MonusNat, FS_RemoveElement DEF Classes, Weighs, Unused
  <2>2. \A x \in S \ {c} : Unused(more, reserved)[x] = Unused(used, reserved)[x]
    BY DEF Unused, Classes
  <2>3. Weight(Unused(more, reserved), S \ {c}) = Weight(Unused(used, reserved), S \ {c})
    <3> HIDE DEF more, S
    <3> QED BY <2>2, WeightEqual
  <2> QED BY <2>1, <2>3, ReservedIsWeight
<1>7. Weight(Claims(more, reserved), S) <= capacity
  <2>1. Total(used) + amount <= Monus(capacity, ReservedForOthers(c, used, reserved))
    BY DEF fair_reservation_fits
  <2> HIDE DEF more, S
  <2> QED BY <1>1, <1>2, <1>4, <1>5, <1>6, <2>1 DEF Monus
<1> QED BY <1>4, <1>7, FreeIsWeight

\* Capacity given back, by any classes at once, leaves every class able to
\* claim the rest of its reservation.
THEOREM ReleaseKeepsReservations ==
    ASSUME NEW used, NEW less, NEW reserved, NEW capacity \in Nat,
           Classes(used, reserved), Classes(less, reserved),
           \A c \in DOMAIN reserved : less[c] <= used[c],
           ReservationsFree(used, capacity, reserved)
    PROVE  ReservationsFree(less, capacity, reserved)
<1> DEFINE S == DOMAIN reserved
<1>1. Weighs(Claims(used, reserved), S) /\ Weighs(Claims(less, reserved), S)
  BY MonusNat DEF Classes, Weighs, Claims
<1>2. \A c \in S : Claims(less, reserved)[c] <= Claims(used, reserved)[c]
  BY DEF Claims, Monus, Classes
<1>3. Weight(Claims(less, reserved), S) <= Weight(Claims(used, reserved), S)
  BY <1>1, <1>2, WeightMonotone
<1>4. Weight(Claims(used, reserved), S) <= capacity
  BY <1>1, FreeIsWeight
<1>5. /\ Weight(Claims(used, reserved), S) \in Nat
      /\ Weight(Claims(less, reserved), S) \in Nat
  BY <1>1, WeightNat
<1>6. Weight(Claims(less, reserved), S) <= capacity
  BY <1>3, <1>4, <1>5
<1> QED BY <1>1, <1>6, FreeIsWeight

\* What a class must leave alone: all that the others hold or may claim, and
\* what it holds itself.
LEMMA TakenSplit ==
    ASSUME NEW used, NEW reserved, Classes(used, reserved), NEW c \in DOMAIN reserved
    PROVE  /\ Weighs(Claims(used, reserved), DOMAIN reserved \ {c})
           /\ Weight(Claims(used, reserved), DOMAIN reserved \ {c}) \in Nat
           /\ Total(used) \in Nat /\ ReservedForOthers(c, used, reserved) \in Nat
           /\ used[c] \in Nat
           /\ Total(used) + ReservedForOthers(c, used, reserved)
              = Weight(Claims(used, reserved), DOMAIN reserved \ {c}) + used[c]
<1> DEFINE all    == Weight(Claims(used, reserved), DOMAIN reserved)
           others == Weight(Claims(used, reserved), DOMAIN reserved \ {c})
           left   == Monus(reserved[c], used[c])
<1>1. /\ Weighs(Claims(used, reserved), DOMAIN reserved)
      /\ Total(used) \in Nat /\ ReservedForOthers(c, used, reserved) \in Nat
      /\ all = Total(used) + ReservedForOthers(c, used, reserved) + left
  BY ClaimSplit
<1>2. /\ Weighs(Claims(used, reserved), DOMAIN reserved \ {c}) /\ others \in Nat
      /\ all = others + Claims(used, reserved)[c]
  BY <1>1, WeightRemove
<1>3. Claims(used, reserved)[c] = used[c] + left /\ used[c] \in Nat /\ left \in Nat
  BY MonusNat DEF Claims, Classes
<1>4. Total(used) + ReservedForOthers(c, used, reserved) = others + used[c]
  <2> DEFINE total == Total(used)
             kept  == ReservedForOthers(c, used, reserved)
             own   == used[c]
  <2>1. total + kept + left = others + (own + left)
    BY <1>1, <1>2, <1>3, Zenon
  <2>2. /\ total \in Nat /\ kept \in Nat /\ left \in Nat /\ others \in Nat /\ own \in Nat
    BY <1>1, <1>2, <1>3
  <2> HIDE DEF left, others, total, kept, own
  <2>3. total + kept = others + own
    BY <2>1, <2>2
  <2> QED BY <2>3 DEF total, kept, own
<1> QED BY <1>1, <1>2, <1>3, <1>4

\* What a class may take it may also take once capacity was given back, by any
\* classes at once: fair_reservation_fits never turns from admitting to refusing
\* because of a release.
THEOREM FittingSurvivesRelease ==
    ASSUME NEW used, NEW less, NEW reserved, NEW capacity \in Nat, NEW amount \in Nat,
           Classes(used, reserved), Classes(less, reserved), NEW c \in DOMAIN reserved,
           \A k \in DOMAIN reserved : less[k] <= used[k],
           fair_reservation_fits(c, used, amount, capacity, reserved)
    PROVE  fair_reservation_fits(c, less, amount, capacity, reserved)
<1> DEFINE S == DOMAIN reserved
           others(u) == Weight(Claims(u, reserved), S \ {c})
<1>1. /\ Weighs(Claims(less, reserved), S \ {c})
      /\ Weighs(Claims(used, reserved), S \ {c})
      /\ others(less) \in Nat /\ others(used) \in Nat
      /\ less[c] \in Nat /\ used[c] \in Nat
      /\ Total(used) \in Nat /\ ReservedForOthers(c, used, reserved) \in Nat
      /\ Total(less) \in Nat /\ ReservedForOthers(c, less, reserved) \in Nat
      /\ Total(used) + ReservedForOthers(c, used, reserved) = others(used) + used[c]
      /\ Total(less) + ReservedForOthers(c, less, reserved) = others(less) + less[c]
  BY TakenSplit
<1>2. others(less) <= others(used)
  <2>1. \A x \in S \ {c} : Claims(less, reserved)[x] <= Claims(used, reserved)[x]
    BY DEF Claims, Monus, Classes
  <2> QED BY <1>1, <2>1, WeightMonotone
<1>3. Total(used) + amount <= Monus(capacity, ReservedForOthers(c, used, reserved))
  BY DEF fair_reservation_fits
<1>4. less[c] <= used[c]
  OBVIOUS
<1>5. /\ Total(used) \in Nat /\ ReservedForOthers(c, used, reserved) \in Nat
      /\ Total(less) \in Nat /\ ReservedForOthers(c, less, reserved) \in Nat
      /\ Total(less) + ReservedForOthers(c, less, reserved)
         <= Total(used) + ReservedForOthers(c, used, reserved)
  <2> HIDE DEF others
  <2> QED BY <1>1, <1>2, <1>4
<1>6. Total(less) <= Total(used)
  <2>1. Weighs(less, DOMAIN less) /\ Weighs(used, DOMAIN used) /\ DOMAIN less = DOMAIN used
    BY DEF Weighs, Classes
  <2>2. \A x \in DOMAIN less : less[x] <= used[x]
    BY DEF Classes
  <2>3. Weight(less, DOMAIN less) <= Weight(used, DOMAIN used)
    BY <2>1, <2>2, WeightMonotone
  <2> QED BY <2>1, <2>3, TotalIsWeight
<1> QED BY <1>3, <1>5, <1>6 DEF fair_reservation_fits, Monus

\* Nothing is held at the start: the reservations are free if they add up to
\* no more than the capacity.
THEOREM EmptyIsFree ==
    ASSUME NEW used, NEW reserved, NEW capacity \in Nat, Classes(used, reserved),
           \A c \in DOMAIN reserved : used[c] = 0, Total(reserved) <= capacity
    PROVE  ReservationsFree(used, capacity, reserved)
<1> DEFINE S == DOMAIN reserved
<1>1. Weighs(Claims(used, reserved), S) /\ Weighs(reserved, S)
  BY MonusNat DEF Classes, Weighs, Claims
<1>2. \A c \in S : Claims(used, reserved)[c] = reserved[c]
  BY DEF Claims, Monus, Classes
<1>3. Weight(Claims(used, reserved), S) = Weight(reserved, S)
  BY <1>2, WeightEqual
<1> QED BY <1>1, <1>3, TotalIsWeight, FreeIsWeight
=============================================================================
