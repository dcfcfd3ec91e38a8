--------------------------- MODULE ReservedCapacity ---------------------------
(***************************************************************************)
(* Capacity shared by classes with fixed reservations                      *)
(* (crates/core/src/fair_admission/capacity.rs).  `used` and `reserved`    *)
(* are functions: what each class holds, and its reservation.              *)
(***************************************************************************)
EXTENDS Naturals, FiniteSetsExt

Monus(a, b) == IF a < b THEN 0 ELSE a - b

Total(used) == MapThenSumSet(LAMBDA c : used[c], DOMAIN used)

\* What the other classes have not used of their reservations.
ReservedForOthers(c, used, reserved) ==
    MapThenSumSet(LAMBDA k : Monus(reserved[k], used[k]), DOMAIN reserved \ {c})

\* Mutant of fair_reservation_fits: the reservations of the other classes
\* are not held back.
fair_reservation_ignored(c, used, amount, capacity, reserved) ==
    Total(used) + amount <= capacity

\* The class may take this amount: what the others have left of their
\* reservations stays free for them.
fair_reservation_fits(c, used, amount, capacity, reserved) ==
    Total(used) + amount
    <= Monus(capacity, ReservedForOthers(c, used, reserved))

\* The class's reservation alone covers this amount.
fixed_reservation_covers(c, used, amount, reserved) == used[c] + amount <= reserved[c]

\* Every class can still be given the rest of its reservation.
ReservationsFree(used, capacity, reserved) ==
    MapThenSumSet(LAMBDA c : used[c] + Monus(reserved[c], used[c]), DOMAIN reserved) <= capacity
=============================================================================
