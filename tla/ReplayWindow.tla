----------------------------- MODULE ReplayWindow -----------------------------
(***************************************************************************)
(* The pure transitions of the replay protection of one stream             *)
(* (crates/core/src/message/replay.rs, replay/lease.rs,                    *)
(* replay/admission.rs): the receiver's window of accepted sequences, the  *)
(* sender's leased allocator and the instant a stream is spent.            *)
(*                                                                         *)
(* A transaction is a record [stream, sequence, id, expires]; the record   *)
(* itself stands for its digest, so two transactions that differ in id     *)
(* alone are a fork.  expires is the last instant at which its proof is    *)
(* live (ts + ttl).                                                        *)
(***************************************************************************)
EXTENDS Integers

CONSTANTS
    Window,       \* TRANSACTION_REPLAY_WINDOW, 32 in the code
    Lease,        \* TRANSACTION_SEQUENCE_LEASE, 64 in the code
    MaxSequence,  \* the last sequence of the u64 space
    Horizon,      \* delivery_horizon_ms of the class
    Sigma,        \* TS_OFFSET_TOLERANCE_MS
    None          \* Option::None

ASSUME WindowAssumption == Window \in Nat \ {0}
ASSUME LeaseAssumption == Lease \in Nat \ {0}
ASSUME SequenceAssumption == MaxSequence \in Nat
ASSUME TimeAssumption == Horizon \in Nat /\ Sigma \in Nat

Slot == 0 .. Window - 1
Sequence == 0 .. MaxSequence

-----------------------------------------------------------------------------
(* The receiver's window.  slots[d] is the transaction accepted at         *)
(* sequence high - d; the code keeps the same array back to front.         *)

First(tx) ==
    [high |-> tx.sequence, slots |-> [d \in Slot |-> IF d = 0 THEN tx ELSE None]]

\* A window that keeps the slots it should have moved.
AdvanceInPlace(window, tx) ==
    [high  |-> tx.sequence,
     slots |-> [window.slots EXCEPT ![0] = tx]]

\* Shift the window up to the transaction; what falls out of it is forgotten.
Advance(window, tx) ==
    LET gap == tx.sequence - window.high
    IN  [high  |-> tx.sequence,
         slots |-> [d \in Slot |-> IF d = 0 THEN tx
                                   ELSE IF d < gap THEN None
                                   ELSE window.slots[d - gap]]]

RetainedMin(window) == IF window.high < Window THEN 0 ELSE window.high - (Window - 1)

\* The verdict on a transaction; the window is None for a stream never seen.
Verdict(window, tx) ==
    IF window = None THEN "First"
    ELSE IF tx.sequence > window.high THEN "Advance"
    ELSE IF tx.sequence < RetainedMin(window) THEN "Stale"
    ELSE LET accepted == window.slots[window.high - tx.sequence]
         IN  IF accepted = None THEN "Late"
             ELSE IF accepted = tx THEN "Replay" ELSE "Fork"

\* permits_dispatch
Permits(window, tx) == Verdict(window, tx) \in {"First", "Advance", "Late"}

\* The window after a transaction it permits.
Observe(window, tx) ==
    CASE window = None -> First(tx)
      [] window # None /\ tx.sequence > window.high -> Advance(window, tx)
      [] OTHER -> [window EXCEPT !.slots[window.high - tx.sequence] = tx]

-----------------------------------------------------------------------------
(* The sender's allocator [issued, leased].                                *)

\* A restart that hands out the last leased sequence once more.
RestoredOneBack(leased) ==
    [issued |-> IF leased = 0 THEN 0 ELSE leased - 1, leased |-> leased]

Restored(leased) == [issued |-> leased, leased |-> leased]

NextSequence(lease) == IF lease = None THEN 0 ELSE lease.issued + 1

\* The allocation outruns the sequence space.
Exhausted(lease, count) == NextSequence(lease) + count - 1 > MaxSequence

\* The allocation lies inside the lease the stream already has.
InLease(lease, count) == lease # None /\ NextSequence(lease) + count - 1 <= lease.leased

Least(a, b) == IF a < b THEN a ELSE b
Greatest(a, b) == IF a < b THEN b ELSE a

\* The lease an allocation that outruns the current one extends to.
Extended(lease, count) ==
    LET first == NextSequence(lease)
    IN  Greatest(first + count - 1, Least(MaxSequence, first + (Lease - 1)))

\* The allocator after an allocation.
Allocate(lease, count) ==
    [issued |-> NextSequence(lease) + count - 1,
     leased |-> IF InLease(lease, count) THEN lease.leased ELSE Extended(lease, count)]

\* The sequences an allocation hands out.
Allocated(lease, count) == NextSequence(lease) .. NextSequence(lease) + count - 1

-----------------------------------------------------------------------------
\* Without the delivery horizon of stored mail.
SpentAtExpiry(tx) == tx.expires + Sigma

\* The instant from which no carrier delivers the transaction any more.
SpentAt(tx) == tx.expires + Horizon + Sigma
=============================================================================
