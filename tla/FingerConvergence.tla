-------------------------- MODULE FingerConvergence --------------------------
(***************************************************************************)
(* The finger-convergence ledger of crates/core/src/dht/finger/convergence *)
(* : which slots carry a current proof, the one lookup attempt that may    *)
(* change them, and its retry pacing.  Every operator maps a ledger (and   *)
(* the finger table it accompanies) to the next one; module PeerRing       *)
(* embeds them in the ring's transitions.                                  *)
(*                                                                         *)
(* Time.  The code stores absolute deadlines and compares them with the    *)
(* monotonic clock it reads under the ring's lock.  Here a deadline is the *)
(* time left until it (0 = elapsed), the last issue is the time since it   *)
(* saturating at MinInterval, and Elapse lets one unit pass: the same      *)
(* comparisons, without an unbounded clock.                                *)
(***************************************************************************)
EXTENDS RingGeometry

CONSTANTS
    LookupTimeout,     \* FINGER_LOOKUP_TIMEOUT_MS, in units
    AdmissionTimeout,  \* FINGER_ADMISSION_TIMEOUT_MS
    MinInterval,       \* FINGER_LOOKUP_MIN_INTERVAL_MS
    MaxBackoff,        \* FINGER_LOOKUP_MAX_BACKOFF_MS
    MaxExponent,       \* FINGER_LOOKUP_MAX_BACKOFF_EXPONENT
    MaxStreak,         \* u8::MAX, where the failure streak saturates
    MaxEpoch,          \* u64::MAX, where the evidence epoch is exhausted
    Id                 \* request identities (UUIDs)

ASSUME ConvergenceAssumption ==
    /\ LookupTimeout \in Nat \ {0} /\ AdmissionTimeout \in Nat \ {0}
    /\ MinInterval \in Nat /\ MaxBackoff \in Nat
    /\ MaxExponent \in 0 .. Bits
    /\ MaxStreak \in Nat /\ MaxEpoch \in Nat

\* FingerFixRequest: the slot looked up and the fresh identity of the round.
Request == [slot : Slot, id : Id]

\* FingerAttempt::Idle, and the two owned phases as records of one shape:
\* until a report is retained there is no successor and no proof end.
Idle == [phase |-> "Idle", request |-> None, epoch |-> 0,
         successor |-> None, end |-> None, left |-> 0]

AwaitingReport(req, epoch) ==
    [phase |-> "AwaitingReport", request |-> req, epoch |-> epoch,
     successor |-> None, end |-> None, left |-> LookupTimeout]

AwaitingAdmission(req, epoch, s, end) ==
    [phase |-> "AwaitingAdmission", request |-> req, epoch |-> epoch,
     successor |-> s, end |-> end, left |-> AdmissionTimeout]

\* A new ledger: epoch zero, nothing verified, no attempt, no pacing.
NewConvergence ==
    [epoch |-> 0, changedAt |-> [i \in Slot |-> 0],
     verified |-> [i \in Slot |-> FALSE],
     attempt |-> Idle, since |-> MinInterval, streak |-> 0, backoff |-> 0,
     cursor |-> 0]

-----------------------------------------------------------------------------
(* Retry pacing (retry.rs). *)

AtMost(x, bound) == IF x <= bound THEN x ELSE bound

BackoffAfter(streak) == AtMost(MinInterval * 2^AtMost(streak, MaxExponent), MaxBackoff)

\* Mutant of RecordFailure: the streak does not saturate.
RecordFailureUnbounded(c) ==
    [c EXCEPT !.streak = @ + 1, !.backoff = BackoffAfter(c.streak + 1)]

RecordFailure(c) ==
    LET streak == AtMost(c.streak + 1, MaxStreak)
    IN  [c EXCEPT !.streak = streak, !.backoff = BackoffAfter(streak)]

RecordProgress(c) == [c EXCEPT !.streak = 0, !.backoff = 0]

PermitsIssue(c) == c.since >= MinInterval /\ c.backoff = 0

\* One unit of the ring's clock.
Elapse(c) ==
    [c EXCEPT !.since = AtMost(@ + 1, MinInterval),
              !.backoff = IF @ = 0 THEN 0 ELSE @ - 1,
              !.attempt.left = IF @ = 0 THEN 0 ELSE @ - 1]

-----------------------------------------------------------------------------
(* Per-slot evidence (evidence.rs). *)

AnyUnverifiedFrom(c, first) == \E i \in Slot : i >= first /\ ~c.verified[i]

\* Last slot of the run of equal hints that starts at a slot.
hint_run_end(fingers, slot) ==
    CHOOSE e \in slot .. Slots - 1 :
        /\ \A k \in slot .. e : fingers[k] = fingers[slot]
        /\ e = Slots - 1 \/ fingers[e + 1] # fingers[slot]

Least(S) == IF S = {} THEN None ELSE CHOOSE i \in S : \A j \in S : i <= j

\* First unverified slot at or after the cursor, wrapping to the first
\* routable slot.
next_unverified_cyclic(c, first) ==
    LET open  == {i \in Slot : i >= first /\ ~c.verified[i]}
        ahead == {i \in open : i >= c.cursor}
    IN  IF ahead = {} THEN Least(open) ELSE Least(ahead)

\* Mutant of invalidate_hint_changes: the attempt outlives its own slot's hint.
invalidate_slots_only(c, before, after) ==
    LET changed   == {i \in Slot : before[i] # after[i]}
        exhausted == changed # {} /\ c.epoch = MaxEpoch
    IN  IF changed = {} THEN c
        ELSE [c EXCEPT
                !.epoch     = IF exhausted THEN @ ELSE @ + 1,
                !.changedAt = [i \in Slot |-> IF i \in changed /\ ~exhausted
                                              THEN c.epoch + 1 ELSE @[i]],
                !.verified  = [i \in Slot |-> ~exhausted /\ i \notin changed /\ @[i]],
                !.attempt   = IF exhausted THEN Idle ELSE @]

\* Mutant of invalidate_hint_changes: at the last epoch the changed slots are
\* opened without a date and the attempt stays.
invalidate_undated(c, before, after) ==
    LET changed == {i \in Slot : before[i] # after[i]}
        date    == AtMost(c.epoch + 1, MaxEpoch)
    IN  IF changed = {} THEN c
        ELSE [c EXCEPT
                !.epoch     = date,
                !.changedAt = [i \in Slot |-> IF i \in changed THEN date ELSE @[i]],
                !.verified  = [i \in Slot |-> i \notin changed /\ @[i]]]

\* A hint change dates its slots with a new epoch and opens them; it takes
\* the attempt with it when the attempt's own slot changed.  At the last
\* epoch no date can be given, so all evidence and the attempt are dropped.
invalidate_hint_changes(c, before, after) ==
    LET changed   == {i \in Slot : before[i] # after[i]}
        exhausted == changed # {} /\ c.epoch = MaxEpoch
        lost      == c.attempt.phase # "Idle" /\ c.attempt.request.slot \in changed
    IN  IF changed = {} THEN c
        ELSE [c EXCEPT
                !.epoch     = IF exhausted THEN @ ELSE @ + 1,
                !.changedAt = [i \in Slot |-> IF i \in changed /\ ~exhausted
                                              THEN c.epoch + 1 ELSE @[i]],
                !.verified  = [i \in Slot |-> ~exhausted /\ i \notin changed /\ @[i]],
                !.attempt   = IF lost \/ exhausted THEN Idle ELSE @]

\* Losing the last successor drops every proof, unless there is none.
invalidate_all_evidence(c) ==
    IF c.attempt.phase = "Idle" /\ \A i \in Slot : ~c.verified[i] THEN c
    ELSE [c EXCEPT
            !.epoch     = AtMost(@ + 1, MaxEpoch),
            !.changedAt = IF c.epoch = MaxEpoch THEN @
                          ELSE [i \in Slot |-> c.epoch + 1],
            !.verified  = [i \in Slot |-> FALSE],
            !.attempt   = Idle]

-----------------------------------------------------------------------------
(* The attempt (attempt.rs, proof.rs, convergence.rs). *)

can_consume(c, req, s) ==
    \/ c.attempt.phase = "AwaitingReport" /\ c.attempt.request = req
    \/ /\ c.attempt.phase = "AwaitingAdmission"
       /\ c.attempt.request = req /\ c.attempt.successor = s

\* Mutant of Expired: a retained report has no deadline.
ExpiredReportOnly(c) == c.attempt.phase = "AwaitingReport" /\ c.attempt.left = 0

Expired(c) == c.attempt.phase # "Idle" /\ c.attempt.left = 0

Owns(c, req) == c.attempt.phase # "Idle" /\ c.attempt.request = req

\* Mutant of ProofEnd: a proof covers one slot too many.
ProofEndLong(local, c, req, s) ==
    LET end == finger_proof_end(local, s, req.slot)
    IN  IF c.attempt.phase = "AwaitingAdmission" THEN c.attempt.end
        ELSE IF end + 1 < Slots THEN end + 1 ELSE end

\* Last slot the report would prove: fixed when it was retained.
ProofEnd(local, c, req, s) ==
    IF c.attempt.phase = "AwaitingAdmission" THEN c.attempt.end
    ELSE finger_proof_end(local, s, req.slot)

\* Mutant of Admits: a proof writes its whole range.
AdmitsAll(c, i) == c.changedAt[i] <= c.epoch

\* A proof writes a slot only if the hint is no younger than the lookup.
Admits(c, i) == c.changedAt[i] <= c.attempt.epoch

\* FingerReportRejection, or "Valid".
validated_proof(local, c, req, s) ==
    LET end == finger_proof_end(local, s, req.slot)
    IN  IF ~can_consume(c, req, s) THEN "Stale"
        ELSE IF Expired(c) THEN "Expired"
        ELSE IF c.attempt.phase = "AwaitingAdmission" THEN "Valid"
        ELSE IF end = None THEN "Invalid"
        ELSE IF \E i \in req.slot .. end : Admits(c, i) THEN "Valid"
        ELSE "Stale"

\* Mutant of fail_attempt: the cursor stays on the failed run.
fail_in_place(c, fingers, slot) == RecordFailure([c EXCEPT !.attempt = Idle])

\* A failed attempt yields its turn to the next run of hints.
fail_attempt(c, fingers, slot) ==
    RecordFailure([c EXCEPT !.attempt = Idle,
                            !.cursor = hint_run_end(fingers, slot) + 1])

retire_rejected_current(c, fingers, req, s, verdict) ==
    IF ~can_consume(c, req, s) THEN c
    ELSE IF verdict \in {"Invalid", "Expired"} THEN fail_attempt(c, fingers, req.slot)
    ELSE [c EXCEPT !.attempt = Idle]

\* Result of applying a report: the ledger and the finger table it leaves.
apply_result(local, c, fingers, req, s) ==
    LET verdict == validated_proof(local, c, req, s)
        end     == ProofEnd(local, c, req, s)
        written == {i \in req.slot .. end : Admits(c, i)}
        hint    == IF s = local THEN None ELSE s
    IN  IF verdict # "Valid"
        THEN [c |-> retire_rejected_current(c, fingers, req, s, verdict),
              fingers |-> fingers]
        ELSE [c |-> RecordProgress([c EXCEPT
                        !.attempt  = Idle,
                        !.verified = [i \in Slot |-> i \in written \/ @[i]],
                        !.cursor   = end + 1]),
              fingers |-> [i \in Slot |-> IF i \in written THEN hint ELSE fingers[i]]]

\* Retain a timely report while its successor is connecting.
defer_result(local, c, fingers, req, s) ==
    LET verdict == validated_proof(local, c, req, s)
    IN  IF verdict # "Valid"
        THEN retire_rejected_current(c, fingers, req, s, verdict)
        ELSE IF c.attempt.phase = "AwaitingAdmission" THEN c
        ELSE [c EXCEPT !.attempt = AwaitingAdmission(req, @.epoch, s,
                                        finger_proof_end(local, s, req.slot))]

\* Give up a report whose successor cannot carry traffic.
retire_result(local, c, fingers, req, s) ==
    LET verdict == validated_proof(local, c, req, s)
    IN  IF verdict # "Valid"
        THEN retire_rejected_current(c, fingers, req, s, verdict)
        ELSE RecordFailure([c EXCEPT !.attempt = Idle,
                                     !.cursor = ProofEnd(local, c, req, s) + 1])

\* Stabilization proved slots 0..end at once.
confirm_range(c, end) ==
    LET superseded == c.attempt.phase # "Idle" /\ c.attempt.request.slot <= end
        progressed == superseded \/ \E i \in 0 .. end : ~c.verified[i]
        confirmed  == [c EXCEPT
                        !.verified = [i \in Slot |-> i <= end \/ @[i]],
                        !.attempt  = IF superseded THEN Idle ELSE @,
                        !.cursor   = IF superseded THEN end + 1 ELSE @]
    IN  IF progressed THEN RecordProgress(confirmed) ELSE confirmed

cancel(c, fingers, req) == IF Owns(c, req) THEN fail_attempt(c, fingers, req.slot) ELSE c

\* Reopen one run of hints for revalidation, unless a lookup is in flight or
\* lookups are succeeding and still have work.
begin_revalidation(c, fingers, first) ==
    LET start == IF c.cursor = Slots THEN 0 ELSE c.cursor
        busy  == AnyUnverifiedFrom(c, first) /\ c.streak = 0
    IN  IF c.attempt.phase # "Idle" \/ busy \/ Slots = 0 THEN c
        ELSE [c EXCEPT !.verified = [i \in Slot |->
                    i \notin start .. hint_run_end(fingers, start) /\ @[i]]]

=============================================================================
