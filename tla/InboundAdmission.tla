--------------------------- MODULE InboundAdmission ---------------------------
(***************************************************************************)
(* Resource-ordered admission of inbound arrivals: the waitlist and the    *)
(* queue of crates/core/src/fair_admission/{waitlist,resource_order}.rs    *)
(* over the ledger of InboundCapacity.                                     *)
(*                                                                         *)
(* An event on the queue (an arrival, a release, a withdrawal) holds the   *)
(* queue's lock and works through its scans one judgement at a time.  A    *)
(* charge is returned to the ledger without that lock, so releases of      *)
(* other threads fall between the judgements of a scan, and between the    *)
(* reading of a footprint and the attempt to admit.  The release then      *)
(* takes the queue's lock for a scan of its own.                           *)
(***************************************************************************)
EXTENDS InboundCapacity

CONSTANT MaxCancels     \* waiters dropped in one behaviour, a bound

ASSUME CancelsAssumption == MaxCancels \in Nat

VARIABLES
    phase,      \* id -> where the request and its charge stand
    ahead,      \* id -> the waiters whose arrival number is smaller than its own
    waiter,     \* id -> [refusal, holds, parked]: where the waiter is indexed
    charged,    \* requests holding a mailbox charge
    opened,     \* requests whose message is open
    lock,       \* the event that holds the queue's lock
    cancels     \* waiters dropped so far

vars == <<phase, ahead, waiter, charged, opened, lock, cancels>>

Phase == {"idle",       \* not arrived, or processed: it may be sent again
          "waiting",    \* in the waitlist, ungranted
          "granted",    \* granted, not claimed by its waiter
          "open",       \* claimed by a first chunk: its message is open
          "closing",    \* the message left the open table, its scan is owed
          "dispatch",   \* a frame or a completed message being processed
          "freed",      \* the mailbox charge was returned, its scan is owed
          "expired"}    \* as freed, with an open message

Nobody == 0             \* no request
Nothing == <<0, 0>>     \* no resource
NoIndex == [refusal |-> {}, holds |-> {}, parked |-> {}]
Free == [busy |-> FALSE, scans |-> {}, at |-> Nothing, after |-> Nobody,
         judged |-> Nobody, blockers |-> {}, held |-> {}, served |-> {}]

ASSUME NobodyAssumption == Nobody \notin Request

\* A scan of the resources, or the judgement of a waiter, takes the lock.
Scan(resources) == [Free EXCEPT !.busy = TRUE, !.scans = resources]

Held(w) == waiter[w].refusal \cup waiter[w].holds
Ungranted == {w \in Request : phase[w] = "waiting"}
Earlier(w) == ahead[w] \cap Ungranted
Later(w) == {v \in Ungranted : w \in ahead[v]}
First(S) == CHOOSE w \in S : ahead[w] \cap S = {}

\* The arrival numbers of the waiters W, all others forgotten.
Numbers(W) == [w \in Request |-> IF w \in W THEN ahead[w] \cap W ELSE {}]

-----------------------------------------------------------------------------
(* The waitlist.                                                           *)

\* Mutant of blockers: no waiter is blocked by what an earlier one was refused.
blockers_stream_only(w, earlier) == {s \in {Stream(w)} : \E v \in earlier : Stream(v) = s}

\* Mutant of blockers: a waiter does not block its stream.
blockers_without_stream(w, earlier) ==
    {x \in footprint(charged, opened, w) : \E v \in earlier : x \in Held(v)}

\* What earlier waiters block w by: its stream, and each resource of its
\* footprint that one of them holds.
blockers(w, earlier) ==
    {s \in {Stream(w)} : \E v \in earlier : Stream(v) = s}
    \cup {x \in footprint(charged, opened, w) : \E v \in earlier : x \in Held(v)}

\* The reliefs a blocked waiter holds: all, if they may lift every blocker.
holds(w, blocking) ==
    LET R == reliefs(charged, opened, w)
        liftable == UNION {{x[1]} \cup x[2] : x \in R}
    IN  IF blocking \subseteq liftable THEN {x[1] : x \in R} ELSE {}

\* Mutant of Demoted: an earlier refusal leaves later ones standing.
Demoted_none(w, refusal) == {}

\* Waiters after w refused by another set that shares a resource with this one.
Demoted(w, refusal) ==
    {v \in Later(w) : waiter[v].refusal # refusal /\ waiter[v].refusal \cap refusal # {}}

\* The one shared resource it is parked under instead.
DemotedTo(v, refusal) == Least(waiter[v].refusal \cap refusal)

\* The waiters parked under a resource that a scan of it has yet to judge.
Parked(x, after) ==
    {w \in Ungranted : x \in waiter[w].parked
                       /\ (after # Nobody => after \in ahead[w])}

\* The next resource a scan judges a waiter of: the one it is at, or the
\* least of those named that has waiters parked under it.
NextAt ==
    IF lock.at # Nothing /\ Parked(lock.at, lock.after) # {} THEN lock.at
    ELSE LET live == {x \in lock.scans : Parked(x, Nobody) # {}}
         IN  IF live = {} THEN Nothing ELSE Least(live)

ScanOver == lock.judged = Nobody /\ NextAt = Nothing

\* judge, first half: the waiter leaves the indices, its blockers are read.
Judge ==
    /\ lock.busy /\ lock.judged = Nobody /\ NextAt # Nothing
    /\ LET at    == NextAt
           stays == at = lock.at /\ Parked(lock.at, lock.after) # {}
           w     == First(Parked(at, IF stays THEN lock.after ELSE Nobody))
       IN  /\ lock' = [lock EXCEPT !.at = at,
                                   !.after = IF stays THEN @ ELSE Nobody,
                                   !.scans = IF stays THEN @
                                             ELSE {x \in @ : Precedes(at, x)},
                                   !.judged = w, !.blockers = blockers(w, Earlier(w)), !.held = Held(w)]
           /\ waiter' = [waiter EXCEPT ![w] = NoIndex]
    /\ UNCHANGED <<phase, ahead, charged, opened, cancels>>

\* How the judgement of w ends, and with it the step of the scan: the scan
\* stops at a waiter that ends parked under its resource again.
Judged(w, parked, named, granted) ==
    lock' = [lock EXCEPT !.judged = Nobody, !.blockers = {}, !.held = {},
                         !.scans = @ \cup named,
                         !.served = IF granted THEN @ \cup {w} ELSE @,
                         !.at = IF @ \in parked THEN Nothing ELSE @,
                         !.after = IF lock.at = Nothing \/ lock.at \in parked THEN Nobody ELSE w]

\* Blocked: parked under the first blocker and the reliefs it holds.
Block(w) ==
    LET h      == holds(w, lock.blockers)
        parked == {Least(lock.blockers)} \cup h
    IN  /\ lock.blockers # {}
        /\ waiter' = [waiter EXCEPT ![w] = [refusal |-> {}, holds |-> h, parked |-> parked]]
        /\ Judged(w, parked, lock.held \ h, FALSE)
        /\ UNCHANGED <<phase, ahead, charged, opened, cancels>>

\* Refused: parked under the refusal; later refusals it overlaps are demoted.
Refuse(w) ==
    LET refusal == refusal_of(charged, opened, w)
        demoted == Demoted(w, refusal)
    IN  /\ lock.blockers = {} /\ refusal # {}
        /\ waiter' = [v \in Request |->
              IF v = w THEN [refusal |-> refusal, holds |-> {}, parked |-> refusal]
              ELSE IF v \in demoted
                   THEN [NoIndex EXCEPT !.parked = {DemotedTo(v, refusal)}]
                   ELSE waiter[v]]
        /\ Judged(w, refusal,
                  (lock.held \ refusal)
                  \cup UNION {waiter[v].refusal \ {DemotedTo(v, refusal)} : v \in demoted},
                  FALSE)
        /\ UNCHANGED <<phase, ahead, charged, opened, cancels>>

\* Admitted: every budget takes the charge, the waiter leaves the waitlist.
Grant(w) ==
    /\ lock.blockers = {} /\ refusal_of(charged, opened, w) = {}
    /\ phase' = [phase EXCEPT ![w] = "granted"]
    /\ charged' = IF Charges(w) THEN charged \cup {w} ELSE charged
    /\ opened' = IF Opening(w) THEN opened \cup {w} ELSE opened
    /\ Judged(w, {}, lock.held \cup {Stream(w)}, TRUE)
    /\ UNCHANGED <<ahead, waiter, cancels>>

\* judge, second half.
Settle ==
    /\ lock.busy /\ lock.judged # Nobody
    /\ Block(lock.judged) \/ Refuse(lock.judged) \/ Grant(lock.judged)

\* The scan is over: the grants move into their slots, the lock is released.
Deliver ==
    /\ lock.busy /\ ScanOver
    /\ ahead' = Numbers(Ungranted)
    /\ lock' = Free
    /\ UNCHANGED <<phase, waiter, charged, opened, cancels>>

-----------------------------------------------------------------------------
(* The arrivals and their charges.                                         *)

\* acquire: the request is queued and judged.
Arrive(r) ==
    /\ ~lock.busy /\ phase[r] = "idle"
    /\ phase' = [phase EXCEPT ![r] = "waiting"]
    /\ ahead' = [ahead EXCEPT ![r] = Ungranted]
    /\ lock' = [Scan({}) EXCEPT !.judged = r, !.blockers = blockers(r, Ungranted)]
    /\ UNCHANGED <<waiter, charged, opened, cancels>>

\* The waiter is polled after its grant was moved into its slot.
Claim(r) ==
    /\ phase[r] = "granted" /\ r \notin lock.served
    /\ phase' = [phase EXCEPT ![r] = IF ~Charges(r) THEN "idle"
                                     ELSE IF Opening(r) THEN "open" ELSE "dispatch"]
    /\ UNCHANGED <<ahead, waiter, charged, opened, lock, cancels>>

\* Mutant of Withdraw: the waiter stays in the indices.
Withdraw_indexed(r) ==
    /\ ~lock.busy /\ phase[r] = "waiting" /\ cancels < MaxCancels
    /\ phase' = [phase EXCEPT ![r] = "idle"]
    /\ ahead' = Numbers(Ungranted \ {r})
    /\ lock' = Scan(Held(r) \cup {Stream(r)})
    /\ cancels' = cancels + 1
    /\ UNCHANGED <<waiter, charged, opened>>

\* The waiter is dropped while it waits: withdrawn, and what it blocked scanned.
Withdraw(r) ==
    /\ ~lock.busy /\ phase[r] = "waiting" /\ cancels < MaxCancels
    /\ phase' = [phase EXCEPT ![r] = "idle"]
    /\ ahead' = Numbers(Ungranted \ {r})
    /\ waiter' = [waiter EXCEPT ![r] = NoIndex]
    /\ lock' = Scan(Held(r) \cup {Stream(r)})
    /\ cancels' = cancels + 1
    /\ UNCHANGED <<charged, opened>>

\* The charge goes back to its budgets, all of them under their locks.
ReturnCharge(r) ==
    /\ charged' = charged \ {r}
    /\ opened' = opened \ {r}
    /\ phase' = [phase EXCEPT ![r] = IF ~Charges(r) THEN "idle"
                                     ELSE IF r \in opened THEN "expired" ELSE "freed"]

\* The waiter is dropped with a grant it has not claimed: nothing to
\* withdraw, the grant is dropped.
Abandon(r) ==
    /\ ~lock.busy /\ phase[r] = "granted" /\ cancels < MaxCancels
    /\ cancels' = cancels + 1
    /\ ReturnCharge(r)
    /\ UNCHANGED <<ahead, waiter, lock>>

\* The message of a first chunk completes: it leaves the open table.
Close(r) ==
    /\ phase[r] = "open"
    /\ phase' = [phase EXCEPT ![r] = "closing"]
    /\ opened' = opened \ {r}
    /\ UNCHANGED <<ahead, waiter, charged, lock, cancels>>

\* The event is processed, or the open message expires.
Drop(r) ==
    /\ phase[r] \in {"open", "dispatch"}
    /\ ReturnCharge(r)
    /\ UNCHANGED <<ahead, waiter, lock, cancels>>

\* Mutant of freed: a release names its own lane's share alone.
freed_own_lane(r) ==
    CASE phase[r] = "closing" -> {OpenPool, Floor(r)}
      [] phase[r] = "freed"   -> {Peer(r), Lane(r)}
      [] phase[r] = "expired" -> {Peer(r), Lane(r), OpenPool, Floor(r)}

\* What a charge that was returned freed.
freed(r) ==
    CASE phase[r] = "closing" -> {OpenPool, Floor(r)}
      [] phase[r] = "freed"   -> {Peer(r), Lane(r), Shared}
      [] phase[r] = "expired" -> {Peer(r), Lane(r), Shared, OpenPool, Floor(r)}

Owed(r) == phase[r] \in {"closing", "freed", "expired"}

\* Mutant of Release: nothing is scanned.
Release_silent(r) ==
    /\ ~lock.busy /\ Owed(r)
    /\ phase' = [phase EXCEPT ![r] = IF @ = "closing" THEN "dispatch" ELSE "idle"]
    /\ UNCHANGED <<ahead, waiter, charged, opened, lock, cancels>>

\* The thread that returned a charge scans what it freed.
Release(r) ==
    /\ ~lock.busy /\ Owed(r)
    /\ phase' = [phase EXCEPT ![r] = IF @ = "closing" THEN "dispatch" ELSE "idle"]
    /\ lock' = Scan(freed(r))
    /\ UNCHANGED <<ahead, waiter, charged, opened, cancels>>

Init ==
    /\ phase = [r \in Request |-> "idle"]
    /\ ahead = [r \in Request |-> {}]
    /\ waiter = [r \in Request |-> NoIndex]
    /\ charged = {}
    /\ opened = {}
    /\ lock = Free
    /\ cancels = 0

Next ==
    \/ Judge \/ Settle \/ Deliver
    \/ \E r \in Request :
        Arrive(r) \/ Claim(r) \/ Withdraw(r) \/ Abandon(r) \/ Close(r) \/ Drop(r) \/ Release(r)

Spec == Init /\ [][Next]_vars

\* The thread holding the lock goes on; one that waits for the lock gets it
\* although others take it again and again; a granted waiter is polled; an
\* admitted arrival is processed, an open message completes or expires.
Fairness ==
    /\ WF_vars(Judge \/ Settle \/ Deliver)
    /\ \A r \in Request : WF_vars(Claim(r) \/ Drop(r)) /\ SF_vars(Release(r))

FairSpec == Spec /\ Fairness

-----------------------------------------------------------------------------
(* Properties.                                                             *)

\* Type invariant: the waiters stand in one arrival order, only they are
\* indexed, and a charge is on the ledger exactly from its grant to its
\* return, through claims, completions, expiries and dropped waiters.
TypeOK ==
    /\ phase \in [Request -> Phase]
    /\ charged \subseteq Request /\ opened \subseteq charged
    /\ \A r \in Request :
        /\ phase[r] \in {"open", "closing", "dispatch"} => r \in charged
        /\ r \in charged => phase[r] \in {"granted", "open", "closing", "dispatch"}
        /\ phase[r] # "waiting" => waiter[r] = NoIndex
        /\ r \notin ahead[r] /\ \A v \in ahead[r] : ahead[v] \subseteq ahead[r]
    /\ \A v, w \in Ungranted : v \in ahead[w] \/ w \in ahead[v] \/ v = w

\* No event holds the lock and no thread owes a scan.
Quiet == ~lock.busy /\ \A r \in Request : ~Owed(r)

Admissible(w) == blockers(w, Earlier(w)) = {} /\ refusal_of(charged, opened, w) = {}

\* The Fixpoint law of resource_order.rs: once every event is over, no waiting
\* request is both unblocked and admissible.  It does not hold, for two
\* reasons: a waiter whose reservation is freed between the reading of its
\* footprint and that of its reliefs (the shortest trace), and a later refusal
\* that is demoted, are parked under Shared alone, and a release of their
\* lane stops at the earlier waiter there.
Fixpoint == Quiet => \A w \in Ungranted : ~Admissible(w)

\* The budget behind resource x has no room for r.
Refuses(x, r) ==
    \/ x = Peer(r) /\ ~FitsPeer(charged, r)
    \/ x = Shared /\ ~FitsMailbox(charged, r)
    \/ x = OpenPool /\ ~FitsOpen(opened, r)

\* What holds instead: an admissible waiter is left behind only under a
\* resource that an earlier waiter was refused by and that has no room for
\* that one at this moment either, so the event that serves the earlier one
\* reaches it too.
StrandedBehindRefused ==
    Quiet => \A w \in Ungranted : Admissible(w) =>
        \E v \in Earlier(w) :
            \E x \in waiter[v].refusal \cap waiter[w].parked : Refuses(x, v)

\* One refusal per resource, the invariant the stop rule of a scan rests on:
\* of two waiters refused by sets that share a resource, both are refused by
\* the same set.  The charges that other threads return between the reading
\* of a waiter's blockers and its refusal do not break it.
RefusalsAgree ==
    \A w \in Ungranted : \A v \in Earlier(w) :
        waiter[v].refusal # waiter[w].refusal => waiter[v].refusal \cap waiter[w].refusal = {}

\* However arrivals, expiries and the judgements of scans interleave, every
\* lane can still be given the whole of its fixed reservation, in arrivals
\* and in bytes, within the node's budget.
ReservationsKept ==
    /\ ReservationsFree(Counts(charged), Transfers, ReservedTransfers)
    /\ ReservationsFree(Sizes(charged), Bytes, ReservedBytes)

\* The arrivals of a stream are granted in the order they came, although a
\* later chunk is covered and would be admitted at once: the reassembler is
\* given the chunks of a message after the chunk that charges for them.
StreamOrder ==
    [][\A r \in Ungranted : phase'[r] = "granted" =>
            \A v \in Earlier(r) : Stream(v) # Stream(r)]_vars

Served(r) == phase[r] = "waiting" ~> phase[r] # "waiting"

OneBudget(r) == /\ Requests[r].charge = "Bytes"
                /\ \A q \in Request \ {r} : Requests[q].peer # Requests[r].peer

\* The Liveness law of resource_order.rs for a request that only one budget can
\* refuse: it is not starved, whatever its size, by the arrivals that keep
\* coming after it.  (One that two budgets refuse in turn holds only the one
\* that refused it last, and can be.)
OneBudgetServed == \A r \in {q \in Request : OneBudget(q)} : Served(r)

\* No wake-up is lost for good: once no further request arrives, every waiter
\* is served, whichever waiters are dropped and whatever releases interleave.
ServedOnceArrivalsStop ==
    <>[][\A r \in Request : phase[r] = "idle" => phase'[r] = "idle"]_vars
    => \A r \in Request : []<>(phase[r] # "waiting")
=============================================================================
