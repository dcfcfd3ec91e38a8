--------------------------- MODULE TransferCapacity ---------------------------
(***************************************************************************)
(* Outbound capacity: how a transfer takes a share of its peer's capacity  *)
(* and then of the node's, and gives them back                             *)
(* (crates/core/src/swarm/transport/outbound/capacity.rs), over the        *)
(* first-come-first-served queue of fair_admission/wait_queue.rs.          *)
(*                                                                         *)
(* A scope has two locks, its reservations' and its queue's.  An admission *)
(* attempt takes the first inside the second; a release takes them one     *)
(* after the other, so a share is free before the queue's front is armed,  *)
(* and other threads' steps fall in between.  A waiter attempts only when  *)
(* its task is polled, is at the front and was armed since its last        *)
(* attempt.                                                                *)
(***************************************************************************)
EXTENDS Naturals, Sequences, FiniteSetsExt

CONSTANTS
    Peers, Node,        \* the scopes: one for every peer, and the node's
    Demands,            \* id -> [peer, class, bytes, waits]
    Fits(_, _, _),      \* ReservationState::try_reserve: scope, holders, demand
    Covers(_, _, _),    \* ReservationState::reservation_covers
    Large(_, _),        \* scope, demand: larger than its class's fixed request
    MaxWaiters, MaxCost \* the wait budget all queues share

Demand == DOMAIN Demands
Scope == Peers \cup {Node}
PeerOf(r) == Demands[r].peer
Bytes(S) == MapThenSumSet(LAMBDA r : Demands[r].bytes, S)

\* A demand fits less once others hold more.
ASSUME ReservationAssumption ==
    \A s \in Scope, r \in Demand, H \in SUBSET Demand :
        /\ Fits(s, H, r) \in BOOLEAN /\ Covers(s, H, r) \in BOOLEAN /\ Large(s, r) \in BOOLEAN
        /\ \A G \in SUBSET H : Fits(s, H, r) => Fits(s, G, r)

ASSUME DemandAssumption ==
    /\ Node \notin Peers
    /\ \A r \in Demand : Demands[r].peer \in Peers
    /\ \A r \in Demand : Demands[r].waits \in BOOLEAN

VARIABLES
    phase,      \* demand -> where its sender or its transfer stands
    at,         \* demand -> the scope it stands at
    held,       \* scope -> demands holding a share of it
    queue,      \* scope -> waiting demands, in order
    armed,      \* waiters armed since their last attempt
    waker,      \* waiters whose task left its waker with the queue
    woken       \* waiters whose task is due to be polled

vars == <<phase, at, held, queue, armed, waker, woken>>

Phase == {"idle",
          "reserve",    \* about to try the class's reservation
          "share",      \* not covered by it: about to try the shared part
          "wait",       \* in the queue of the scope
          "held",       \* both shares held: the transfer is under way
          "release",    \* about to return its share
          "freed"}      \* share returned, the queue's front not yet armed

Waiters == UNION {{queue[s][i] : i \in DOMAIN queue[s]} : s \in Scope}
AtFront(r) == queue[at[r]] # <<>> /\ Head(queue[at[r]]) = r

-----------------------------------------------------------------------------
(* The fair-wait queue.                                                    *)

\* Mutant of arm_front: the front is not armed.
arm_front_skipped(q) == {}

\* The front of queue q, unless it is armed already.
arm_front(q) == IF q = <<>> \/ Head(q) \in armed THEN {} ELSE {Head(q)}

\* Waiter r left (or no one); the waiters in new are armed, and the tasks of
\* those that left a waker are woken.
Armed(r, new) ==
    /\ armed' = (armed \ {r}) \cup new
    /\ woken' = (woken \ {r}) \cup (new \cap waker)
    /\ waker' = waker \ {r}

\* Queue q without its entry at position i.
remove(q, i) == [j \in 1..(Len(q) - 1) |-> IF j < i THEN q[j] ELSE q[j + 1]]

\* The wait budget admits one more waiter of this cost.
BudgetAdmits(r) ==
    /\ Cardinality(Waiters) + 1 <= MaxWaiters
    /\ Bytes(Waiters) + Demands[r].bytes <= MaxCost

-----------------------------------------------------------------------------
(* Taking the shares: first the peer's, then the node's.                   *)

\* validate_memory_request: the demand fits both scopes when they are empty.
Valid(r) == Fits(PeerOf(r), {}, r) /\ Fits(Node, {}, r)

Acquire(r) ==
    /\ phase[r] = "idle" /\ Valid(r)
    /\ phase' = [phase EXCEPT ![r] = "reserve"]
    /\ at' = [at EXCEPT ![r] = PeerOf(r)]
    /\ UNCHANGED <<held, queue, armed, waker, woken>>

\* The share of at[r] is taken: go on to the node's, or start the transfer.
Admitted(r) ==
    /\ held' = [held EXCEPT ![at[r]] = @ \cup {r}]
    /\ phase' = [phase EXCEPT ![r] = IF at[r] = Node THEN "held" ELSE "reserve"]
    /\ at' = [at EXCEPT ![r] = Node]

\* Mutant of Refused: the share of the peer is forgotten.
Refused_leaking(r) ==
    /\ phase' = [phase EXCEPT ![r] = "idle"]
    /\ at' = [at EXCEPT ![r] = PeerOf(r)]

\* The scope refuses: a share of the peer taken before is returned.
Refused(r) ==
    /\ phase' = [phase EXCEPT ![r] = IF at[r] = Node THEN "release" ELSE "idle"]
    /\ at' = [at EXCEPT ![r] = PeerOf(r)]

\* The class's reservation first, whatever is queued.
TryReserved(r) ==
    /\ phase[r] = "reserve"
    /\ \/ /\ Covers(at[r], held[at[r]], r) /\ Fits(at[r], held[at[r]], r)
          /\ Admitted(r)
       \/ /\ ~(Covers(at[r], held[at[r]], r) /\ Fits(at[r], held[at[r]], r))
          /\ phase' = [phase EXCEPT ![r] = "share"]
          /\ UNCHANGED <<at, held>>
    /\ UNCHANGED <<queue, armed, waker, woken>>

MayWait(r) == Demands[r].waits /\ Large(at[r], r)

\* Mutant of try_admit_unqueued: it does not look at the queue.
try_admit_overtaking(r) ==
    /\ phase[r] = "share" /\ ~MayWait(r)
    /\ IF Fits(at[r], held[at[r]], r)
       THEN Admitted(r) ELSE Refused(r) /\ UNCHANGED held
    /\ UNCHANGED <<queue, armed, waker, woken>>

\* A request that does not wait: the shared part only while no one waits.
try_admit_unqueued(r) ==
    /\ phase[r] = "share" /\ ~MayWait(r)
    /\ IF queue[at[r]] = <<>> /\ Fits(at[r], held[at[r]], r)
       THEN Admitted(r) ELSE Refused(r) /\ UNCHANGED held
    /\ UNCHANGED <<queue, armed, waker, woken>>

\* A request that may wait: admitted, queued, or refused by the wait budget.
admit_or_wait(r) ==
    LET s == at[r] IN
    /\ phase[r] = "share" /\ MayWait(r)
    /\ IF queue[s] = <<>> /\ Fits(s, held[s], r)
       THEN Admitted(r) /\ UNCHANGED <<queue, woken>>
       ELSE /\ UNCHANGED held
            /\ IF BudgetAdmits(r)
               THEN /\ queue' = [queue EXCEPT ![s] = Append(@, r)]
                    /\ phase' = [phase EXCEPT ![r] = "wait"]
                    /\ woken' = woken \cup {r}      \* its task goes on to poll
                    /\ UNCHANGED at
               ELSE Refused(r) /\ UNCHANGED <<queue, woken>>
    /\ UNCHANGED <<armed, waker>>

\* A waiter that leaves the queue takes its entry with it; q is the rest.
Departs(r, q) == queue' = [queue EXCEPT ![at[r]] = q]

\* The waiter's task is polled: it leaves its waker, and attempts if it is
\* at the front and armed.
Poll(r) ==
    LET s == at[r] IN
    /\ phase[r] = "wait"
    /\ IF ~AtFront(r) \/ r \notin armed
       THEN /\ waker' = waker \cup {r} /\ woken' = woken \ {r}
            /\ UNCHANGED <<phase, at, held, queue, armed>>
       ELSE IF ~Fits(s, held[s], r)
       THEN /\ armed' = armed \ {r}
            /\ waker' = waker \cup {r} /\ woken' = woken \ {r}
            /\ UNCHANGED <<phase, at, held, queue>>
       ELSE /\ Admitted(r)
            /\ Departs(r, Tail(queue[s]))
            /\ Armed(r, arm_front(Tail(queue[s])))

\* Mutant of Cancel: the next front is not armed.
Cancel_unarmed(r) ==
    /\ phase[r] = "wait"
    /\ \E i \in DOMAIN queue[at[r]] :
        /\ queue[at[r]][i] = r
        /\ Departs(r, remove(queue[at[r]], i))
    /\ Armed(r, {})
    /\ Refused(r)
    /\ UNCHANGED held

\* The wait is given up (its deadline, or its sender was dropped): a front
\* that leaves arms the next one.
Cancel(r) ==
    /\ phase[r] = "wait"
    /\ \E i \in DOMAIN queue[at[r]] :
        LET q == remove(queue[at[r]], i) IN
        /\ queue[at[r]][i] = r
        /\ Departs(r, q)
        /\ Armed(r, IF i = 1 THEN arm_front(q) ELSE {})
    /\ Refused(r)
    /\ UNCHANGED held

-----------------------------------------------------------------------------
(* Returning the shares: the peer's, then the node's.                      *)

\* The transfer ends.
End(r) ==
    /\ phase[r] = "held"
    /\ phase' = [phase EXCEPT ![r] = "release"]
    /\ at' = [at EXCEPT ![r] = PeerOf(r)]
    /\ UNCHANGED <<held, queue, armed, waker, woken>>

\* The share goes back under the lock of the reservations.
Release(r) ==
    /\ phase[r] = "release"
    /\ held' = [held EXCEPT ![at[r]] = @ \ {r}]
    /\ phase' = [phase EXCEPT ![r] = "freed"]
    /\ UNCHANGED <<at, queue, armed, waker, woken>>

\* Then the front of the queue is armed, under the queue's lock.
WakeFront(r) ==
    /\ phase[r] = "freed"
    /\ Armed(r, arm_front(queue[at[r]]))
    /\ phase' = [phase EXCEPT ![r] = IF r \in held[Node] THEN "release" ELSE "idle"]
    /\ at' = [at EXCEPT ![r] = IF r \in held[Node] THEN Node ELSE @]
    /\ UNCHANGED <<held, queue>>

-----------------------------------------------------------------------------
Init ==
    /\ phase = [r \in Demand |-> "idle"]
    /\ at = [r \in Demand |-> PeerOf(r)]
    /\ held = [s \in Scope |-> {}]
    /\ queue = [s \in Scope |-> <<>>]
    /\ armed = {} /\ waker = {} /\ woken = {}

\* A step of the sender or of the transfer that its own thread takes.
Proceed(r) == \/ TryReserved(r) \/ try_admit_unqueued(r) \/ admit_or_wait(r)
              \/ Release(r) \/ WakeFront(r)

Next == \E r \in Demand :
    Acquire(r) \/ Proceed(r) \/ Poll(r) \/ Cancel(r) \/ End(r)

Spec == Init /\ [][Next]_vars

\* Threads go on, a task that was woken is polled, a transfer ends (its
\* delivery has a deadline).
Fairness == \A r \in Demand :
    /\ WF_vars(Proceed(r))
    /\ WF_vars(r \in woken /\ Poll(r))
    /\ WF_vars(End(r))

FairSpec == Spec /\ Fairness

-----------------------------------------------------------------------------
(* Properties.                                                             *)

\* The phases in which a demand holds its peer's share, and may hold or holds
\* the node's.
HoldsPeer(r) ==
    \/ phase[r] = "held"
    \/ phase[r] \in {"reserve", "share", "wait"} /\ at[r] = Node
    \/ phase[r] = "release" /\ at[r] # Node
MayHoldNode(r) ==
    \/ phase[r] = "held" \/ phase[r] = "release"
    \/ phase[r] = "freed" /\ at[r] # Node
MustHoldNode(r) == phase[r] = "held" \/ (phase[r] = "release" /\ at[r] = Node)

Queued(r, s) == \E i \in DOMAIN queue[s] : queue[s][i] = r

\* Type invariant: a demand holds a share of a scope exactly between its
\* admission there and its release, half reservations included, and stands
\* once in the queue its sender waits in and in no other.
TypeOK ==
    /\ phase \in [Demand -> Phase] /\ at \in [Demand -> Scope]
    /\ held \in [Scope -> SUBSET Demand] /\ queue \in [Scope -> Seq(Demand)]
    /\ armed \subseteq Demand /\ waker \subseteq Demand /\ woken \subseteq Demand
    /\ \A r \in Demand :
        /\ at[r] \in {PeerOf(r), Node}
        /\ \A s \in Peers : r \in held[s] <=> s = PeerOf(r) /\ HoldsPeer(r)
        /\ r \in held[Node] => MayHoldNode(r)
        /\ MustHoldNode(r) => r \in held[Node]
        /\ \A s \in Scope : Queued(r, s) <=> phase[r] = "wait" /\ at[r] = s
        /\ r \in armed \cup waker \cup woken => phase[r] = "wait"
    /\ \A s \in Scope : \A i, j \in DOMAIN queue[s] : queue[s][i] = queue[s][j] => i = j

\* No wake-up is lost: the front of a queue that fits is armed and due to be
\* polled, or a thread that freed a share of the scope is about to arm it.
NoLostWake ==
    \A s \in Scope :
        queue[s] # <<>> /\ Fits(s, held[s], Head(queue[s])) =>
            \/ Head(queue[s]) \in armed \cap woken
            \/ \E r \in Demand : phase[r] = "freed" /\ at[r] = s

Abstract == INSTANCE FairShare

\* The queues, the wakers and the threads implement first-come-first-served
\* scopes in which the first waiter is served once it fits.
ImplementsFairShare == Abstract!FairSpec

\* A demand of the class of the first waiter takes its reservation past it.
Overtakes(s) ==
    /\ queue[s] # <<>>
    /\ \E q \in held'[s] \ held[s] :
        q # Head(queue[s]) /\ Demands[q].class = Demands[Head(queue[s])].class

\* Every wait ends, although transfers wait for the node's share with the
\* peer's in their hands: a waiter is admitted, refused or gives up, unless
\* small demands of a class take its reservation past a waiter for ever.
EveryWaitEnds ==
    \A r \in Demand :
        \/ []<>(phase[r] # "wait")
        \/ []<><<\E s \in Scope : Overtakes(s)>>_vars
=============================================================================
