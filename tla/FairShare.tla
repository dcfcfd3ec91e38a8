------------------------------ MODULE FairShare ------------------------------
(***************************************************************************)
(* What the scopes of outbound capacity promise                            *)
(* (crates/core/src/swarm/transport/outbound/capacity.rs over              *)
(* fair_admission/wait_queue.rs), without wakers, arming or threads:       *)
(* every scope is a first-come-first-served queue for the shared part of   *)
(* its capacity beside the reservations of the classes, and a waiter at    *)
(* the front of its queue that fits is served.                             *)
(***************************************************************************)
EXTENDS Naturals, Sequences

CONSTANTS
    Scope,          \* the scopes of capacity: the peers and the node
    Demand,         \* the transfers
    Fits(_, _, _),  \* scope, holders, demand: the scope can hold the demand too
    Covers(_, _, _) \* ... and the fixed reservation of its class covers it

VARIABLES
    held,           \* scope -> demands holding a share of it
    queue           \* scope -> demands waiting for its shared part, in order

vars == <<held, queue>>

\* Queue q without its entry at position i.
remove(q, i) == [j \in 1..(Len(q) - 1) |-> IF j < i THEN q[j] ELSE q[j + 1]]

Waiting(s) == {queue[s][i] : i \in DOMAIN queue[s]}

Init ==
    /\ held = [s \in Scope |-> {}]
    /\ queue = [s \in Scope |-> <<>>]

Join(s, r) == held' = [held EXCEPT ![s] = @ \cup {r}]

\* A demand takes a share of its class's reservation, whatever is queued.
TakeReserved(s, r) ==
    /\ r \notin held[s] \cup Waiting(s)
    /\ Covers(s, held[s], r) /\ Fits(s, held[s], r)
    /\ Join(s, r)
    /\ UNCHANGED queue

\* A demand borrows from the shared part, only while no one waits for it.
Borrow(s, r) ==
    /\ r \notin held[s] /\ queue[s] = <<>>
    /\ Fits(s, held[s], r)
    /\ Join(s, r)
    /\ UNCHANGED queue

\* A demand that cannot borrow now waits behind the others.
Enqueue(s, r) ==
    /\ r \notin held[s] \cup Waiting(s)
    /\ queue[s] = <<>> => ~Fits(s, held[s], r)
    /\ queue' = [queue EXCEPT ![s] = Append(@, r)]
    /\ UNCHANGED held

\* The first waiter is served once it fits.
Serve(s, r) ==
    /\ queue[s] # <<>> /\ r = Head(queue[s])
    /\ Fits(s, held[s], r)
    /\ Join(s, r)
    /\ queue' = [queue EXCEPT ![s] = Tail(@)]

\* A waiter gives up.
Leave(s, r) ==
    /\ \E i \in DOMAIN queue[s] :
        queue[s][i] = r /\ queue' = [queue EXCEPT ![s] = remove(@, i)]
    /\ UNCHANGED held

\* A holder returns its share.
GiveBack(s, r) ==
    /\ r \in held[s]
    /\ held' = [held EXCEPT ![s] = @ \ {r}]
    /\ UNCHANGED queue

Next == \E s \in Scope, r \in Demand :
    \/ TakeReserved(s, r) \/ Borrow(s, r) \/ Enqueue(s, r)
    \/ Serve(s, r) \/ Leave(s, r) \/ GiveBack(s, r)

Spec == Init /\ [][Next]_vars

\* No wake-up is lost: a waiter that stays first and fits is served.
Fairness == \A s \in Scope, r \in Demand : WF_vars(Serve(s, r))

FairSpec == Spec /\ Fairness
=============================================================================
