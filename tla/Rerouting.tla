------------------------------ MODULE Rerouting ------------------------------
(***************************************************************************)
(* A rerouted placement beside the other transfers                         *)
(* (crates/core/src/swarm/transport/rerouting.rs, its driver and shell,    *)
(* and outbound/capacity/view.rs): a send that is refused before the link  *)
(* accepted it waits, without a duration, for the event that may let it    *)
(* pass, and is sent again within a budget of deferrals.                   *)
(*                                                                         *)
(* The placement's attempts are the transfer Placement of                  *)
(* TransferCapacity.  Its route does not move and its link is not          *)
(* replaced, so the triggers are CapacityRelease ("capacity") and          *)
(* ChannelDrain ("channel").  The count of transfers that reached the      *)
(* hop's link and ended is kept relative to the last stamp, and no further *)
(* than the count it is compared with.                                     *)
(***************************************************************************)
EXTENDS TransferCapacity

CONSTANTS
    Placement,      \* the demand the placement sends
    Budget          \* REROUTING_BUDGET, the deferrals it tolerates

ASSUME PlacementAssumption ==
    Placement \in Demand /\ Budget \in Nat /\ IsFiniteSet(Demand)

\* A class's reservation covers less once others hold more.
ASSUME CoverAssumption ==
    \A s \in Scope, r \in Demand, H \in SUBSET Demand :
        \A G \in SUBSET H : Covers(s, H, r) => Covers(s, G, r)

VARIABLES
    env,        \* whether other transfers still arrive
    place,      \* where the placement stands
    cause,      \* why its last attempt was refused
    deferrals,  \* deferred sends so far
    reached,    \* transfers that ended after a frame reached the hop's link
    drained,    \* of those, the ones that released the hop's share since the stamp
    ahead,      \* transfers holding the hop's share at the stamp
    seen,       \* whether the hop had room when it was read
    notified    \* an event the placement listens to came since it listened

own == <<env, place, cause, deferrals, ahead, seen>>
all == <<vars, own, reached, drained, notified>>

Place == {"ready", "sending",
          "listen",     \* about to register its listeners
          "observe",    \* registered: about to read the hop
          "node",       \* about to read the node's capacity
          "asleep", "accepted", "failed", "stopped"}

Hop == PeerOf(Placement)

\* Room of one scope: the reservation, or the shared part past an empty queue.
has_room(s) ==
    /\ Fits(s, held[s], Placement)
    /\ Covers(s, held[s], Placement) \/ queue[s] = <<>>

\* Mutant of Drained: a transfer that ended before it reached the link is
\* waited for.
Drained_reached_only == drained >= ahead

\* Enough of the transfers ahead reached the link and ended, or none is left.
Drained == drained >= ahead \/ held[Hop] = {}

-----------------------------------------------------------------------------
(* What the steps of the transfers tell the placement.                     *)

\* The epochs of the scope: a waiter left its queue, a release is over.
Departed(s) == Len(queue'[s]) < Len(queue[s])
Released(s) == \E r \in Demand : phase[r] = "freed" /\ at[r] = s /\ phase'[r] # "freed"
Progressed == \E r \in reached : phase[r] = "freed" /\ phase'[r] = "idle"

\* Mutant of Event: departures from the queues are not listened to.
Event_releases_only ==
    IF cause = "channel" THEN Released(Hop) \/ Progressed
    ELSE \E s \in {Hop, Node} : Released(s)

Event ==
    IF cause = "channel" THEN Released(Hop) \/ Progressed
    ELSE \E s \in {Hop, Node} : Departed(s) \/ Released(s)

Listening == place \in {"observe", "node", "asleep"}

\* A step of transfer r, as the placement's listeners and the peer's count
\* of drained transfers see it.
Heard(r) ==
    /\ notified' = (notified \/ (Listening /\ Event))
    /\ drained' = IF /\ phase[r] = "release" /\ at[r] = Hop /\ r \in reached
                     /\ drained < ahead
                  THEN drained + 1 ELSE drained

\* The transfer gives up its last share: what it reached is counted.
Forget(r) == reached' = IF phase'[r] = "idle" THEN reached \ {r} ELSE reached

Other(r) ==
    /\ r # Placement
    /\ \/ env /\ Acquire(r) /\ UNCHANGED reached
       \/ (Proceed(r) \/ Poll(r) \/ Cancel(r)) /\ Forget(r)
       \/ End(r) /\ (UNCHANGED reached \/ (PeerOf(r) = Hop /\ reached' = reached \cup {r}))
    /\ Heard(r)
    /\ UNCHANGED own

-----------------------------------------------------------------------------
(* The placement.                                                          *)

\* attempt: the send starts.
Attempt ==
    /\ place = "ready"
    /\ Acquire(Placement)
    /\ place' = "sending"
    /\ cause' = "none" /\ ahead' = 0 /\ drained' = 0 /\ seen' = FALSE /\ notified' = FALSE
    /\ UNCHANGED <<env, deferrals, reached>>

\* The send goes on; where a scope refuses it, or its wait runs out of time,
\* it is refused for want of capacity.
Send ==
    /\ Proceed(Placement) \/ Poll(Placement) \/ Cancel(Placement)
    /\ cause' = IF /\ phase[Placement] \in {"share", "wait"}
                   /\ phase'[Placement] \in {"idle", "release"}
                THEN "capacity" ELSE cause
    /\ Forget(Placement) /\ Heard(Placement)
    /\ UNCHANGED <<env, place, deferrals, ahead, seen>>

\* The link accepts the first frame.
Accept ==
    /\ End(Placement)
    /\ place' = "accepted"
    /\ reached' = reached \cup {Placement}
    /\ UNCHANGED <<env, cause, deferrals, drained, ahead, seen, notified>>

\* The link does not take the first frame in time: others are ahead of it.
Jammed ==
    /\ End(Placement)
    /\ env \/ \E r \in held[Hop] \ {Placement} : phase[r] = "held"
    /\ cause' = "channel"
    /\ UNCHANGED <<env, place, deferrals, reached, drained, ahead, seen, notified>>

\* Mutant of after: the refusal is published before the shares are given up.
after_early ==
    /\ place = "sending" /\ cause # "none"
    /\ IF deferrals + 1 > Budget
       THEN place' = "failed" /\ UNCHANGED <<deferrals, ahead, drained>>
       ELSE /\ place' = "listen"
            /\ deferrals' = deferrals + 1
            /\ ahead' = IF cause = "channel" THEN Cardinality(held[Hop]) ELSE 0
            /\ drained' = 0
    /\ UNCHANGED <<vars, env, cause, reached, seen, notified>>

\* The refusal is published, once the send gave up its shares: exhausted, or
\* the hop's progress is stamped and the wait begins.
after ==
    /\ place = "sending" /\ phase[Placement] = "idle"
    /\ IF deferrals + 1 > Budget
       THEN place' = "failed" /\ UNCHANGED <<deferrals, ahead, drained>>
       ELSE /\ place' = "listen"
            /\ deferrals' = deferrals + 1
            /\ ahead' = IF cause = "channel" THEN Cardinality(held[Hop]) ELSE 0
            /\ drained' = 0
    /\ UNCHANGED <<vars, env, cause, reached, seen, notified>>

\* One iteration of the wait: listen, read, and sleep if not triggered.
Listen ==
    /\ place = "listen"
    /\ place' = "observe"
    /\ notified' = FALSE
    /\ UNCHANGED <<vars, env, cause, deferrals, reached, drained, ahead, seen>>

Observe ==
    /\ place = "observe"
    /\ IF cause = "channel"
       THEN place' = (IF Drained THEN "ready" ELSE "asleep") /\ UNCHANGED seen
       ELSE place' = "node" /\ seen' = has_room(Hop)
    /\ UNCHANGED <<vars, env, cause, deferrals, reached, drained, ahead, notified>>

ObserveNode ==
    /\ place = "node"
    /\ place' = IF seen /\ has_room(Node) THEN "ready" ELSE "asleep"
    /\ UNCHANGED <<vars, env, cause, deferrals, reached, drained, ahead, seen, notified>>

Wake ==
    /\ place = "asleep" /\ notified
    /\ place' = "listen"
    /\ UNCHANGED <<vars, env, cause, deferrals, reached, drained, ahead, seen, notified>>

\* The caller stops the operation; seen only before an iteration.
Stop ==
    /\ place \in {"listen", "asleep"}
    /\ place' = "stopped"
    /\ UNCHANGED <<vars, env, cause, deferrals, reached, drained, ahead, seen, notified>>

\* No further transfer arrives, and none is on its way to be admitted.
EnvStops ==
    /\ env /\ env' = FALSE
    /\ \A r \in Demand \ {Placement} : phase[r] \notin {"reserve", "share", "wait"}
    /\ UNCHANGED <<vars, place, cause, deferrals, reached, drained, ahead, seen, notified>>

ReroutingInit ==
    /\ Init
    /\ env = TRUE /\ place = "ready" /\ cause = "none" /\ deferrals = 0
    /\ reached = {} /\ drained = 0 /\ ahead = 0 /\ seen = FALSE /\ notified = FALSE

Placing == \/ Attempt \/ Send \/ Accept \/ Jammed \/ after
           \/ Listen \/ Observe \/ ObserveNode \/ Wake

ReroutingNext == (\E r \in Demand : Other(r)) \/ Placing \/ Stop \/ EnvStops

ReroutingSpec == ReroutingInit /\ [][ReroutingNext]_all

\* The fairness of the transfers, and that of the placement's own task.
ReroutingFairness ==
    /\ \A r \in Demand \ {Placement} :
        /\ WF_all(Proceed(r) /\ Other(r))
        /\ WF_all(r \in woken /\ Poll(r) /\ Other(r))
        /\ WF_all(End(r) /\ Other(r))
    /\ WF_all(Attempt \/ after \/ Listen \/ Observe \/ ObserveNode \/ Wake \/ Accept)
    /\ WF_all(Send /\ (phase[Placement] = "wait" => Placement \in woken))

FairRerouting == ReroutingSpec /\ ReroutingFairness

-----------------------------------------------------------------------------
(* Properties.                                                             *)

\* Type invariant of the placement: its attempt is under way exactly while
\* it is sending, or ends after it was accepted.
PlaceOK ==
    /\ place \in Place /\ deferrals \in 0..Budget
    /\ drained \in 0..ahead /\ ahead \in 0..Cardinality(Demand)
    /\ reached \subseteq Demand
    /\ place \notin {"sending", "accepted"} => phase[Placement] = "idle"

\* No event is lost: a placement that sleeps although its trigger holds was
\* notified, or a thread that freed a share is about to notify it.
NoMissedEvent ==
    place = "asleep" /\ ~notified =>
        \/ \E r \in Demand : phase[r] = "freed" /\ at[r] \in {Hop, Node}
        \/ IF cause = "channel" THEN ~Drained ELSE ~(has_room(Hop) /\ has_room(Node))

\* Law (L1) on this part of the environment: once no further transfer
\* arrives, a placement with Quiescent deferrals left is accepted.
Quiescent == 2
AcceptedOnceQuiet ==
    ~env /\ deferrals + Quiescent <= Budget ~> place \in {"accepted", "stopped"}
=============================================================================
