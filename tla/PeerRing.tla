------------------------------- MODULE PeerRing -------------------------------
(***************************************************************************)
(* One node's ring state and everything that may change it.                *)
(*                                                                         *)
(* PeerRing::transition (crates/core/src/dht/chord/peer_ring.rs) runs each *)
(* pure step of dht/topology.rs under one mutex, so one TopologyEvent is   *)
(* one action.  SwarmTransport takes the connection-lifecycle boundary     *)
(* around every transition that depends on, or changes, which peers are    *)
(* admitted (swarm/transport/{pending,connection}.rs), so the lifecycle    *)
(* check and the transition are one action too.                            *)
(*                                                                         *)
(* The environment is adversarial within the protocol: transports come up  *)
(* and break at any time, and a report of a round that was really started  *)
(* may carry any content and arrive late, twice, or never: a query stays   *)
(* in `sent` and can be answered any number of times until Forget drops    *)
(* it.  Request identities are UUIDs, never used twice by the code; here   *)
(* an identity may be drawn again once no message and no token holds it.   *)
(***************************************************************************)
EXTENDS FingerConvergence

CONSTANTS
    Local,      \* this node's identifier
    Peers       \* identifiers of the other nodes

ASSUME PeersAssumption == Local \in Did /\ Peers \subseteq Did \ {Local}

VARIABLES
    successors_,    \* members of the successor list
    predecessor_,   \* predecessor or None
    fingers,        \* finger table
    convergence,    \* finger-convergence ledger
    pending,        \* pending_stabilization token or None
    sync,           \* successor-sync token of each reporter, or None
    lifecycle,      \* connection record of each peer
    ready,          \* peers whose transport can make progress
    queued,         \* pending_finger_updates: proof waiting on a handshake
    sent,           \* queries sent: stabilization, sync, finger lookup
    claimed,        \* history: identities some report has claimed
    overtaken       \* history: slots re-hinted since the live lookup began

topology == <<successors_, predecessor_, fingers, convergence, pending>>
links    == <<lifecycle, ready, queued>>
rounds   == <<sent, claimed>>
vars     == <<topology, sync, links, rounds, overtaken>>

-----------------------------------------------------------------------------
Option(S) == S \cup {None}
Token == [reporter : Peers, id : Id, phase : {"Requested", "Processing"}]
SyncToken == [id : Id, phase : {"Requested", "Processing"}]
Query == [kind : {"stabilize", "sync"}, to : Peers, id : Id]
Lookup == [kind : {"finger"}, to : Slot, id : Id]

ASSUME TokensAssumption == None \notin Token /\ None \notin SyncToken

Attempt ==
    [phase : {"Idle", "AwaitingReport", "AwaitingAdmission"},
     request : Option(Request), epoch : 0 .. MaxEpoch,
     successor : Option(Peers \cup {Local}), end : Option(Slot), left : Nat]

Convergence ==
    [epoch : 0 .. MaxEpoch, changedAt : [Slot -> 0 .. MaxEpoch],
     verified : [Slot -> BOOLEAN], attempt : Attempt, since : 0 .. MinInterval,
     streak : 0 .. MaxStreak, backoff : 0 .. MaxBackoff, cursor : 0 .. Slots]

TypeOK ==
    /\ successors_ \in SUBSET Peers
    /\ predecessor_ \in Option(Peers)
    /\ fingers \in [Slot -> Option(Peers)]
    /\ convergence \in Convergence
    /\ pending \in Option(Token)
    /\ sync \in [Peers -> Option(SyncToken)]
    /\ lifecycle \in [Peers -> {"absent", "pending", "active"}]
    /\ ready \in SUBSET Peers
    /\ queued \in [Peers -> Option(Request)]
    /\ sent \in SUBSET (Query \cup Lookup)
    /\ claimed \in SUBSET Id
    /\ overtaken \in SUBSET Slot

Init ==
    /\ successors_ = {} /\ predecessor_ = None
    /\ fingers = [i \in Slot |-> None]
    /\ convergence = NewConvergence
    /\ pending = None
    /\ sync = [p \in Peers |-> None]
    /\ lifecycle = [p \in Peers |-> "absent"]
    /\ ready = {}
    /\ queued = [p \in Peers |-> None]
    /\ sent = {} /\ claimed = {}
    /\ overtaken = {}

-----------------------------------------------------------------------------
head == successor_head(Local, successors_)
Active == {p \in Peers : lifecycle[p] = "active"}
Routable == Active \cap ready

\* Mutant of Referenced: fingers are forgotten.
ReferencedByRingOnly == successors_ \cup ({predecessor_} \ {None})

\* Peers that occupy a successor, predecessor or finger slot.
Referenced == successors_ \cup ({predecessor_} \ {None})
              \cup ({fingers[i] : i \in Slot} \ {None})

\* Identities held by a message or a token; a fresh UUID is none of them.
InUse == {q.id : q \in sent}
         \cup {t.id : t \in {pending, convergence.attempt.request} \ {None}}
         \cup {sync[p].id : p \in {r \in Peers : sync[r] # None}}
         \cup {queued[p].id : p \in {r \in Peers : queued[r] # None}}

\* First slot whose finger needs a routed lookup: those below are proved by
\* stabilization with the successor head.
first_remote_slot ==
    LET end == finger_proof_end(Local, head, 0)
    IN  IF head = None \/ end = None THEN 0 ELSE end + 1

\* Mutant of Commit: the head may move under a live stabilization token.
CommitKeepsToken(succ, fing, conv, pend) ==
    /\ successors_' = succ
    /\ fingers' = fing
    /\ convergence' = conv
    /\ pending' = pend
    /\ sync' = IF succ = successors_ THEN sync
               ELSE [p \in Peers |-> IF p \in succ THEN sync[p] ELSE None]
    /\ overtaken' = IF conv.attempt.phase = "Idle" THEN {}
                    ELSE overtaken \cup {i \in Slot : fing[i] # fingers[i]}

\* Mutant of Commit: departed successors keep their sync tokens.
CommitKeepsSync(succ, fing, conv, pend) ==
    /\ successors_' = succ
    /\ fingers' = fing
    /\ convergence' = conv
    /\ pending' = IF successor_head(Local, succ) = head THEN pend ELSE None
    /\ UNCHANGED sync
    /\ overtaken' = IF conv.attempt.phase = "Idle" THEN {}
                    ELSE overtaken \cup {i \in Slot : fing[i] # fingers[i]}

\* The part of a committed transition that is common to all of them: the head
\* law of topology::step clears a stabilization token whose head moved, and
\* PeerRing::transition prunes the sync tokens of departed successors.
Commit(succ, fing, conv, pend) ==
    /\ successors_' = succ
    /\ fingers' = fing
    /\ convergence' = conv
    /\ pending' = IF successor_head(Local, succ) = head THEN pend ELSE None
    /\ sync' = IF succ = successors_ THEN sync
               ELSE [p \in Peers |-> IF p \in succ THEN sync[p] ELSE None]
    /\ overtaken' = IF conv.attempt.phase = "Idle" THEN {}
                    ELSE overtaken \cup {i \in Slot : fing[i] # fingers[i]}

\* Replace the finger table and date the slots that change.
rehint(conv, before, after) == invalidate_hint_changes(conv, before, after)

\* TopologyEvent::Admit, with the finger proof that waited on the peer.
StepAdmit(p, proof) ==
    LET applied == IF proof = None THEN [c |-> convergence, fingers |-> fingers]
                   ELSE apply_result(Local, convergence, fingers, proof, p)
        joined  == finger_join(Local, applied.fingers, {p})
    IN  /\ Commit(sorted_successors(Local, successors_ \cup {p}), joined,
                  rehint(applied.c, applied.fingers, joined), pending)
        /\ UNCHANGED predecessor_

\* TopologyEvent::Remove.  `replacement` is None for SuccessorRemoval::Preserve.
StepRemove(p, replacement) ==
    LET kept  == IF p = head /\ replacement # None
                 THEN sorted_successors(Local, replacement \ {p})
                 ELSE successors_ \ {p}
        hints == remove_finger_peer(fingers, p)
        conv  == rehint(convergence, fingers, hints)
    IN  /\ Commit(kept, hints,
                  IF kept = {} THEN invalidate_all_evidence(conv) ELSE conv, pending)
        /\ predecessor_' = IF predecessor_ = p THEN None ELSE predecessor_

\* A transition that touches the ledger only.
StepLedger(conv) == /\ Commit(successors_, fingers, conv, pending)
                    /\ UNCHANGED predecessor_

-----------------------------------------------------------------------------
(* Connection lifecycle. *)

\* A pending record is reserved for a peer without one.
Reserve(p) ==
    /\ lifecycle[p] = "absent"
    /\ lifecycle' = [lifecycle EXCEPT ![p] = "pending"]
    /\ ready' = ready \ {p}
    /\ UNCHANGED <<topology, sync, queued, rounds, overtaken>>

\* The transport of a recorded peer starts or stops making progress.
TransportChange(p) ==
    /\ lifecycle[p] # "absent"
    /\ ready' = IF p \in ready THEN ready \ {p} ELSE ready \cup {p}
    /\ UNCHANGED <<topology, sync, lifecycle, queued, rounds, overtaken>>

\* commit_connection_admission: the peer becomes active in the transition
\* that admits it to the ring with the proof queued on its handshake.
AdmitPending(p) ==
    /\ lifecycle[p] = "pending" /\ p \in ready
    /\ StepAdmit(p, queued[p])
    /\ lifecycle' = [lifecycle EXCEPT ![p] = "active"]
    /\ queued' = [queued EXCEPT ![p] = None]
    /\ UNCHANGED <<ready, rounds>>

\* Cancellation, expiry, or yielding to a crossing offer: an unadmitted
\* record is released (or replaced by a new one) and its queued proof is
\* charged as a failed lookup.
ReleasePending(p, next) ==
    /\ lifecycle[p] = "pending"
    /\ lifecycle' = [lifecycle EXCEPT ![p] = next]
    /\ ready' = ready \ {p}
    /\ queued' = [queued EXCEPT ![p] = None]
    /\ IF queued[p] = None
       THEN UNCHANGED <<topology, sync, overtaken>>
       ELSE StepLedger(cancel(convergence, fingers, queued[p]))
    /\ UNCHANGED rounds

\* join_routable_peer: a sync report led back to a peer already active.
JoinRoutable(p) ==
    /\ p \in Routable
    /\ StepAdmit(p, None)
    /\ UNCHANGED <<links, rounds>>

\* retire_active_connection_if around a removal: the record and the routes
\* go together.
Retire(p, replacement) ==
    /\ lifecycle[p] = "active"
    /\ StepRemove(p, replacement)
    /\ lifecycle' = [lifecycle EXCEPT ![p] = "absent"]
    /\ ready' = ready \ {p}
    /\ queued' = [queued EXCEPT ![p] = None]
    /\ UNCHANGED rounds

\* The transport closed: leave_dht_attempt.
Disconnect(p) == Retire(p, None)

\* The replacements a removed head may be succeeded by.
LiveReplacements(p) ==
    IF p = head THEN sorted_successors(Local, Routable \ {p}) ELSE {}

\* The cleaner selected the peer for removal: disconnect_unavailable.  It
\* decides on readings made before the boundary is taken (the transport, a
\* liveness probe, the topology), and under it re-checks the attempt only:
\* the peer may have recovered in between, so no reading is a guard here.
DisconnectUnavailable(p) == Retire(p, LiveReplacements(p))

\* retire_unless_referenced: eviction for capacity.
EvictUnreferenced(p) == p \notin Referenced /\ Retire(p, None)

\* remove_unavailable_topology on an active peer: a disconnected peer seen in
\* a non-head slot is pruned from the ring while its transport may recover.
\* That reading too is over when the removal acts: by then the peer may be
\* ready, unreferenced or the head, and only its attempt is compared.
PruneDisconnected(p) ==
    /\ lifecycle[p] = "active"
    /\ StepRemove(p, LiveReplacements(p))
    /\ UNCHANGED <<links, rounds>>

-----------------------------------------------------------------------------
(* Stabilization rounds. *)

\* Mutant of Notify: the sender's admission is not checked again.
NotifyUnchecked(p) ==
    /\ predecessor_' = rectify_predecessor(Local, predecessor_, p)
    /\ UNCHANGED <<successors_, fingers, convergence, pending, sync, links,
                   rounds, overtaken>>

\* notify_admitted_predecessor.
Notify(p) ==
    /\ p \in Routable
    /\ predecessor_' = rectify_predecessor(Local, predecessor_, p)
    /\ UNCHANGED <<successors_, fingers, convergence, pending, sync, links,
                   rounds, overtaken>>

\* begin_stabilization: a claimed round is kept, an unclaimed one replaced.
BeginStabilize(id) ==
    /\ id \notin InUse
    /\ head # None
    /\ pending # None => pending.phase = "Requested"
    /\ pending' = [reporter |-> head, id |-> id, phase |-> "Requested"]
    /\ sent' = sent \cup {[kind |-> "stabilize", to |-> head, id |-> id]}
    /\ UNCHANGED <<successors_, predecessor_, fingers, convergence, sync, links,
                   claimed, overtaken>>

\* claim_stabilization_report.
ClaimStabilize(q) ==
    /\ q.kind = "stabilize"
    /\ pending = [reporter |-> q.to, id |-> q.id, phase |-> "Requested"]
    /\ pending' = [pending EXCEPT !.phase = "Processing"]
    /\ claimed' = claimed \cup {q.id}
    /\ UNCHANGED <<successors_, predecessor_, fingers, convergence, sync, links,
                   sent, overtaken>>

\* Slots a consistent report of the unchanged head proves: it is still the
\* nearest successor and names this node as its predecessor.
stabilized_successor_proof_end(reporter, succ, reportedPred) ==
    IF head = reporter /\ successor_head(Local, succ) = reporter /\ reportedPred = Local
    THEN finger_proof_end(Local, reporter, 0)
    ELSE None

\* stabilize_routable_topology: the report is cut down to peers that are
\* routable now, then applied if its claim still stands.
Stabilize(q, reported, reportedPred) ==
    LET confirmed == reported \cap Routable
        pred == IF reportedPred \in Routable \cup {Local} THEN reportedPred ELSE None
        succ == stabilize_successors(Local, successors_, confirmed, pred)
        end  == stabilized_successor_proof_end(q.to, succ, pred)
        join == finger_join(Local, fingers, succ)
        hint == [i \in Slot |-> IF end # None /\ i <= end THEN q.to ELSE join[i]]
        conv == rehint(convergence, fingers, hint)
    IN  /\ q.kind = "stabilize"
        /\ q.to \in Routable
        /\ confirmed # {} \/ pred # None
        /\ pending = [reporter |-> q.to, id |-> q.id, phase |-> "Processing"]
        /\ Commit(succ, hint, IF end = None THEN conv ELSE confirm_range(conv, end), None)
        /\ UNCHANGED <<predecessor_, links, rounds>>

\* Mutant of CancelStabilize: a dropped claim makes the round claimable again.
CancelStabilizeReleases(q) ==
    /\ q.kind = "stabilize"
    /\ pending # None /\ pending.id = q.id
    /\ pending' = [pending EXCEPT !.phase = "Requested"]
    /\ UNCHANGED <<successors_, predecessor_, fingers, convergence, sync, links,
                   rounds, overtaken>>

\* The claim guard was dropped, or the query could not be sent.
CancelStabilize(q) ==
    /\ q.kind = "stabilize"
    /\ pending # None /\ pending.id = q.id
    /\ pending' = None
    /\ UNCHANGED <<successors_, predecessor_, fingers, convergence, sync, links,
                   rounds, overtaken>>

-----------------------------------------------------------------------------
(* Successor-list synchronization rounds. *)

BeginSync(p, id) ==
    /\ id \notin InUse
    /\ p \in successors_
    /\ sync[p] # None => sync[p].phase = "Requested"
    /\ sync' = [sync EXCEPT ![p] = [id |-> id, phase |-> "Requested"]]
    /\ sent' = sent \cup {[kind |-> "sync", to |-> p, id |-> id]}
    /\ UNCHANGED <<topology, links, claimed, overtaken>>

ClaimSync(q) ==
    /\ q.kind = "sync"
    /\ sync[q.to] = [id |-> q.id, phase |-> "Requested"]
    /\ sync' = [sync EXCEPT ![q.to].phase = "Processing"]
    /\ claimed' = claimed \cup {q.id}
    /\ UNCHANGED <<topology, links, sent, overtaken>>

CancelSync(q) ==
    /\ q.kind = "sync"
    /\ sync[q.to] # None /\ sync[q.to].id = q.id
    /\ sync' = [sync EXCEPT ![q.to] = None]
    /\ UNCHANGED <<topology, links, rounds, overtaken>>

-----------------------------------------------------------------------------
(* Finger convergence. *)

BeginRevalidation ==
    /\ StepLedger(begin_revalidation(convergence, fingers, first_remote_slot))
    /\ UNCHANGED <<links, rounds>>

\* prepare_lookup on an expired attempt charges the failure.
AdvanceExpired ==
    /\ head # None
    /\ Expired(convergence)
    /\ StepLedger(fail_attempt(convergence, fingers, convergence.attempt.request.slot))
    /\ UNCHANGED <<links, rounds>>

\* prepare_lookup reserves the next unverified slot; the lookup is answered
\* from local state at once, or sent to the next hop.
AdvanceIssue(id) ==
    LET slot   == next_unverified_cyclic(convergence, first_remote_slot)
        req    == [slot |-> slot, id |-> id]
        issued == [convergence EXCEPT !.attempt = AwaitingReport(req, convergence.epoch),
                                      !.since = 0]
        answer == find_successor(Local, successors_, fingers, SlotTarget(Local, slot))
        result == apply_result(Local, issued, fingers, req, answer.peer)
    IN  /\ id \notin InUse
        /\ head # None
        /\ convergence.attempt.phase = "Idle"
        /\ PermitsIssue(convergence)
        /\ slot # None
        /\ IF answer.local
           THEN /\ Commit(successors_, result.fingers, result.c, pending)
                /\ UNCHANGED <<predecessor_, rounds>>
           ELSE /\ StepLedger(issued)
                /\ sent' = sent \cup {[kind |-> "finger", to |-> slot, id |-> id]}
                /\ UNCHANGED claimed
        /\ UNCHANGED links

\* record_finger_candidate: what a lookup report does depends on the record
\* of the peer it names.
FingerReport(q, s) ==
    LET req     == [slot |-> q.to, id |-> q.id]
        applied == apply_result(Local, convergence, fingers, req, s)
        valid   == validated_proof(Local, convergence, req, s) = "Valid"
    IN  /\ q.kind = "finger"
        /\ IF s = Local \/ s \in Routable
           THEN /\ Commit(successors_, applied.fingers, applied.c, pending)
                /\ UNCHANGED <<predecessor_, queued>>
           ELSE IF s \in Active
           THEN /\ StepLedger(retire_result(Local, convergence, fingers, req, s))
                /\ UNCHANGED queued
           ELSE /\ StepLedger(defer_result(Local, convergence, fingers, req, s))
                /\ queued' = IF valid /\ lifecycle[s] = "pending"
                             THEN [queued EXCEPT ![s] = req] ELSE queued
        /\ UNCHANGED <<lifecycle, ready, rounds>>

\* cancel_finger_lookup: the send failed or the candidate gained no owner.
CancelFinger(q) ==
    LET req == [slot |-> q.to, id |-> q.id]
    IN  /\ q.kind = "finger"
        /\ Owns(convergence, req)
        /\ StepLedger(cancel(convergence, fingers, req))
        /\ UNCHANGED <<links, rounds>>

Tick ==
    /\ convergence' = Elapse(convergence)
    /\ UNCHANGED <<successors_, predecessor_, fingers, pending, sync, links,
                   rounds, overtaken>>

\* A query and its remaining answers are lost.
Forget(q) ==
    /\ sent' = sent \ {q}
    /\ claimed' = claimed \ {q.id}
    /\ UNCHANGED <<topology, sync, links, overtaken>>

-----------------------------------------------------------------------------
Connections ==
    \E p \in Peers :
        \/ Reserve(p) \/ TransportChange(p) \/ AdmitPending(p)
        \/ \E next \in {"absent", "pending"} : ReleasePending(p, next)
        \/ JoinRoutable(p) \/ Disconnect(p) \/ DisconnectUnavailable(p)
        \/ EvictUnreferenced(p) \/ PruneDisconnected(p)

Stabilization ==
    \/ \E p \in Peers : Notify(p)
    \/ \E id \in Id : BeginStabilize(id)
    \/ \E q \in sent :
        \/ ClaimStabilize(q) \/ CancelStabilize(q)
        \/ \E reported \in SUBSET Peers, pred \in Peers \cup {Local, None} :
                Stabilize(q, reported, pred)

Synchronization ==
    \/ \E p \in Peers, id \in Id : BeginSync(p, id)
    \/ \E q \in sent : ClaimSync(q) \/ CancelSync(q)

Fingers ==
    \/ BeginRevalidation \/ AdvanceExpired
    \/ \E id \in Id : AdvanceIssue(id)
    \/ \E q \in sent :
        \/ \E s \in Peers \cup {Local} : FingerReport(q, s)
        \/ CancelFinger(q)
    \/ Tick

Network == \E q \in sent : Forget(q)

Next == Connections \/ Stabilization \/ Synchronization \/ Fingers \/ Network

Spec == Init /\ [][Next]_vars

\* The maintenance loop (dht/stabilization/maintenance.rs) polls the ledger and
\* schedules revalidation for as long as the node runs, and time passes.  A
\* query in the network is answered or lost in the end, so that its identity
\* can be drawn again.
Maintenance ==
    /\ WF_vars(Tick) /\ WF_vars(AdvanceExpired) /\ WF_vars(BeginRevalidation)
    /\ WF_vars(\E id \in Id : AdvanceIssue(id))
    /\ WF_vars(Network)

-----------------------------------------------------------------------------
(* Safety. *)

\* A retired peer is never routed to: every successor, predecessor and finger
\* is an admitted connection, although reports, notifications, deferred
\* proofs and replacement lists naming it may still arrive after its
\* retirement (swarm/transport/connection.rs takes the lifecycle boundary
\* around each of them for this).
ReferencesAdmitted == Referenced \subseteq Active

\* No-wrap law of the finger table: slot i holds no peer nearer than 2^i,
\* whatever joins, run inheritance, proofs and stabilization write to it.
FingersReachSlot == \A i \in Slot : fingers[i] # None => dist(Local, fingers[i]) >= 2^i

\* A forwarded lookup makes strict clockwise progress toward its target
\* without overshooting, so routing cannot loop (RoutesClockwise).
RoutesClockwise ==
    \A did \in Did :
        LET hop == find_successor(Local, successors_, fingers, did)
        IN  ~hop.local => hop.peer \in Peers /\ dist(Local, hop.peer) < dist(Local, did)

\* A stabilization token always names the current successor head: every path
\* that moves the head revokes it, so a late report can neither refine the
\* new topology nor prove fingers against the old head.
PendingTracksHead == pending # None => pending.reporter = head

\* Successor-sync tokens are held by current successors only: churn prunes
\* the tokens of the reporters that left.
SyncTracksSuccessors == \A p \in Peers : sync[p] # None => p \in successors_

\* The slot a live lookup was issued for has not been re-hinted since, in
\* either phase of the attempt.  This is why a proof retained for admission
\* is applied without a second staleness test, also after the evidence epoch
\* is exhausted.
AttemptIsCurrent ==
    LET a == convergence.attempt
    IN  a.phase # "Idle" =>
            /\ convergence.changedAt[a.request.slot] <= a.epoch
            /\ a.request.slot \notin overtaken

-----------------------------------------------------------------------------
(* Action properties. *)

\* A report round is claimed by at most one of the copies of its report.
ReportClaimedOnce ==
    [][\A q \in sent : q.id \in claimed => ~ClaimStabilize(q) /\ ~ClaimSync(q)]_vars

\* A lookup result, applied at once or on admission, marks no slot verified
\* whose hint was replaced while the lookup was in flight.
NoOvertakenProof ==
    [][\A i \in overtaken : convergence'.verified[i] /\ ~convergence.verified[i] =>
            /\ \A p \in Peers : ~AdmitPending(p)
            /\ \A q \in sent, s \in Peers \cup {Local} : ~FingerReport(q, s)]_vars

\* Retiring a connection that no slot references leaves the whole ring state
\* alone (TopologyRemoval: "the identity on the topology").
EvictionIsIdentity ==
    [][UNCHANGED <<topology, sync>> \/ \A p \in Peers : ~EvictUnreferenced(p)]_vars

-----------------------------------------------------------------------------
(* Liveness. *)

\* A remote slot whose proof is missing.
Open(i) == head # None /\ i >= first_remote_slot /\ ~convergence.verified[i]

\* The live lookup is for the run of equal hints that slot i belongs to.
Served(i) ==
    LET a == convergence.attempt
    IN  a.phase # "Idle" /\ fingers[a.request.slot] = fingers[i]

\* No lookup owns the ledger for ever, however its report, the admission of the
\* peer it names and its deadline race.
AttemptsResolve == convergence.attempt.phase # "Idle" ~> convergence.attempt.phase = "Idle"

\* "a range whose successor never completes a handshake costs one attempt per
\* rotation rather than blocking every range above it": while the admitted
\* peers stay every open run of hints gets its lookup, whatever the reports
\* and the handshakes of the other runs come to and however often they fail.
RunsAreServed == \A i \in Slot : Open(i) ~> (~Open(i) \/ Served(i))

\* "periodic revalidation of proved ranges is deferred by pending work only
\* while that work is succeeding": with settled membership the proof of every
\* remote slot is reopened again and again.
RangesAreRevalidated ==
    \A i \in Slot : []<>(i >= first_remote_slot => ~convergence.verified[i])

=============================================================================
