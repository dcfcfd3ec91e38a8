# Rings in TLA+

A TLA+ model of the Rings overlay (`crates/core`, with the transport crate below
it), model-checked with TLC and, for its core, proved with TLAPS.  The first part
is the inventory of the system, the second what the modules say and what the runs
and proofs show, the third the plan for what is not modelled yet.  `PROJECT.json`
maps every definition to the lines it models.

## 1. The system

Rings is a peer-to-peer network of browsers and native nodes.  Nodes open WebRTC
data channels to each other, arrange themselves on a Chord ring of 160-bit
identifiers (DIDs), route signed messages along the ring, and keep replicated
entries on it.  Applications (onion circuits, mail, a TCP/TUN gateway, a DNS relay,
a webview) run on top.

| part | state | operations | what is hard |
|---|---|---|---|
| ring geometry (`dht/did.rs`, `dht/topology.rs`) | none | distance, successor selection, finger join/removal, routing step | off-by-one at slot offsets, wrap-around, runs of equal hints |
| ring state (`dht/chord/peer_ring.rs`, `dht/topology/*`) | successor list, predecessor, finger table, stabilization token | admit, remove, notify, stabilize, report claims | reports applied after the topology they were asked for is gone |
| finger ledger (`dht/finger/convergence*`) | evidence epoch per slot, one lookup attempt, retry pacing, rotation cursor | issue, apply, defer, retire, expire, confirm, revalidate | a proof waiting on a handshake while hints change; starvation; epoch exhaustion |
| successor sync (`dht/topology/successor_sync.rs`) | one token per reporter | begin, claim, cancel | duplicate reports, reporters that leave and return |
| connection lifecycle (`swarm/transport/{connection,pending}*`) | a record per peer: pending, admitting, active; deferred proofs | reserve, admit, cancel, retire, evict, prune | retirement racing admission, reports and notifications |
| maintenance (`dht/stabilization*`) | timers | start rounds, poll the ledger, clean unavailable peers | fairness between its tasks |
| delivery (`dht/delivery`, `message/protocols/relay`) | custody of messages in flight | forward, hand off | loops, hop bounds, duplicated custody |
| rerouting (`swarm/transport/rerouting*`) | deferrals spent, a stamp of the hop's progress, listeners | send, wait for an event, send again, stop | events between a refusal, the registration and the reading; waking on one's own release |
| DHT storage (`dht/chord/storage.rs`, `dht/storage`, `dht/entry*`) | replicated topic entries (CRDT), inbox | place, hand over, repair, merge, expire | merge order, retention horizon against late replicas |
| relay hold chain (`dht/relay_holder*`) | holders of undelivered messages | hold, replicate, repair, release | losing a neighbour of the chain |
| replay protection (`message/replay*`) | a window, a custody set and a charge per receiver stream, a lease per sender stream, batches, one record per stream on disk | reserve, admit, release, flush, restore | transitions on state not yet durable; failed and partly landed batches; crashes |
| relay mail (`swarm/inbox.rs`, `swarm/application/relay.rs`) | elements handed to the application | offer, take, release, retire | crash between take and release; a pass cut at its deadline |
| fair admission (`fair_admission/*`) | reservations per class, a first-come-first-served queue, a resource-ordered waitlist | reserve, queue, arm, judge, scan, withdraw, release | lost wake-ups, overtaking, starvation, stale readings |
| inbound mailbox (`swarm/callback/inbound/capacity.rs`) | budgets of peers, of the mailbox and its lanes, of open messages | acquire, claim, close, expire, release | charges returned in two stages by other threads during a scan |
| outbound capacity (`swarm/transport/outbound/capacity*`) | transfers and bytes per peer, bytes of the node, a queue each | acquire peer then node, wait, give up, release | half reservations, hold and wait, release and arming under two locks |
| chunking (`chunk/*`) | reassembly buffers | accept chunk, time out | reordered, duplicated, conflicting chunks at the limit |
| outbound scheduler (`swarm/transport/outbound.rs`, `outbound/*`) | ready transfers of a link | enqueue, rotate, send, cancel | cancellation between queue and wire |
| flow control (`transport/src/callback/link_credit*`, `core/credit*`) | credit of a link | spend, grant, pump | lost or repeated grants, deadlock |
| handshake (`swarm/transport/{handshake,pending/handshake}*`) | offers, generations | offer, answer, yield | crossing offers |
| storage backends (`storage/*`) | files, IndexedDB, memory | put, get, compact | crash recovery |
| measurement, receipts, quotas (`crates/measure`, `message/{service_receipt,quota}.rs`) | ledgers and evidence | record, decay, audit | double counting |
| onion, extensions, processor, RPC, gateway, DNS relay, webview, frontend | application state | | applications over the overlay |

How they interact: `PeerRing::transition` runs a pure `topology::step` under one
mutex and returns actions (messages to send) to its caller.  `SwarmTransport` holds
the connection-lifecycle boundary around each transition that depends on which
peers are admitted.  Message handlers claim a report, await connections to the
peers it names, then apply it.  The maintenance loop starts stabilization and sync
rounds, polls the finger ledger and cleans unavailable connections.  The transport
reports readiness through callbacks.  What arrives on a link is charged to the inbound
mailbox before it is queued for its lane; what is sent takes a share of its peer's and of
the node's outbound capacity before it is scheduled, and a placement that is refused there
waits for the releases of others and is sent again.

What makes each part correct: routing reaches only admitted peers and always makes
progress; a report changes the ring at most once and only the ring it was asked
about; finger proofs are never stale and every range is looked up in the end; a
message is delivered with a bounded number of hops, and admitted at most once across
failures and restarts, while stored mail is never lost to its own replay protection;
entries converge; resources are bounded, granted fairly and never deadlock.

## 2. The model

### Modules

* **RingGeometry** — the ring `Z / 2^Bits` and the pure operators of
  `dht/topology.rs` and `proof.rs`.  A successor list is the *set* of its members,
  because the code builds every list by `sorted_successors` or by filtering one; a
  finger table is a function from slots to a peer or `None`.
* **RingLists** — the same algorithms as the code writes them (retain, sort, dedup,
  truncate, the fold over the list, the run-removal loop), compared with RingGeometry in
  every reachable state of the ring, by TLC and by proof.  This is what justifies the sets.
  The passes over a `Vec` are folds; a stable sort has one result, which is modelled by
  insertion; the loop is a recursive function of the table and the index it has come to.
* **FingerConvergence** — the ledger of `dht/finger/convergence*`, one operator per
  method.  Deadlines are modelled as time left, so no clock grows without bound;
  `u64::MAX` epochs and `u8::MAX` streaks are the constants `MaxEpoch` and
  `MaxStreak`, small in the runs so that exhaustion and saturation do happen.
* **PeerRing** — one node: the `TopologyState` (`successors_`, `predecessor_`,
  `fingers`, `convergence`, `pending`), the sync tokens, the connection records
  (`lifecycle`, `ready`, `queued`) and the queries in the network (`sent`).  One
  action per topology event together with the lifecycle check the code makes in the
  same critical section.  `Commit` is `PeerRing::transition`: the head law, the
  pruning of sync tokens and the state change are one step.  Reports may carry any
  content, come late, several times, or never.  `claimed` and `overtaken` are history
  variables of the properties.
* **MCPeerRing** — the instances: restrictions of the next-state relation for larger
  peer sets, the settled initial states, a guest that joins and leaves, symmetry.
* **ReplayWindow** — the pure transitions of one replay stream: the receiver's window
  of accepted sequences (`observe`), the sender's leased allocator (`allocate`) and the
  instant a transaction is spent.  The code's array of digests, rotated as it advances,
  is a function from the distance below `high`.
* **SlotAccounting** — who may put one more item into a node-wide table: floors, the
  shared pool and its fair claim, reserved shares.
* **TransactionReplay** — replay protection of one node with its storage: the
  speculative `tables`, the `disk`, the `open` batch and the one in `flight`, the
  `flusher`, and for stored mail the relay inbox (`carrier`), the `pass` over it with the
  one instant it judges by, and where each element stands toward the application
  (`handed`).  It extends the two modules above.
* **MCTransactionReplay** — the transactions of the runs.
* **ReservedCapacity** — capacity shared by classes with fixed reservations
  (`fair_admission/capacity.rs`): what a class may take, and what its reservation covers.
* **InboundCapacity** — the ledger of the inbound mailbox: the budgets of a peer, of the
  mailbox and its lanes, and of open messages (SlotAccounting); which resources a request
  draws on (`footprint`), which may be relieved (`reliefs`) and which refuse it.
* **InboundAdmission** — the resource-ordered queue over that ledger
  (`fair_admission/{waitlist,resource_order}.rs`).  `lock` is the event that holds the
  queue's lock with the scan it works through, one judgement at a time.  The arrival number
  of a waiter is the set of waiters with smaller ones (`ahead`).
* **FairShare** — an abstract specification: scopes of capacity, each served first come,
  first served, a request within its class's reservation excepted.  No locks, arming,
  wakers or threads.
* **TransferCapacity** — outbound capacity (`outbound/capacity.rs`, over
  `fair_admission/wait_queue.rs`): a transfer takes a share of its peer and then of the
  node, waits in their queues, gives up, and gives back.  The rules of a reservation are
  operator parameters; the module states `ImplementsFairShare`.
* **OutboundCapacity** — the rules themselves: a peer counts transfers and bytes, the node
  bytes.
* **Rerouting** — composes TransferCapacity with one rerouted placement whose attempts are
  transfers: refusal, stamp, listeners, readings of two scopes, sleep, wake, deferral
  budget, stop.
* **MCInboundAdmission**, **MCOutbound**, **MCRerouting** — their workloads.
* **PeerRingProofs**, **TransactionReplayProofs**, **ReplayDeliveryProofs**,
  **TransferCapacityProofs**, **ReroutingProofs**, **ReservedCapacityProofs**,
  **OutboundCapacityProofs**, **InboundAdmissionProofs** — the theorems.

Correspondence of actions: `AdmitPending`, `ReleasePending`, `JoinRoutable`,
`Disconnect`, `DisconnectUnavailable`, `EvictUnreferenced`, `PruneDisconnected`
(connections); `Notify`, `BeginStabilize`, `ClaimStabilize`, `Stabilize`,
`CancelStabilize` (stabilization rounds); `BeginSync`, `ClaimSync`, `CancelSync`;
`BeginRevalidation`, `AdvanceExpired`, `AdvanceIssue`, `FingerReport`, `CancelFinger`
(ledger).  `TransportChange`, `Tick` and `Forget` are the environment: WebRTC, the
clock and the network.

Of replay: `Reserve`, `Admit`, `Offer` (a relayed admission), `Release` are the
transitions that run under the replay lock and join the open batch; `Take`, `Write`,
`SettleDurable`, `SettleFailed` are the steps of the flusher between which transitions
run; `BeginPass`, `Poll`, `EndPass`, `CutPass` are the pass over the relay inbox, which
comes to an element by `Offer` or `Poll`; `Crash` stops the process and restores the tables from disk.  `Tick`, `Hold`, `TakeMail` and `Discard` are
the environment: the clock, the members that keep the inbox, the application.
`returned`, `delivered`, `excused`, `late`, `before` and `taken` are history variables of
the properties.

Of admission: `Arrive`, `Withdraw` and `Release` take the queue's lock for an event;
`Judge` and `Settle` are the two halves of `Waitlist::judge`, between which charges go back
to the ledger; `Deliver` ends the event.  `Claim`, `Close`, `Drop` and `Abandon` are what
becomes of a grant.  Of outbound capacity: `Acquire`, `TryReserved`, `try_admit_unqueued`
and `admit_or_wait` are the steps of a request at one scope, `Poll` and `Cancel` those of a
waiter, `End`, `Release` and `WakeFront` the return of the shares.  Of rerouting:
`Attempt`, `Send`, `Accept`, `Jammed` are one send, `after` publishes its refusal, `Listen`,
`Observe`, `ObserveNode`, `Wake` are one iteration of the wait; `Stop` is the caller,
`EnvStops` the other senders.

Abstractions of the ring.  The `Admitting` stage of a connection is part of `AdmitPending`: the
stage only exists while one task holds the attempt, and the ring changes at its
commit.  Generations of a connection are not told apart; `ReleasePending(p,
"pending")` stands for a record replaced by a newer one.  UUIDs are drawn from a
small set and may be drawn again once nothing holds them.  The handlers' connection
attempts between claim and application are the connection actions themselves.  The
cleaner (`clean_unavailable_connections`) selects a peer by readings made outside the
lifecycle boundary, and the removal re-checks only that the attempt is still the active one.
`DisconnectUnavailable` and `PruneDisconnected` are therefore enabled for every active peer:
when they act the peer may have recovered, lost its references or become the head.

Abstractions of replay.  The undo log of a batch is the function from each changed
stream to the first value logged for it: that is what undoing it last entry first
leaves.  Window, custody and charge of a stream are one record, as they are on disk.  A
transaction stands for its digest.  The origin quota is a refusal that may happen at any
admission.  A write that fails leaves any part of its batch on disk, removals before
writes; a crash in the middle of a write is a failed write followed by a crash.  The
store is restored at the restart rather than at the first transition after it, before
which nothing changes it.  A pass starts on a report, any part of the inbox, and ends with
one removal that may fail; an element that stays, or is offered again by a member that
lags, is `Hold`.  The expiry of a live message is checked at some instant since the process
started, that of mail at the instant its pass started; the admission may follow at any
later instant, because the code bounds neither wait.  A transition whose caller was cut
off before it got the lock is one that is cut off right after.  Volatile windows of link-local transactions are left out.

Abstractions of admission.  Counters of the budgets are computed from the requests that
hold a charge.  The budgets a request is judged against are locked together in the code and
read in one step here; `footprint` reads two of them one after the other, which is one step
too.  A waiter's slot and waker are part of `Claim`: a granted waiter is polled in the end.
The introducers of open messages are one connection slot.  A request may be sent again once
it was processed, so a workload is a set of arrivals that never stops.

Abstractions of outbound capacity and rerouting.  The share a waiting task was polled for
is taken under the lock of the queue with that of the reservations inside it, one step; a
release is two.  `WakeFront` advances the release epoch with the arming of the front, its
last effect.  The epoch of departures advances with the departure itself, while the code
drops the lock of the queue in between (`wait_queue.rs:244`, `:269`); its listeners hear
of it that much later and miss nothing, since they register before they read a scope, and
no wake-up of the queue depends on it.  `has_room` reads a scope in one step and the two scopes in two.  A peer's
capacity lives as long as the model: the code drops it with its last holder, when it is
idle.  Transfers bounded by their sender hold no share and are left out, and so are routes
that move and links that are replaced while a placement waits: both only add triggers.
An attempt of a placement is accepted or deferred: `Verdict::Failed`, which ends the
placement with an error (`rerouting.rs:229`, `:291`), and the submissions behind it whose
outcome stays ambiguous or whose cleanup times out (`payload_send/submission.rs:161`,
`:170-181`) are left out, and `AcceptedOnceQuiet` says nothing of them, like the law of the
repository.  The
count of drained transfers is kept relative to the last stamp.

### Runs

| run | checks | instance | result |
|---|---|---|---|
| `rounds` | `ReferencesAdmitted`, `PendingTracksHead`, `SyncTracksSuccessors`, `RoutesClockwise`, `ReportClaimedOnce` | connections and report rounds, 3 peers, capacity 2, 2 request identities; the transports of all but the farthest peer flap | pass |
| `fingers` | `TypeOK`, `AttemptIsCurrent`, `FingersReachSlot`, `JoinIsASet`, `RemovalByRuns`, `NoOvertakenProof`, `EvictionIsIdentity` | connections and lookups, 3 peers, capacity 2, 4 epochs; the transport of an admitted peer does not flap | pass |
| `rotation` | `MergeIsASet`, `RunsAreServed`, `AttemptsResolve` | settled ring with a guest that joins and leaves, 4 epochs, fairness | pass |
| `lease` | `NeverReused`, `MemoryBelowDisk`, `EveryBatchTaken` | one sender, reservations of 1 and 3, leases of 2, 7 sequences, 2 crashes, 1 damaged record, fairness | pass |
| `admission` | `TypeOK`, `DeliveredOnce`, `MemoryBelowDisk`, `FailsClosed` | one receiver stream, window 2, 4 live transactions, 1 crash, 1 overdue admission | pass |
| `mail` | `DeliveredOnce`, `CustodyOutlived`, `MailKept` | two stored messages of one stream, one of them also live, custody of 1, 1 crash, 1 overdue admission | pass |
| `inbound` | `TypeOK`, `StrandedBehindRefused`, `RefusalsAgree`, `ReservationsKept`, `StreamOrder`, `OneBudgetServed`, `ServedOnceArrivalsStop` | 5 requests of 3 peers on 2 lanes, one waiter dropped, fairness | pass |
| `outbound` | `TypeOK`, `NoLostWake`, `ReservationsKept`, `ImplementsFairShare`, `EveryWaitEnds` | 4 transfers of 2 peers, a wait budget of 2, fairness | pass |
| `rerouting` | `PlaceOK`, `NoMissedEvent`, `AcceptedOnceQuiet` | a placement and 2 rivals at one peer, 3 deferrals, fairness | pass |
| `wakeup` | `Fixpoint` | the workload of `inbound`, no waiter dropped | violated |
| `revalidation` | `RangesAreRevalidated` | settled membership, fairness | violated |
| `bound` | `StreamsWithinBound` | two streams, a table of one, 1 crash | violated |

Why the bounds are enough.  Eight ring positions and three slots contain every case
of the geometry: peers at, between and beyond slot offsets, runs of one and of two
slots, a head whose proof covers one slot or more.  A list capacity below the number
of peers makes selection drop peers; capacity 1 makes every head loss empty the list.
Two identities let a superseded round and its successor coexist with their reports.
Timeouts of one unit let a deadline pass before or after any other step.  `MaxEpoch`
between 0 and 4 reaches the exhausted epoch with a lookup in flight; three epochs of
change are what it takes for a lookup to be overtaken above its own slot.  `fingers` has
them and in return keeps the transport of a peer ready once it is admitted: a removal may
act on any active attempt whatever its transport says, so what is left out there is an
admitted peer that is passed over as a replacement of a lost head, or whose lookup answer
waits for a handshake, because its transport is down.  In `rounds` the transports of all
peers but the farthest flap; the proofs have no such restriction.

For replay, a window of two and sequences up to four contain an advance by one, by less
and by more than the window, a late arrival, a fork and a stale sequence.  Batches of two
members, one open and one in flight, hold two changes of one stream in one batch and one
across both, which is where undo logs and staged records can go wrong; a lease of two
with reservations of one and three is crossed, filled exactly and outrun, and seven
sequences are exhausted.  The clock runs until the stream is spent and one step beyond.
`MaxLate` bounds the admissions made after the clock tolerance has passed, all transactions
together: one suffices to reopen a forgotten stream, and the properties are per transaction
and per late admission.  One crash separates any two steps once; `lease` has two, so
that what the first restart handed out meets the second.

For admission, the workload `Mixed` makes every budget refuse someone: a frame of two bytes
needs the only byte the lanes share, two first chunks of one introducer compete for its
floor with an empty pool, two requests come from one peer with room for one, and a covered
chunk follows its first chunk on the same stream.  `Load` makes both scopes refuse: the
three transfers of one peer exceed its bytes, those of both peers the node's, three demands
may wait and the wait budget takes two.  `Jam` makes a placement fail at the peer, at the
node and on the link, with a small transfer ahead of it that may end without reaching the
link; three deferrals leave one more than the two that `AcceptedOnceQuiet` promises.

Deadlock is not checked in the runs of the ring, of replay and of rerouting: a node with no
peers and no identities to draw may rest, a replay store that has reached the bounds of the
model has nothing left to do, and a placement that was accepted, failed or stopped is over.
It is checked in `inbound` and `outbound`, where requests never end.

### Fairness

`Maintenance` assumes weak fairness of the clock, of the two branches of the ledger
poll and of revalidation, because the maintenance loop
(`dht/stabilization/maintenance.rs`) runs them on timers for the lifetime of the
node, and of the network losing what it never delivers.  Nothing is assumed about
reports, handshakes, admissions or disconnections.

`Fairness` of TransactionReplay assumes that the flusher goes on: it is a detached task
of the runtime (`start_flusher`) that waits for nothing but the replay lock, which every
holder gives back, and the store, which answers or fails.  Nothing is assumed about
callers, the application or the relay inbox.

`Fairness` of InboundAdmission: the thread that holds the lock goes on (a scan awaits
nothing), a granted waiter is polled and what was admitted is processed or expires (an open
message has a lifetime), and a thread that owes a scan gets the lock (strong fairness:
others take the lock again and again, and a mutex does not keep a thread out for ever).
Waiters are not obliged to give up, and messages need not complete.

`Fairness` of TransferCapacity: threads between two locks go on, a task that was woken is
polled, a transfer ends (the delivery of a frame has a deadline).  A waiter that nobody woke
is not obliged to be polled, which is what makes a lost wake-up visible.  `Rerouting` takes
the same, and that the placement's task goes on; nothing is assumed about stops, and
deadlines of waits may or may not be met.

### What the violated runs show

* `RangesAreRevalidated`: when the rotation cursor has reached the end of the table,
  revalidation wraps to slot 0, which stabilization proves locally; no lookup follows,
  nothing moves the cursor, and the remote ranges are not revalidated again until a
  topology change opens one of them.
* `StreamsWithinBound`: `replay/store.rs` says that a restore need not check the table
  bound again because admission maintains it.  A batch that opens a stream can fail after
  its record landed; the stream is forgotten, another one takes its slot, and a restart
  restores both.  The bounded-custody law of `replay/custody.rs` rests on the same
  argument and can be exceeded in the same way.  Both go back under their bounds as
  streams are spent.
* `Fixpoint`: the laws in `fair_admission/resource_order.rs` say that once an event is over
  no waiting request is both unblocked and admissible.  It fails in two ways.  In the trace
  of `wakeup` a request arrives while its lane is used and an earlier one was refused by
  the shared capacity; the charge of its lane is returned between the readings of its
  `footprint` (it draws on `Shared`, so it is blocked) and of its `reliefs` (its lane covers
  it, so there are none): it is parked under `Shared` alone.  The second way needs no such
  race (TLC finds it when charges are returned only between scans): an earlier waiter,
  refused, demotes it (`demote_after`) and its own lane is forgotten.  Either way a release of that lane, whose reservation now covers it,
  stops at the earlier waiter.  It stays until that one is served
  (`StrandedBehindRefused`), so the delay ends (`ServedOnceArrivalsStop`).

### Observations without a run

Met while modelling; each is explained by the code, and no run is kept for them.

* `dht/topology/invariants.rs` calls the monotone finger table an invariant of `step`.  It
  is not: a proof writes only the slots its lookup is not too old for, and a vacated run
  takes the hint after it; together they leave a far hint below a nearer one.  Routing does
  not need monotonicity: `RoutesClockwise` holds, and is proved for arbitrary tables.
* The comment on `remove_with_successor_evidence` argues that no removal moves the head
  nearer and drops the emitted actions for that reason.  A nearer peer can be admitted but
  not ready when the head is replaced by live replacements, recover, and become the head at
  the next removal.
* The liveness law of `resource_order.rs` does not hold for a request that two budgets
  refuse in turn: it holds only the one that refused it last, and later arrivals keep taking
  the other.  `OneBudgetServed` and `ServedOnceArrivalsStop` are what holds.
* "Every charge fits an idle reservation" (`inbound/capacity.rs`, in `reliefs`) is not true
  of the charge of a first chunk, which may exceed the reservation of its lane; the relief
  is then useless, not wrong.
* `replay/admission.rs` (its eviction law) says that from `spent_at` on a transaction can no
  longer be delivered, so that forgetting its stream reopens no replay.  The expiry is
  checked before the admission waits for the replay lock (`callback/processor.rs:289`), for
  mail once for a whole pass (`inbox.rs:270`, `:172`), and not again under the lock.  TLC
  finds two copies checked in time, one admitted at once, the other after `spent_at` into a
  fresh stream, and both delivered.  `DeliveredOnce` is what holds: one delivery more for
  each admission that late, and none otherwise.
* Outbound, small demands of a class take its fixed reservation past a large waiter of the
  same class, for ever if they keep coming: hence the exception in `EveryWaitEnds`.  Order
  is kept at each scope, not from end to end over both.

### Proofs

Every theorem is checked by TLAPS to the last leaf and holds for every value of the
constants that satisfies the named assumptions; TLC evaluates each assumption in every run.

**The ring** (`PeerRingProofs`), for every width, table size, capacity, peer set and pacing
constants, from `GeometryAssumption`, `PowersAssumption` (powers of two are positive and
ascending: the provers have no theory of exponentiation), `ConvergenceAssumption`,
`PeersAssumption` and `TokensAssumption`: of the operators, `RoutingProgress` (a forwarded
lookup goes to a known peer strictly between the node and the target, whatever the finger
table) and `ProofRangeLaw` (an answer proves exactly the slots it claims), with lemmas on
nearest peers, selection, join and removal; of the node, `TypeCorrect`, `RetiredStaysOut`,
`FingersNeverWrap`, `TokenFollowsHead`, `TokensFollowSuccessors`, `AttemptStaysCurrent`,
`ForwardingProgress`, and the action properties `NoStaleProof`, `ClaimedOnce` and
`EvictionKeepsRing`.

The argument.  `Inv` = `RingOK` (types; the table law that a hint reaches its slot; the
ledger law; token and head agree; sync tokens belong to successors; slots overtaken since
the lookup began are dated *after* the lookup) ∧ `LinksOK` (types of the rest) ∧
`References` (all references active).  `AttemptIsCurrent` and `NoOvertakenProof` are not
inductive by themselves: they need the dates — every re-hinted slot is younger than the
attempt, every attempt no younger than the current epoch, and at the last epoch the attempt
is dropped because no younger date exists — and a retained proof needs the bound on its
range fixed when it was retained.  Every transition ends in `Commit`, so `CommitKeeps`
proves preservation once, from what the committed values satisfy (`Committable`), and each
action proves that of its values.

Two action properties rest on invariants of their own, proved on top of `Inv`.
`ClaimedOnce` uses `Fresh`: the identities of the stabilization token and of all sync tokens
differ, an unclaimed token's identity is on no claimed report, and a claimed identity is
still on a sent query, so a drawn identity is not claimed.  All but five actions at most
drop tokens (`DropsTokens`).  `EvictionKeepsRing` uses `EvidenceNeedsSuccessor`: a node with
an empty list has no verified slot and no attempt, without which an eviction would run
`invalidate_all_evidence` to some effect.  It is kept because a lookup is issued, and a
report applied, only under a head, and a selection from a non-empty list is not empty; the
code takes any capacity, so capacity zero (a list that is always empty) is covered too.

The list algorithms are related to the sets by `MergedList` (any arrivals, with any
repetitions, in any order), `MergesAsASet`, `JoinsAsASet` and `RemovesByRuns`; the last three
follow from the types of a reachable ring.  None of them needs a rule of induction: a least
counterexample is excluded instead.  The function behind a fold or a loop is *chosen* by its
equation, so nothing is known of it before a solution is shown to exist.  For the loop the
solution has a closed form, what is before the index and the set-level removal after it
(`ClosedStep`), and no other function solves the equation.  For a fold `FoldExists` builds
the solution prefix by prefix, and the lemmas `...Run` read off that the fold takes one step
per position.  The invariants of the steps are the argument proper: `push_unique` keeps a
list without repetition, so `retain` hands distinct peers to the sort; insertion keeps a
list strictly ascending because distinct peers have distinct distances, so `dedup`, which
sees neighbours only, has nothing to drop; and in an ascending list exactly `i - 1` members
are nearer than the `i`-th, so cutting at the capacity is counting the nearer ones.  For the
join, one more peer changes a slot exactly as if it had been offered with the others
(`JoinOneMore`), whatever hints the table holds.

Three theorems are about the operators of a converged ring, with any set of members:
`OwnersDivideTheRing` (`is_responsible_for` divides the ring: the owner of a position is the
first member at or after it, and there is one), `AnswersNameTheOwner` (a lookup answered on
the spot names that owner; a node asked for its own position names the next node, which is
what a joining node asks for) and `LearningIsASet` (successors, fingers and predecessor
depend on the set of peers learned, not on the order or the batches).  The last rests on
`SelectionBeforeMerge`: a peer that was cut off had as many nearer peers as the list holds,
and those are all still in it.

**Replay, batches and senders** (`TransactionReplayProofs`): `FailsClosedAlways`, without
any assumption on the constants, and `NeverReusedAlways`, from `KeyAssumption`,
`LeaseAssumption`, `SequenceAssumption`, `NoneAssumption` (the model values are no numbers
and no allocators) and `TransactionAssumption` (a transaction belongs to a receiver
stream). Both hold for any number of streams, members of a batch, failures, crashes and
damaged records.

`FailsClosed` by itself is not inductive: when the batch in flight becomes durable, the
open batch alone must lead back to the tables the flusher took.  `Journal` adds that, and
that no batch is in flight unless the flusher writes one; `RewindLogged` is the heart of
it, that a transition logs exactly what undoing it needs.

`NeverReused` counts hand-outs and says nothing of those still waiting in a batch.
`SendersOK` adds, for each sender, a chain of three allocators: the one the released
transitions rest on (`before`), the one beneath the open batch and the current one.  Each
is later than the one below it; every reservation in a batch lies strictly above the
allocator beneath the batch and not above the one on top, and no two overlap (`HandsOut`);
a batch that moves the lease carries a record of the last one (`Covers`); the lease of
`before` is on disk, and the lease beneath the open batch too once the write succeeded
(`OnDisk`).  A sequence handed out is therefore at most what `before` issued, a durable
batch hands out only sequences above that, a failed one goes back to `before` (from
`FailsClosed`), and a restart starts at a lease on disk, which is at least that.  A record
that does not restore allows no reservation at all.

**Replay, receivers and mail** (`ReplayDeliveryProofs`): `DeliveredOnceAlways`,
`MailKeptAlways` (an action property), `CustodyOutlivedAlways`, `MemoryBelowDiskAlways` and
`TypeOKAlways`, from the assumptions above, `WindowAssumption`, `TimeAssumption` and
`RecordAssumption` (the markers of an absent and of a damaged record are no records).
Nothing is assumed about how long an admission waits after its check.

`DeliveredOnce` counts deliveries and says nothing of what is about to be delivered.
`StreamsOK` follows one stream through four states: the one the released transitions rest
on (`before`), the one beneath the open batch, the one in memory, and the one on disk.
Until the stream is spent each remembers all that the state beneath it refused
(`Remembers`), and a record that is staged or landed early remembers at least as much:
whatever part of a failed batch is on disk, a restart only refuses more.  `DeliveryOK` adds
what is still to come, for each transaction on its own.  As long as none of its admissions
was late (`Counted`), at most one member of the two batches would give it to the
application, and only if the application does not have it, or lost it in a crash
(`Pending`); from then on the state on top of the batch refuses it; and once it was
delivered as often as it may be, every state a restart can read refuses it without custody
(`Blocks`).  Once it was admitted late its window may be gone and none of this holds; it is
then spent, so custody gives it no second chance (`Orderly`), and `Tally` counts: what was
delivered, what waits in batches and what the application has not taken are together at
most one, plus the excused crashes, plus the late admissions.

`MailOK` relates an element of the relay inbox to custody: until it is spent, mail that a
window refuses and that nobody took is in custody in the same record, so it is offered to
the application and never retired as a replay of itself; a pass that retires it rests on a
take or on a refusal that drops live messages too, through all the steps between the
judgement and the end of the pass (`Kept`).  `CustodyOutlived` is what keeps a spent stream
from taking such mail with it.

**Outbound capacity** (`TransferCapacityProofs`): `TypeInvariant`, `WakeupsKept` and
`Refinement` (`Spec => Abstract!Spec`, the safety half of `ImplementsFairShare`), from
`DemandAssumption` and `ReservationAssumption`: the rule of a scope is Boolean, and a
demand that fits beside some holders fits beside fewer.  Both are evaluated by TLC for the
rules of OutboundCapacity, and the second is proved of them, below.  They hold for any
number of peers, transfers and waiters and for any sizes; the wait budget plays no part in
them.

`NoLostWake` is not inductive: a waiter must have left a waker, or be about to be polled,
before arming it can wake it.  `Due` adds that an armed waiter is the front of its queue
and due to be polled, and that a waiter without a waker is due to be polled.  `Fits` is
monotone, so only a step that returns a share or changes the front can make the front fit:
a release leaves its thread "freed" at the scope, whose next step arms whatever is the
front by then; a front that leaves, served or not, arms the next.  For the refinement every
step is an abstract step at one scope or a stutter: taking a reservation is `TakeReserved`,
the rest of an admission `Borrow` or `Serve`, a queued request `Enqueue`, a wait given up
`Leave`, a release `GiveBack`.  `TypeInvariant` provides what the abstract guards ask: a
demand stands once in at most one queue and holds no share it is about to take.

**Rerouting** (`ReroutingProofs`): `ReroutingTransfers` (a behaviour of the composition is
a behaviour of TransferCapacity, so the theorems above hold of it), `PlaceOKAlways` and
`NoMissedEventAlways`, from `PlacementAssumption` and `CoverAssumption` (a reservation
covers less once others hold more).  `NoMissedEvent` speaks of a sleeping placement;
`Attentive` adds the moments before: between the reading of the hop and that of the node, a
hop that was seen full still is, or a thread that freed a share there is about to notify
the placement that registered before it read.  A step that makes room at a scope returns a
share, and then its thread stands "freed" until it has notified, or lets a waiter leave the
queue, which notifies in the same step; both follow from `Fits` and `Covers` being monotone
in the holders.

**Reservations** (`ReservedCapacityProofs`): `FittingKeepsReservations`, `CoveredFits`,
`FittingSurvivesRelease`, `ReleaseKeepsReservations` and `EmptyIsFree`, of
`fair_reservation_fits` and `fixed_reservation_covers` for any finite set of classes.  The
sums are folds of the community modules, recursive functions over subsets.  They are
related to `Weight`, the number of pairs of an element and a unit of it, whose laws are
those of cardinality: the weight satisfies the recursion, and a function that satisfies it
and is not the weight has a least subset on which the two differ, which is impossible.  A
least counterexample takes the place of an induction, which the provers cannot apply.  With
it the law is arithmetic: what all classes hold or may still claim is what they hold, what
the others may still claim, and the rest of the own reservation.

**The rules of outbound capacity** (`OutboundCapacityProofs`), from `BudgetAssumption`
(finite classes, each with its reservation, that fit the capacity together: they are
constants in the code) and `RulesAssumption` (TransferCapacity runs by these rules):
`RulesAreMonotone` (`try_reserve` and `reservation_covers` are monotone in the holders at
both scopes), `ReservationsKeptAlways`, and `ReservationHonouredAlways`: a demand that the
reservation of its class covers fits, so the attempt that precedes the queue admits it at
once.  Shares are only taken under `Fits`, whatever the thread read before it took the
lock.

**Inbound admission** (`InboundAdmissionProofs`), for any lanes, introducers, requests and
budgets that satisfy `CapacityAssumption` (the reservations of the lanes fit the mailbox,
as the code asserts; finitely many slots introduce messages) and `RequestsAssumption`:
`TypeOKAlways`, `ReservationsKeptAlways`, `RefusalsAgreeAlways`, the action property
`StreamOrderAlways` and `StrandedBehindRefusedAlways`.  `RefusalsAgree` and the order of a
stream are not inductive, because a judgement is two steps: blockers are read, charges go back to the
ledger, and only then the waiter is granted or refused.  `AdmissionInv` adds
`ReadingStands`: what was read still holds at the decision.  An earlier waiter that did not
overlap the footprint still does not, since returned charges only shrink a footprint
(`FootprintShrinks`: a reservation or a floor that covers a request goes on covering it)
and nobody but the holder of the lock changes what a waiter holds.  That gives
`StreamOrder` at a grant.  At a refusal the set that refuses lies within the footprint
(`RefusalInFootprint`); this is where the reservations come in: a covered request fits
(`CoveredFits`), so the budgets that a footprint leaves out never refuse.  A refusal is
therefore disjoint from those of earlier waiters, and later waiters that overlap are
demoted, which is what `RefusalsAgree` says.

`StrandedBehindRefused` says of the quiet moments that no wake-up was lost.  Its invariant,
`AnchorInv`, says of every moment why each waiter waits: some resource it is parked under
is its *anchor*.  An earlier waiter blocks it there (`Behind`), or it was refused there and
the budget still has no room (`Refuses`), or a scan of that resource will reach it
(`Waking`): the scan is named or under way and has not passed it, or the waiter under
judgement has let go of the resource, or a thread that returned a charge owes the scan.
The steps hand one reason on to another.  Taking a waiter out of the indices turns those
behind it into ones to be woken; the end of the judgement keeps what the waiter still holds
and names the rest.  A returned charge makes room only in budgets its thread owes a scan
of, and a grant makes none (`RefusesMore`: all three budgets are monotone in their charges,
the shares of the open-message pool included, which shrink as claimants join).  The stop
rule of a scan is sound because the waiter it stops at was the first of those left
(`JudgedFirst`): the others are now behind it, or behind what blocks it.  A lane is no
anchor for a refused waiter, since what refused it is the shared capacity; without that
clause the invariant is not inductive.  When every event is over nothing wakes, so an
admissible waiter is behind another at `Shared` or `OpenPool`, the only resources a
footprint may shed; the first waiter refused there has no anchor but its refusal.

Three formulas did not survive their proofs.  An earlier form of `MemoryBelowDisk` was
stronger and true of the runs' small instances only; it is restated over the leases and
over what a window refuses while its stream is not spent, which is what the other laws use.
`refusal_of` was a CASE with guards that overlap, which leaves the choice open; it is the
chain of early returns that the code has.  `StrandedBehindRefused` asked that the earlier
waiter be refused now by the very set that refused it; on three lanes another request of its
peer can be granted meanwhile, and the peer's budget then refuses it first.  It is restated
per resource: the budget that refused the earlier waiter still has no room for it.

Only model-checked: the liveness properties and the fairness half of the refinement, since
fairness is out of the prover's reach.  Every invariant and every action property that a
passing run checks is also proved.

## 3. Plan

In this order; each with its own runs, mutants and, where marked, proofs.

1. **ReportHandlers** — connection plans and redial suppression between claim and
   application (`dht/topology/connection_plan.rs`, `message/handlers/stabilization`).
2. **ChordNetwork** — several nodes over lossy, duplicating, reordering channels:
   join, notify, stabilize, sync, leave; convergence to `ChordFixpoint` from any
   connected membership.
3. **Delivery** — greedy forwarding with one handoff: at most twice as many hops as
   members, no loops (proof from `RoutingProgress`).  Rerouting — built for fixed routes;
   left: routes that move and links that are replaced.
4. **Replay** — built and proved: windows, group commit, leases, custody, crash and restore.
   Left: at-most-once as an abstract specification that it implements, and link-local windows.
5. **DataTopic** — entry merge as a join semilattice, retention, inbox; replicas
   converge (proof of the algebra).
6. Fair admission — built: reservations, both queues, the inbound mailbox and the outbound
   capacity, with their safety proved.
7. **LinkCredit** and **OutboundReady** — flow control, and the ready queue of a link with
   its cancellation gate.
8. **PendingConnections** — offers, answers, crossing offers, generations.
9. **RelayHold**, **Reassembly**, **FileStore** (crash recovery), then measurement
   and onion admission.
10. Proofs: the refinements above.

Not modelled and not planned: cryptography (signatures, delegation, Sphinx, AEZ),
codecs, WebRTC and SCTP themselves, command-line, RPC and FFI bindings, the webview
rewriter and the frontend: pure computation on data a model would treat as opaque, or
pure I/O.
