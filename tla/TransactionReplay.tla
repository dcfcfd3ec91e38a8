--------------------------- MODULE TransactionReplay ---------------------------
(***************************************************************************)
(* Replay protection of signed transactions across group commit, relay     *)
(* custody and restarts (crates/core/src/message/replay.rs, replay/*.rs,   *)
(* and its user for stored mail, swarm/inbox.rs).                          *)
(*                                                                         *)
(* One mutex serializes the transitions, so one transition is one action:  *)
(* it runs on the speculative tables, logs the values it replaces, stages  *)
(* its records into the open batch and waits.  A single flusher takes the  *)
(* open batch, writes it outside the mutex and settles it; each of these   *)
(* is an action, and transitions run in between.  A batch may fail with    *)
(* any part of it on disk.  The process may crash before any action.       *)
(*                                                                         *)
(* Rewinding an undo log last entry first leaves at every key the first    *)
(* value logged for it, so the log is kept as that function.  A stream's   *)
(* window, custody and charge are three maps in the code and one record    *)
(* on disk; here they are one record in both places.                       *)
(*                                                                         *)
(* The expiry of a message is judged before its admission waits for the    *)
(* mutex and for the store to load, and a pass over the relay inbox judges *)
(* all its elements by the instant it started at.  Nothing bounds either   *)
(* wait: a message that was checked in time may be admitted at any later   *)
(* instant of the same process.                                            *)
(*                                                                         *)
(* The origin quota is a refusal that may happen at any admission.  The    *)
(* store is read again at the restart; the code reads it at the first      *)
(* transition, before which nothing can change it.                         *)
(***************************************************************************)
EXTENDS ReplayWindow, SlotAccounting, Sequences

CONSTANTS
    Senders,          \* sender streams of this node
    Receivers,        \* receiver streams
    Live, Relayed,    \* transactions a peer sends, and those a relay inbox holds
    Capacity,         \* TRANSACTION_REPLAY_STREAM_CAPACITY
    CustodyCapacity,  \* RELAY_CUSTODY_CAPACITY
    Counts,           \* sizes of a reservation
    Damaged,          \* a record that does not restore
    MaxNow, MaxMembers, MaxLate, MaxCrashes, MaxDamaged    \* bounds of the model

Tx == Live \cup Relayed
Key == Senders \cup Receivers

ASSUME TransactionAssumption ==
    \A tx \in Tx : tx.stream \in Receivers /\ tx.sequence \in Sequence /\ tx.expires \in Nat
ASSUME KeyAssumption ==
    /\ Senders \cap Receivers = {}
    /\ Counts \subseteq Nat \ {0}
    /\ Capacity \in Nat /\ CustodyCapacity \in Nat
ASSUME NoneAssumption ==
    /\ None \notin Tx /\ Damaged # None
    /\ None \notin Nat /\ Damaged \notin Nat
    /\ None \notin [issued : Nat, leased : Nat]

VARIABLES
    now,         \* the wall clock
    started,     \* the instant the process started
    tables,      \* the speculative tables: stream -> its state, or None
    disk,        \* the replay store: stream -> its record, None or Damaged
    open,        \* the batch that transitions join
    flight,      \* the batch being written
    flusher,     \* what the flusher does next
    carrier,     \* elements the relay inbox holds
    handed,      \* element -> where it stands toward the application
    pass,        \* the pass over the relay inbox: the instant it judges by, the
                 \* elements it has not come to, and why it retires others; or None
    returned,    \* history: sender stream -> sequence -> times handed out
    delivered,   \* history: transaction -> times the application got it
    excused,     \* history: transaction -> crashes between its take and its release
    late,        \* history: transaction -> admissions that waited past the tolerance
    before,      \* history: the tables before the batch in flight
    taken,       \* history: the tables when the batch in flight was taken
    crashes      \* crashes so far

vars == <<now, started, tables, disk, open, flight, flusher, carrier, handed, pass,
          returned, delivered, excused, late, before, taken, crashes>>

\* The state of a receiver stream and of a sender stream.
WindowType ==
    {w \in [high : Sequence, slots : [Slot -> Tx \cup {None}]] :
        /\ w.slots[0] # None
        /\ \A d \in Slot : w.slots[d] # None => d <= w.high /\ w.slots[d].sequence = w.high - d}

StreamType == [window : WindowType, custody : SUBSET Relayed,
               introducer : Principal, spentAt : Nat]
LeaseType == [issued : Sequence, leased : Sequence]

ASSUME RecordAssumption ==
    None \notin WindowType /\ {None, Damaged} \cap StreamType = {}

-----------------------------------------------------------------------------
(* Records and batches.                                                    *)

\* f where it is defined, g elsewhere.
Over(f, g) ==
    [k \in DOMAIN f \cup DOMAIN g |-> IF k \in DOMAIN f THEN f[k] ELSE g[k]]

Empty == [k \in {} |-> None]
NoBatch == [undo |-> Empty, records |-> Empty, members |-> <<>>]

\* A record without the deliveries in custody.
RecordUnheld(t, k) ==
    IF t[k] = None THEN None
    ELSE IF k \in Senders THEN t[k].leased ELSE [t[k] EXCEPT !.custody = {}]

\* The record of a stream: a sender keeps its lease alone.
Record(t, k) == IF t[k] = None THEN None ELSE IF k \in Senders THEN t[k].leased ELSE t[k]

\* The tables a scan of the store restores.
Restore(d) ==
    [k \in Key |-> IF d[k] \in {None, Damaged} THEN None
                   ELSE IF k \in Senders THEN Restored(d[k]) ELSE d[k]]

Unavailable(k) == disk[k] = Damaged

WindowOf(stream) == IF stream = None THEN None ELSE stream.window

\* admits_new_stream: the streams of the table and the records that do not restore.
AdmitsNewStream(t, table) ==
    Cardinality({k \in table : t[k] # None}) + Cardinality({k \in Key : Unavailable(k)})
        < Capacity

Use(t) ==
    [p \in Principal |-> Cardinality({r \in Receivers : t[r] # None /\ t[r].introducer = p})]

\* Deliveries in custody over the whole table.
Custody(t) == UNION {t[r].custody : r \in {s \in Receivers : t[s] # None}}

-----------------------------------------------------------------------------
(* A transition joins the open batch with its effect; a refused one has    *)
(* none but waits as well.  The first to join starts the flusher.          *)

Member(op, item, outcome, seqs) ==
    [op |-> op, item |-> item, outcome |-> outcome, seqs |-> seqs]

\* A transition whose caller does nothing more with its result.
Unread == Member("unread", None, None, {})

\* A log that keeps the last value replaced instead of the first.
LoggedLast(undo, t) == Over([k \in {j \in Key : t[j] # tables[j]} |-> tables[k]], undo)

\* Undo entries of a batch, with the values that t would replace.
Logged(undo, t) == Over(undo, [k \in {j \in Key : t[j] # tables[j]} |-> tables[k]])

\* A batch that keeps the first record a stream staged.
StagedFirst(new, old) == Over(old, new)

\* The records of a batch with those a transition stages: the last one counts.
Staged(new, old) == Over(new, old)

\* The clock tolerance has passed since the last instant at which a check of the
\* transaction succeeds, live or out of the relay inbox.
Past(tx) == tx.expires + Horizon + Sigma <= now

\* An admission that waited for the tolerance or longer after its check.
Overdue(member) ==
    member.op \in {"admit", "relay"} /\ member.outcome = "Ok" /\ Past(member.item)

LateSoFar == MapThenSumSet(LAMBDA tx : late[tx], Tx)

Join(t, records, member) ==
    /\ Len(open.members) < MaxMembers
    /\ tables' = t
    /\ open' = [undo    |-> Logged(open.undo, t),
                records |-> Staged(records, open.records),
                members |-> Append(open.members, member)]
    /\ flusher' = IF flusher = "idle" THEN "take" ELSE flusher
    /\ Overdue(member) => LateSoFar < MaxLate
    /\ late' = IF Overdue(member) THEN [late EXCEPT ![member.item] = @ + 1] ELSE late
    /\ UNCHANGED <<now, started, disk, flight, carrier, returned, delivered, excused,
                   before, taken, crashes>>

\* The reason of a refusal matters to a pass over the relay inbox alone.
Refuse(op, item, outcome) ==
    Join(tables, Empty, IF op = "relay" THEN Member(op, item, outcome, {}) ELSE Unread)

\* Sender: reserve and allocate_in.
ReserveRefusal(s, count) ==
    IF Unavailable(s) THEN "Unavailable"
    ELSE IF tables[s] = None /\ ~AdmitsNewStream(tables, Senders) THEN "Capacity"
    ELSE IF Exhausted(tables[s], count) THEN "Exhausted"
    ELSE "Ok"

Reserve(s, count) ==
    /\ LET refusal == ReserveRefusal(s, count)
           t       == [tables EXCEPT ![s] = Allocate(tables[s], count)]
       IN  IF refusal # "Ok" THEN Refuse("reserve", s, refusal)
           ELSE Join(t,
                     IF InLease(tables[s], count) THEN Empty ELSE [k \in {s} |-> Record(t, s)],
                     Member("reserve", s, "Ok", Allocated(tables[s], count)))
    /\ UNCHANGED <<handed, pass>>

-----------------------------------------------------------------------------
(* Receiver.                                                               *)

\* retire_spent: expire custody, then forget the streams that are spent.
Retired(t) ==
    [k \in Key |->
        IF k \in Senders \/ t[k] = None THEN t[k]
        ELSE IF t[k].spentAt <= now THEN None
        ELSE [t[k] EXCEPT !.custody = {tx \in t[k].custody : now < SpentAt(tx)}]]

\* Records of the streams that differ between two tables.
Changed(t, u) == [k \in {j \in Key : t[j] # u[j]} |-> Record(u, k)]

\* A stream spent with its latest transaction, not with its longest-lived one.
AdmittedLatest(stream, tx, principal, relayed) ==
    IF stream = None
    THEN [window |-> Observe(None, tx), custody |-> relayed,
          introducer |-> principal, spentAt |-> SpentAt(tx)]
    ELSE [window |-> Observe(stream.window, tx), custody |-> stream.custody \cup relayed,
          introducer |-> stream.introducer, spentAt |-> SpentAt(tx)]

\* The stream after admitting a transaction, charged to whom introduced it.
Admitted(stream, tx, principal, relayed) ==
    IF stream = None
    THEN [window |-> Observe(None, tx), custody |-> relayed,
          introducer |-> principal, spentAt |-> SpentAt(tx)]
    ELSE [window |-> Observe(stream.window, tx), custody |-> stream.custody \cup relayed,
          introducer |-> stream.introducer,
          spentAt |-> Greatest(stream.spentAt, SpentAt(tx))]

\* admit_in on the tables t: the refusal, or "Ok".
AdmitRefusal(t, tx, principal) ==
    IF Unavailable(tx.stream) THEN "Unavailable"
    ELSE IF /\ t[tx.stream] = None
            /\ ~(AdmitsNewStream(t, Receivers) /\ AdmitsItem(Use(t), principal))
         THEN "Capacity"
    ELSE IF ~Permits(WindowOf(t[tx.stream]), tx) THEN Verdict(WindowOf(t[tx.stream]), tx)
    ELSE "Ok"

AdmitInto(t, op, tx, principal, relayed) ==
    LET refusal == AdmitRefusal(t, tx, principal)
        u       == [t EXCEPT ![tx.stream] = Admitted(@, tx, principal, relayed)]
    IN  IF refusal # "Ok" THEN Refuse(op, tx, refusal)
        ELSE \/ Refuse(op, tx, "Quota")
             \/ Join(u, Over([k \in {tx.stream} |-> Record(u, k)], Changed(tables, t)),
                     Member(op, tx, "Ok", {}))

\* admit_with_quota: a message of a peer whose expiry was checked at some
\* instant since the process started.
Admit(tx, principal) ==
    /\ started <= tx.expires
    /\ AdmitInto(Retired(tables), "admit", tx, principal, {})
    /\ UNCHANGED <<handed, pass>>

\* The pass waits for no transition.
PassIdle ==
    \A batch \in {open, flight} : \A i \in DOMAIN batch.members :
        batch.members[i].op # "relay"

\* The pass comes to an element.
Visits(tx) == pass # None /\ tx \in pass.left /\ PassIdle

\* admit_relayed: an element of the inbox, not handed over in this process.
Offer(tx) ==
    /\ Visits(tx) /\ handed[tx] = "Unknown"
    /\ pass.at <= tx.expires + Horizon
    /\ pass' = [pass EXCEPT !.left = @ \ {tx}]
    /\ LET t == Retired(tables)
       IN  CASE Unavailable(tx.stream) -> Refuse("relay", tx, "Unavailable")
             [] ~Unavailable(tx.stream) /\ tx \in Custody(t) ->
                    Join(t, Changed(tables, t), Member("relay", tx, "InCustody", {}))
             [] ~Unavailable(tx.stream) /\ tx \notin Custody(t) ->
                    IF Cardinality(Custody(t)) >= CustodyCapacity
                    THEN Refuse("relay", tx, "CustodyFull")
                    ELSE AdmitInto(t, "relay", tx, "Inbox", {tx})
    /\ UNCHANGED handed

\* release_relayed, on the signal that the application took the message.
Release(tx) ==
    /\ handed[tx] = "Taken"
    /\ LET held == tables[tx.stream] # None /\ tx \in tables[tx.stream].custody
           t    == IF held THEN [tables EXCEPT ![tx.stream].custody = @ \ {tx}] ELSE tables
       IN  Join(t, Changed(tables, t), Member("release", tx, "Ok", {}))
    /\ handed' = [handed EXCEPT ![tx] = "Releasing"]
    /\ UNCHANGED pass

-----------------------------------------------------------------------------
(* The flusher.                                                            *)

\* A flusher that ends and leaves its batch marked as in flight.
TakeForgets ==
    /\ flusher = "take"
    /\ IF open.members = <<>>
       THEN flusher' = "ended" /\ UNCHANGED <<open, flight, taken>>
       ELSE flusher' = "write" /\ flight' = open /\ open' = NoBatch /\ taken' = tables
    /\ UNCHANGED <<now, started, tables, disk, carrier, handed, pass, returned, delivered,
                   excused, late, before, crashes>>

\* Take the open batch, or end when no transition joined it.
Take ==
    /\ flusher = "take"
    /\ IF open.members = <<>>
       THEN flusher' = "idle" /\ UNCHANGED <<open, flight, taken>>
       ELSE flusher' = "write" /\ flight' = open /\ open' = NoBatch /\ taken' = tables
    /\ UNCHANGED <<now, started, tables, disk, carrier, handed, pass, returned, delivered,
                   excused, late, before, crashes>>

\* What may be on disk of a batch that failed: removals land before writes.
Landing(landed) ==
    (\E k \in landed : flight.records[k] # None)
        => \A k \in DOMAIN flight.records : flight.records[k] = None => k \in landed

Write ==
    /\ flusher = "write"
    /\ \/ /\ flusher' = "durable"
          /\ disk' = Over(flight.records, disk)
       \/ /\ flusher' = "failed" /\ flight.records # Empty
          /\ \E landed \in SUBSET DOMAIN flight.records :
                /\ Landing(landed)
                /\ disk' = Over([k \in landed |-> flight.records[k]], disk)
    /\ UNCHANGED <<now, started, tables, open, flight, carrier, handed, pass, returned,
                   delivered, excused, late, before, taken, crashes>>

\* How many members of a batch satisfy P.
Members(batch, P(_)) == Cardinality({i \in DOMAIN batch.members : P(batch.members[i])})
Some(batch, P(_)) == Members(batch, P) > 0

Handover(m, tx) ==
    m.op = "relay" /\ m.item = tx /\ m.outcome \in {"Ok", "InCustody"}

\* A refusal on which a pass retires the element, as the live path drops the message.
Drops(m, tx) ==
    /\ m.op = "relay" /\ m.item = tx
    /\ m.outcome \in {"Replay", "Fork", "Stale", "Capacity", "Unavailable"}

\* A full custody ends the pass; a spent quota does not.
Stops(m) == m.op = "relay" /\ m.outcome = "CustodyFull"

\* The pass after a batch was written, when core refused some of the messages.
Passed(refused) ==
    LET drops    == {tx \in Relayed : Some(flight, LAMBDA m : Drops(m, tx))}
        why(tx)  == IF tx \notin refused /\ Some(flight, LAMBDA m : Drops(m, tx)
                                                              /\ m.outcome = "Replay")
                    THEN "Replay" ELSE "Refused"
    IN  [pass EXCEPT !.done = Over([tx \in refused \cup drops |-> why(tx)], @),
                     !.left = IF Some(flight, Stops) THEN {} ELSE @]

\* settle on success, and the members' callers going on with their results: core
\* handles a relayed message before the application gets it, and may refuse it.
SettleDurable ==
    /\ flusher = "durable"
    /\ flusher' = "take" /\ flight' = NoBatch /\ before' = taken
    /\ returned' = [s \in Senders |-> [q \in Sequence |->
           returned[s][q] + Members(flight, LAMBDA m : m.op = "reserve" /\ m.item = s
                                                       /\ q \in m.seqs)]]
    /\ delivered' = [tx \in Tx |->
           delivered[tx] + Members(flight, LAMBDA m : m.op = "admit" /\ m.item = tx
                                                      /\ m.outcome = "Ok")]
    /\ \E refused \in SUBSET {tx \in Relayed : Some(flight, LAMBDA m : Handover(m, tx))} :
          /\ pass' = IF pass = None THEN None ELSE Passed(refused)
          /\ handed' = [tx \in Relayed |->
                IF tx \notin refused /\ Some(flight, LAMBDA m : Handover(m, tx)) THEN "Untaken"
                ELSE IF Some(flight, LAMBDA m : m.op = "release" /\ m.item = tx) THEN "Released"
                ELSE handed[tx]]
    /\ UNCHANGED <<now, started, tables, disk, open, carrier, excused, late, taken, crashes>>

Rewind(undo, t) == Over(undo, t)

\* settle on failure: the open batch ran on top of the failed one.  A pass
\* whose offer fails ends.
SettleFailed ==
    /\ flusher = "failed"
    /\ flusher' = "take" /\ flight' = NoBatch /\ open' = NoBatch
    /\ tables' = Rewind(flight.undo, Rewind(open.undo, tables))
    /\ handed' = [tx \in Relayed |->
           IF \E batch \in {open, flight} :
                Some(batch, LAMBDA m : m.op = "release" /\ m.item = tx)
           THEN "Unreleased" ELSE handed[tx]]
    /\ pass' = IF pass = None \/ PassIdle THEN pass ELSE [pass EXCEPT !.left = {}]
    /\ UNCHANGED <<now, started, disk, carrier, returned, delivered, excused, late, before,
                   taken, crashes>>

-----------------------------------------------------------------------------
(* Mail between the relay inbox and the application.                       *)

Unreplayed ==
    <<now, started, tables, disk, flusher, returned, excused, late, before, taken, crashes>>

\* An element is held for this node, or held still by a member that lags.
Hold(tx) ==
    /\ tx \notin carrier /\ now <= tx.expires + Horizon
    /\ carrier' = carrier \cup {tx}
    /\ UNCHANGED <<Unreplayed, open, flight, handed, pass, delivered>>

\* The application takes the message from its inbox.
TakeMail(tx) ==
    /\ handed[tx] = "Untaken"
    /\ handed' = [handed EXCEPT ![tx] = "Taken"]
    /\ delivered' = [delivered EXCEPT ![tx] = @ + 1]
    /\ UNCHANGED <<Unreplayed, open, flight, carrier, pass>>

\* The application closes its inbox with the message in it.
Discard(tx) ==
    /\ handed[tx] = "Untaken"
    /\ handed' = [handed EXCEPT ![tx] = "Discarded"]
    /\ UNCHANGED <<Unreplayed, open, flight, carrier, pass, delivered>>

\* A handed-over element that a pass over a report without it forgets.  A message
\* still queued, or whose release is under way, goes on: it stays here.
Forgotten(tx) ==
    \/ handed[tx] = "Consumed"
    \/ handed[tx] \in {"Discarded", "Unreleased", "Released"} /\ SpentAt(tx) <= now

\* drain: one pass at a time starts on a report, which may lag behind the carrier,
\* and reads the clock once for all its elements.
BeginPass ==
    /\ pass = None
    /\ \E report \in SUBSET carrier :
          /\ pass' = [at |-> now, left |-> report, done |-> Empty]
          /\ handed' = [tx \in Relayed |->
                IF tx \notin report /\ Forgotten(tx) THEN "Unknown" ELSE handed[tx]]
    /\ UNCHANGED <<Unreplayed, open, flight, carrier, delivered>>

\* The pass finds that an element was taken and released.
Poll(tx) ==
    /\ Visits(tx) /\ handed[tx] \in {"Released", "Consumed"}
    /\ handed' = [handed EXCEPT ![tx] = "Consumed"]
    /\ pass' = [pass EXCEPT !.left = @ \ {tx}, !.done = Over([k \in {tx} |-> "Consumed"], @)]
    /\ UNCHANGED <<Unreplayed, open, flight, carrier, delivered>>

\* The pass ends, early when the application has no room, and retires what core
\* is done with by one removal, which may fail.
EndPass ==
    /\ pass # None /\ PassIdle
    /\ pass' = None
    /\ carrier' \in {carrier, carrier \ DOMAIN pass.done}
    /\ UNCHANGED <<Unreplayed, open, flight, handed, delivered>>

\* The pass meets its deadline and retires nothing: the transition it waits for
\* goes on, its result is not used.
CutPass ==
    LET leave(m)   == IF m.op = "relay" THEN Unread ELSE m
        cut(batch) == [batch EXCEPT !.members = [i \in DOMAIN @ |-> leave(@[i])]]
    IN  /\ ~PassIdle
        /\ pass' = None
        /\ open' = cut(open) /\ flight' = cut(flight)
        /\ UNCHANGED <<Unreplayed, carrier, handed, delivered>>

-----------------------------------------------------------------------------
(* Time, crashes and the life of the store.                                *)

Tick ==
    /\ now < MaxNow
    /\ now' = now + 1
    /\ UNCHANGED <<started, tables, disk, open, flight, flusher, carrier, handed, pass,
                   returned, delivered, excused, late, before, taken, crashes>>

\* The process stops and starts again; records may be damaged meanwhile.
Crash ==
    /\ crashes < MaxCrashes
    /\ crashes' = crashes + 1
    /\ \E lost \in SUBSET {k \in Key : disk[k] \notin {None, Damaged}} :
          /\ Cardinality(lost \cup {k \in Key : Unavailable(k)}) <= MaxDamaged
          /\ disk' = [k \in Key |-> IF k \in lost THEN Damaged ELSE disk[k]]
    /\ tables' = Restore(disk') /\ before' = tables' /\ taken' = tables'
    /\ open' = NoBatch /\ flight' = NoBatch /\ flusher' = "idle"
    /\ started' = now /\ pass' = None
    /\ handed' = [tx \in Relayed |-> "Unknown"]
    /\ excused' = [tx \in Relayed |->
           excused[tx] + IF handed[tx] \in {"Taken", "Releasing", "Unreleased"} THEN 1 ELSE 0]
    /\ UNCHANGED <<now, carrier, returned, delivered, late>>

Init ==
    /\ now = 0 /\ started = 0 /\ pass = None
    /\ tables = [k \in Key |-> None] /\ before = tables /\ taken = tables
    /\ disk = [k \in Key |-> None]
    /\ open = NoBatch /\ flight = NoBatch /\ flusher = "idle"
    /\ carrier = {}
    /\ handed = [tx \in Relayed |-> "Unknown"]
    /\ returned = [s \in Senders |-> [q \in Sequence |-> 0]]
    /\ delivered = [tx \in Tx |-> 0]
    /\ excused = [tx \in Relayed |-> 0] /\ late = [tx \in Tx |-> 0]
    /\ crashes = 0

\* Who introduces a transaction that does not come out of the relay inbox.
Introducer == Slots \cup {"Local", "Unbound"}

Next ==
    \/ \E s \in Senders, count \in Counts : Reserve(s, count)
    \/ \E tx \in Live, principal \in Introducer : Admit(tx, principal)
    \/ \E tx \in Relayed : \/ Offer(tx) \/ Release(tx) \/ Hold(tx) \/ TakeMail(tx)
                           \/ Discard(tx) \/ Poll(tx)
    \/ BeginPass \/ EndPass \/ CutPass
    \/ Take \/ Write \/ SettleDurable \/ SettleFailed
    \/ Tick \/ Crash

Spec == Init /\ [][Next]_vars

\* The flusher is a task of the runtime that only waits for the lock and the store.
Fairness ==
    WF_vars(Take) /\ WF_vars(Write) /\ WF_vars(SettleDurable) /\ WF_vars(SettleFailed)

LiveSpec == Spec /\ Fairness

-----------------------------------------------------------------------------
(* Properties.                                                             *)

\* Every window of a stream holds its own transactions at their own sequences
\* (SequenceState::is_valid, checked by the code at a restore), and every
\* record on disk restores to such a stream.
TypeOK ==
    /\ \A k \in Senders : tables[k] = None \/ tables[k] \in LeaseType
    /\ \A k \in Receivers :
          /\ tables[k] = None \/ tables[k] \in StreamType
          /\ disk[k] \in {None, Damaged} \/ disk[k] \in StreamType
    /\ \A k \in Senders : disk[k] \in {None, Damaged} \/ disk[k] \in Sequence
    /\ flusher \in {"idle", "take", "write", "durable", "failed"}
    /\ flusher = "idle" => open = NoBatch
    /\ flusher \in {"idle", "take"} => flight = NoBatch

\* No sequence is handed to a signer twice, whatever batches fail and wherever
\* the process stops (the no-reuse law of replay/lease.rs).
NeverReused == \A s \in Senders : \A q \in Sequence : returned[s][q] <= 1

\* The application gets a transaction once, live or out of the relay inbox;
\* once more only for a crash after its take and before its release (the
\* duplicate-window law of replay/custody.rs, and the eviction of spent streams).
\* Nothing in the code bounds the wait between the check of an expiry and the
\* admission: each admission that waited past the clock tolerance may add one.
DeliveredOnce ==
    \A tx \in Tx :
        delivered[tx] <= 1 + (IF tx \in Relayed THEN excused[tx] ELSE 0) + late[tx]

\* Undoing the open batch and then the one in flight gives back the tables
\* from before the batch in flight (the fail-closed law of replay/commit.rs).
FailsClosed == Rewind(flight.undo, Rewind(open.undo, tables)) = before

\* What the released transitions rest on is on disk: the leases, and for every
\* stream that is not spent all that its window refuses (memory below disk,
\* replay/commit.rs).
MemoryBelowDisk ==
    /\ \A s \in Senders :
          before[s] # None => disk[s] = Damaged \/ (disk[s] # None /\ before[s].leased <= disk[s])
    /\ \A tx \in Tx :
          /\ before[tx.stream] # None /\ now < before[tx.stream].spentAt
          /\ ~Permits(before[tx.stream].window, tx)
          => disk[tx.stream] = Damaged \/ ~Permits(WindowOf(disk[tx.stream]), tx)

\* An entry of custody is spent no later than its stream, so a stream that is
\* retired takes no undelivered mail with it (Ledger::retire_spent).
CustodyOutlived ==
    \A t \in {tables, Restore(disk)} : \A r \in Receivers :
        t[r] # None => \A tx \in t[r].custody :
            /\ tx.stream = r /\ ~Permits(t[r].window, tx)
            /\ SpentAt(tx) <= t[r].spentAt

\* Mail that comes from the relay inbox alone leaves it only once the
\* application took it, or on a refusal of core that drops live messages too,
\* never as a replay of itself while it may be delivered (the at-least-once law
\* of swarm/inbox.rs, which ends with the retention of the element).
MailKept ==
    [][\A tx \in Relayed \ Live : tx \in carrier /\ tx \notin carrier' =>
          delivered[tx] > 0 \/ Past(tx) \/ pass.done[tx] = "Refused"]_vars

\* Every transition that joined a batch is taken by a flusher: none is left
\* behind by a flusher that was just about to end (Journal::join and take).
EveryBatchTaken == open.members # <<>> ~> open.members = <<>>

\* Streams and records that do not restore stay within the table's bound:
\* what the restore relies on when it does not check it again (replay/store.rs).
StreamsWithinBound ==
    Cardinality({r \in Receivers : tables[r] # None})
        + Cardinality({k \in Key : Unavailable(k)}) <= Capacity
=============================================================================
