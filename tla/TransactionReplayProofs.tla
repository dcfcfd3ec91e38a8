------------------------ MODULE TransactionReplayProofs ------------------------
(***************************************************************************)
(* Theorems about TransactionReplay, for all constants: any streams, any   *)
(* window, lease and capacity, any number of members, crashes and damaged  *)
(* records.                                                                *)
(***************************************************************************)
EXTENDS TransactionReplay, FiniteSetTheorems, TLAPS

-----------------------------------------------------------------------------
(* Undo logs.                                                              *)

Table(t) == t = [k \in Key |-> t[k]]

Batch(b) ==
    /\ b = [undo |-> b.undo, records |-> b.records, members |-> b.members]
    /\ b.undo = [k \in DOMAIN b.undo |-> b.undo[k]] /\ DOMAIN b.undo \subseteq Key

Writing == flusher \in {"write", "durable", "failed"}

\* Why failing closed is inductive: while a batch is being written, undoing the
\* open batch alone gives back the tables the flusher took.
Journal ==
    /\ Table(tables) /\ Table(before) /\ Table(taken)
    /\ Batch(open) /\ Batch(flight)
    /\ flusher \in {"idle", "take"} \/ Writing
    /\ ~Writing => flight = NoBatch
    /\ Writing => Rewind(open.undo, tables) = taken
    /\ FailsClosed

LEMMA NoBatchIsBatch == Batch(NoBatch)
BY DEF Batch, NoBatch, Empty

\* Undoing nothing changes nothing.
LEMMA RewindNothing ==
    ASSUME NEW t, Table(t) PROVE Rewind(NoBatch.undo, t) = t
BY DEF Table, Rewind, Over, NoBatch, Empty

LEMMA RewindTable ==
    ASSUME NEW t, Table(t), NEW b, Batch(b) PROVE Table(Rewind(b.undo, t))
BY DEF Table, Batch, Rewind, Over

\* A transition logs enough to undo it: with its entries the log leads back to
\* where it led before.
LEMMA RewindLogged ==
    ASSUME Table(tables), NEW t, Table(t), NEW undo, DOMAIN undo \subseteq Key
    PROVE  Rewind(Logged(undo, t), t) = Rewind(undo, tables)
BY DEF Table, Rewind, Logged, Over

LEMMA LoggedDomain ==
    ASSUME NEW t, NEW undo, DOMAIN undo \subseteq Key
    PROVE  /\ Logged(undo, t) = [k \in DOMAIN Logged(undo, t) |-> Logged(undo, t)[k]]
           /\ DOMAIN Logged(undo, t) \subseteq Key
BY DEF Logged, Over

LEMMA JoinKeepsJournal ==
    ASSUME Journal, NEW t, Table(t), NEW records, NEW member, Join(t, records, member)
    PROVE  Journal'
<1>1. /\ tables' = t /\ open'.undo = Logged(open.undo, t)
      /\ open' = [undo |-> open'.undo, records |-> open'.records, members |-> open'.members]
      /\ UNCHANGED <<flight, before, taken>>
  BY DEF Join
<1>2. Batch(open')
  BY <1>1, LoggedDomain DEF Journal, Batch
<1>3. Rewind(open'.undo, tables') = Rewind(open.undo, tables)
  BY <1>1, RewindLogged DEF Journal, Batch
<1>4. Writing' = Writing /\ (flusher' \in {"idle", "take"} \/ Writing')
  BY DEF Join, Journal, Writing
<1> QED
  BY <1>1, <1>2, <1>3, <1>4 DEF Journal, FailsClosed, Table

LEMMA RefuseKeepsJournal ==
    ASSUME Journal, NEW op, NEW item, NEW outcome, Refuse(op, item, outcome)
    PROVE  Journal'
BY JoinKeepsJournal DEF Refuse, Journal

LEMMA RetiredTable == Table(Retired(tables))
BY DEF Table, Retired

LEMMA AdmitIntoKeepsJournal ==
    ASSUME Journal, NEW t, Table(t), NEW op, NEW tx, NEW principal, NEW relayed,
           AdmitInto(t, op, tx, principal, relayed)
    PROVE  Journal'
<1> DEFINE u == [t EXCEPT ![tx.stream] = Admitted(@, tx, principal, relayed)]
<1>1. Table(u)
  BY DEF Table
<1> QED
  BY <1>1, JoinKeepsJournal, RefuseKeepsJournal DEF AdmitInto

LEMMA JournalInit == Init => Journal
BY NoBatchIsBatch, RewindNothing DEF Init, Journal, Table, FailsClosed, Writing

\* Every step keeps the undo logs faithful.
LEMMA JournalStep == Journal /\ [Next]_vars => Journal'
<1> SUFFICES ASSUME Journal, [Next]_vars PROVE Journal'
  OBVIOUS
<1>1. ASSUME NEW s \in Senders, NEW count \in Counts, Reserve(s, count) PROVE Journal'
  <2>1. Table([tables EXCEPT ![s] = Allocate(tables[s], count)])
    BY DEF Journal, Table
  <2> QED
    BY <1>1, <2>1, JoinKeepsJournal, RefuseKeepsJournal DEF Reserve
<1>2. ASSUME NEW tx \in Live, NEW principal \in Introducer, Admit(tx, principal) PROVE Journal'
  BY <1>2, AdmitIntoKeepsJournal, RetiredTable DEF Admit
<1>3. ASSUME NEW tx \in Relayed, Offer(tx) PROVE Journal'
  BY <1>3, AdmitIntoKeepsJournal, JoinKeepsJournal, RefuseKeepsJournal, RetiredTable DEF Offer
<1>4. ASSUME NEW tx \in Relayed, Release(tx) PROVE Journal'
  <2>1. Table([tables EXCEPT ![tx.stream].custody = @ \ {tx}]) /\ Table(tables)
    BY DEF Journal, Table
  <2> QED
    BY <1>4, <2>1, JoinKeepsJournal DEF Release
<1>5. CASE UNCHANGED <<tables, open, flight, flusher, before, taken>>
  BY <1>5 DEF Journal, Table, Batch, Writing, FailsClosed
<1>6. CASE CutPass
  <2>1. /\ UNCHANGED <<tables, flusher, before, taken>>
        /\ open'.undo = open.undo /\ flight'.undo = flight.undo
        /\ Batch(open') /\ Batch(flight')
    BY <1>6 DEF CutPass, Journal, Batch, Unreplayed
  <2>2. ~PassIdle
    BY <1>6 DEF CutPass
  <2>3. ~Writing => flight' = NoBatch
    BY <1>6 DEF CutPass, Journal, NoBatch
  <2> QED
    BY <2>1, <2>3 DEF Journal, Table, Writing, FailsClosed
<1>7. CASE Take
  <2>1. CASE open.members = <<>>
    BY <1>7, <2>1 DEF Take, Journal, Table, Batch, Writing, FailsClosed
  <2>2. CASE open.members # <<>>
    <3>1. /\ flight' = open /\ open' = NoBatch /\ taken' = tables /\ flusher' = "write"
          /\ UNCHANGED <<tables, before>> /\ flight = NoBatch
      BY <1>7, <2>2 DEF Take, Journal, Writing
    <3>2. Rewind(open.undo, tables) = before
      BY <3>1, RewindNothing, RewindTable DEF Journal, FailsClosed
    <3> QED
      BY <3>1, <3>2, RewindNothing, NoBatchIsBatch DEF Journal, Table, Batch, Writing, FailsClosed
  <2> QED BY <2>1, <2>2
<1>8. CASE Write
  BY <1>8 DEF Write, Journal, Table, Batch, Writing, FailsClosed
<1>9. CASE SettleDurable
  <2>1. /\ flight' = NoBatch /\ before' = taken /\ flusher' = "take"
        /\ UNCHANGED <<tables, open, taken>> /\ Rewind(open.undo, tables) = taken
    BY <1>9 DEF SettleDurable, Journal, Writing
  <2> QED
    BY <2>1, RewindNothing, NoBatchIsBatch DEF Journal, Table, Batch, Writing, FailsClosed
<1>10. CASE SettleFailed
  <2>1. /\ flight' = NoBatch /\ open' = NoBatch /\ flusher' = "take" /\ UNCHANGED <<before, taken>>
        /\ tables' = before
    BY <1>10 DEF SettleFailed, Journal, FailsClosed
  <2> QED
    BY <2>1, RewindNothing, NoBatchIsBatch DEF Journal, Table, Writing, FailsClosed
<1>11. CASE Crash
  <2>1. /\ tables' = Restore(disk') /\ before' = tables' /\ taken' = tables'
        /\ open' = NoBatch /\ flight' = NoBatch /\ flusher' = "idle"
    BY <1>11 DEF Crash
  <2>2. Table(tables')
    BY <2>1 DEF Table, Restore
  <2> QED
    BY <2>1, <2>2, RewindNothing, NoBatchIsBatch DEF Journal, Table, Writing, FailsClosed
<1>12. ASSUME NEW tx \in Relayed, Hold(tx) \/ TakeMail(tx) \/ Discard(tx) \/ Poll(tx)
      PROVE  Journal'
  BY <1>5, <1>12 DEF Hold, TakeMail, Discard, Poll, Unreplayed
<1>13. CASE BeginPass \/ EndPass \/ Tick \/ UNCHANGED vars
  BY <1>5, <1>13 DEF BeginPass, EndPass, Tick, Unreplayed, vars
<1> QED
  BY <1>1, <1>2, <1>3, <1>4, <1>6, <1>7, <1>8, <1>9, <1>10, <1>11, <1>12, <1>13 DEF Next

\* Whatever batches fail, the tables go back to what they were before the
\* batch in flight (the fail-closed law of replay/commit.rs), for any number
\* of transitions in either batch.
THEOREM FailsClosedAlways == Spec => []FailsClosed
<1>1. Journal => FailsClosed
  BY DEF Journal
<1> QED
  BY <1>1, JournalInit, JournalStep, PTL DEF Spec

-----------------------------------------------------------------------------
(* Senders.                                                                *)

LeaseRecord == [issued : Nat, leased : Nat]

\* The allocator of a sender: its lease covers what it issued.
LeaseOK(x) == x = None \/ (x \in LeaseRecord /\ x.issued <= x.leased)

Issued(x) == IF x = None THEN -1 ELSE x.issued

\* y is x or a later allocator of the same stream.
Later(x, y) == x = None \/ (y # None /\ x.issued <= y.issued /\ x.leased <= y.leased)

\* The tables beneath the open batch.
Base == IF Writing THEN taken ELSE before

Op == {"reserve", "admit", "relay", "release", "unread"}
Outcome == {"Ok", "InCustody", "Unavailable", "Capacity", "Exhausted", "CustodyFull", "Quota",
            "First", "Advance", "Late", "Stale", "Replay", "Fork"}
MemberRecord ==
    [op : Op, item : Key \cup Tx \cup {None}, outcome : Outcome \cup {None}, seqs : SUBSET Int]

\* The reservations of s in a batch hand out different sequences, all between
\* the allocator beneath the batch and the one on top of it.
HandsOut(members, s, low, high) ==
    /\ \A i \in DOMAIN members : members[i].op = "reserve" /\ members[i].item = s =>
          \A q \in members[i].seqs : Issued(low) < q /\ q <= Issued(high)
    /\ \A i, j \in DOMAIN members :
          /\ i # j
          /\ members[i].op = "reserve" /\ members[i].item = s
          /\ members[j].op = "reserve" /\ members[j].item = s
          => members[i].seqs \cap members[j].seqs = {}

\* A batch has a record of s if it extends its lease, and the last one.
Covers(records, s, low, high) ==
    IF s \in DOMAIN records THEN high # None /\ records[s] = high.leased
    ELSE low = high \/ (low # None /\ high # None /\ low.leased = high.leased)

OnDisk(x, s) == x # None => disk[s] \in Nat /\ x.leased <= disk[s]

\* What keeps the sequences of one sender apart.
Apart(s) ==
    /\ LeaseOK(before[s]) /\ LeaseOK(Base[s]) /\ LeaseOK(tables[s])
    /\ Later(before[s], Base[s]) /\ Later(Base[s], tables[s])
    /\ Covers(flight.records, s, before[s], Base[s])
    /\ Covers(open.records, s, Base[s], tables[s])
    /\ HandsOut(flight.members, s, before[s], Base[s])
    /\ HandsOut(open.members, s, Base[s], tables[s])
    /\ disk[s] \in Nat \cup {None, Damaged}
    /\ disk[s] = Damaged => tables[s] = None
    /\ OnDisk(before[s], s)
    /\ flusher = "durable" => OnDisk(Base[s], s)
    /\ \A q \in Sequence :
          /\ returned[s][q] \in {0, 1}
          /\ returned[s][q] = 1 => disk[s] = Damaged \/ q <= Issued(before[s])

SendersOK ==
    /\ Journal
    /\ Senders \subseteq DOMAIN disk
    /\ open.members \in Seq(MemberRecord) /\ flight.members \in Seq(MemberRecord)
    /\ \A s \in Senders : Apart(s)

\* An allocation is later than the allocator it starts from, inside its own
\* lease, and hands out only sequences that no earlier allocation did.
LEMMA AllocateFacts ==
    ASSUME NEW x, LeaseOK(x), NEW count \in Counts
    PROVE  LET y == Allocate(x, count)
           IN  /\ y # None /\ LeaseOK(y) /\ Later(x, y)
               /\ InLease(x, count) => x # None /\ y.leased = x.leased
               /\ Allocated(x, count) \subseteq Int
               /\ \A q \in Allocated(x, count) : Issued(x) < q /\ q <= Issued(y)
<1> DEFINE y == Allocate(x, count)
           next == NextSequence(x)
           last == next + count - 1
<1>1. count \in Nat /\ count > 0 /\ Lease \in Nat /\ MaxSequence \in Nat
  BY KeyAssumption, LeaseAssumption, SequenceAssumption
<1>2. next \in Nat /\ last \in Nat /\ next = Issued(x) + 1 /\ Issued(x) \in Int
  BY <1>1 DEF LeaseOK, LeaseRecord, NextSequence, Issued
<1>3. Extended(x, count) \in Nat /\ last <= Extended(x, count)
  BY <1>1, <1>2 DEF Extended, Greatest, Least
<1>4. y = [issued |-> last, leased |-> IF InLease(x, count) THEN x.leased ELSE Extended(x, count)]
  BY DEF Allocate
<1>5. InLease(x, count) => x # None /\ x \in LeaseRecord /\ last <= x.leased
  BY DEF InLease, LeaseOK
<1>6. y \in LeaseRecord /\ y.issued = last /\ last <= y.leased
  BY <1>2, <1>3, <1>4, <1>5 DEF LeaseRecord
<1>7. y # None
  BY <1>6, NoneAssumption DEF LeaseRecord
<1>8. x # None => x.issued <= last /\ x.leased <= y.leased
  BY <1>1, <1>2, <1>3, <1>4 DEF InLease, LeaseOK, LeaseRecord, Issued
<1>9. Allocated(x, count) = next .. last
  BY DEF Allocated
<1> HIDE DEF y, next, last
<1>10. \A q \in next .. last : Issued(x) < q /\ q <= last
  BY <1>2
<1> QED
  BY <1>4, <1>5, <1>6, <1>7, <1>8, <1>9, <1>10, <1>2 DEF LeaseOK, Later, Issued, y

\* The members of an open batch after one more joined.
LEMMA AppendHandsOut ==
    ASSUME NEW members \in Seq(MemberRecord), NEW m \in MemberRecord, NEW s \in Senders,
           NEW low, NEW mid, NEW high, LeaseOK(low), LeaseOK(mid), LeaseOK(high),
           Later(low, mid), Later(mid, high), HandsOut(members, s, low, mid),
           m.op = "reserve" /\ m.item = s =>
               \A q \in m.seqs : Issued(mid) < q /\ q <= Issued(high)
    PROVE  HandsOut(Append(members, m), s, low, high)
<1> DEFINE all == Append(members, m)
           n   == Len(members)
<1>1. /\ n \in Nat /\ DOMAIN members = 1 .. n /\ DOMAIN all = 1 .. n + 1
      /\ \A i \in 1 .. n : all[i] = members[i]
      /\ all[n + 1] = m
  OBVIOUS
<1>2. /\ Issued(low) \in Int /\ Issued(mid) \in Int /\ Issued(high) \in Int
      /\ Issued(low) <= Issued(mid) /\ Issued(mid) <= Issued(high)
  BY DEF LeaseOK, LeaseRecord, Later, Issued
<1>3. \A i \in 1 .. n : members[i].seqs \subseteq Int
  <2>1. \A i \in 1 .. n : members[i] \in MemberRecord
    BY <1>1
  <2>2. \A r \in MemberRecord : r.seqs \subseteq Int
    BY DEF MemberRecord
  <2> QED BY <2>1, <2>2
<1>4. m.seqs \subseteq Int
  BY DEF MemberRecord
<1> HIDE DEF all, n
<1>5. \A i \in 1 .. n : members[i].op = "reserve" /\ members[i].item = s =>
          \A q \in members[i].seqs : Issued(low) < q /\ q <= Issued(mid)
  BY <1>1 DEF HandsOut
<1>6. \A i \in DOMAIN all : all[i].op = "reserve" /\ all[i].item = s =>
          \A q \in all[i].seqs : Issued(low) < q /\ q <= Issued(high)
  <2> SUFFICES ASSUME NEW i \in DOMAIN all, all[i].op = "reserve", all[i].item = s,
                      NEW q \in all[i].seqs
               PROVE  Issued(low) < q /\ q <= Issued(high)
    OBVIOUS
  <2>1. CASE i \in 1 .. n
    BY <1>1, <1>2, <1>3, <1>5, <2>1
  <2>2. CASE i = n + 1
    BY <1>1, <1>2, <1>4, <2>2
  <2> QED BY <1>1, <2>1, <2>2
<1>7. \A i \in 1 .. n : /\ members[i].op = "reserve" /\ members[i].item = s
                        /\ m.op = "reserve" /\ m.item = s
                        => members[i].seqs \cap m.seqs = {}
  BY <1>2, <1>3, <1>4, <1>5
<1>8. ASSUME NEW i \in DOMAIN all, NEW j \in DOMAIN all, i # j,
             all[i].op = "reserve", all[i].item = s, all[j].op = "reserve", all[j].item = s
      PROVE  all[i].seqs \cap all[j].seqs = {}
  <2>1. CASE i \in 1 .. n /\ j \in 1 .. n
    BY <1>1, <1>8, <2>1 DEF HandsOut
  <2>2. CASE i \in 1 .. n /\ j = n + 1
    BY <1>1, <1>7, <1>8, <2>2
  <2>3. CASE i = n + 1 /\ j \in 1 .. n
    BY <1>1, <1>7, <1>8, <2>3
  <2> QED BY <1>1, <1>8, <2>1, <2>2, <2>3
<1> QED
  BY <1>6, <1>8 DEF HandsOut, all

\* What a transition has to ensure of a sender for its batch to stay in order.
Extends(s, t, records, m) ==
    /\ LeaseOK(t[s]) /\ Later(tables[s], t[s])
    /\ Covers(records, s, tables[s], t[s])
    /\ m.op = "reserve" /\ m.item = s =>
          \A q \in m.seqs : Issued(tables[s]) < q /\ q <= Issued(t[s])
    /\ disk[s] = Damaged => t[s] = None

LEMMA LaterTransitive ==
    ASSUME NEW x, NEW y, NEW z, LeaseOK(x), LeaseOK(y), LeaseOK(z), Later(x, y), Later(y, z)
    PROVE  Later(x, z)
BY DEF LeaseOK, LeaseRecord, Later

LEMMA JoinKeepsSenders ==
    ASSUME SendersOK, NEW t, Table(t), NEW records, NEW m \in MemberRecord,
           Join(t, records, m), \A s \in Senders : Extends(s, t, records, m)
    PROVE  SendersOK'
<1>1. Journal'
  BY JoinKeepsJournal DEF SendersOK
<1>2. /\ tables' = t
      /\ open'.records = Over(records, open.records)
      /\ open'.members = Append(open.members, m)
      /\ UNCHANGED <<disk, flight, returned, before, taken>>
      /\ Writing' = Writing /\ Base' = Base
      /\ flusher' = "durable" <=> flusher = "durable"
  BY DEF Join, Staged, Writing, Base
<1>3. open'.members \in Seq(MemberRecord) /\ flight'.members \in Seq(MemberRecord)
  BY <1>2 DEF SendersOK
<1>4. ASSUME NEW s \in Senders PROVE Apart(s)'
  <2>1. Apart(s) /\ Extends(s, t, records, m) /\ open.members \in Seq(MemberRecord)
    BY DEF SendersOK
  <2>2. HandsOut(open'.members, s, Base[s], t[s])
    BY <1>2, <2>1, AppendHandsOut DEF Apart, Extends
  <2>3. Later(Base[s], t[s])
    BY <2>1, LaterTransitive DEF Apart, Extends
  <2>4. Covers(open'.records, s, Base[s], t[s])
    BY <1>2, <2>1 DEF Apart, Extends, Covers, Over
  <2> QED
    BY <1>2, <2>1, <2>2, <2>3, <2>4 DEF Apart, Extends, OnDisk
<1> QED
  BY <1>1, <1>2, <1>3, <1>4 DEF SendersOK

\* A transition that leaves the senders alone.
LEMMA QuietKeepsSenders ==
    ASSUME SendersOK, NEW t, Table(t), NEW records, NEW m \in MemberRecord,
           Join(t, records, m), \A s \in Senders : t[s] = tables[s],
           DOMAIN records \cap Senders = {}, m.op # "reserve" \/ m.seqs = {}
    PROVE  SendersOK'
<1>1. \A s \in Senders : Extends(s, t, records, m)
  <2> SUFFICES ASSUME NEW s \in Senders PROVE Extends(s, t, records, m)
    OBVIOUS
  <2>1. Apart(s)
    BY DEF SendersOK
  <2>2. LeaseOK(t[s]) /\ Later(tables[s], t[s])
    BY <2>1 DEF Apart, LeaseOK, LeaseRecord, Later
  <2> QED
    BY <2>1, <2>2 DEF Extends, Apart, Covers
<1> QED
  BY <1>1, JoinKeepsSenders

LEMMA MemberIsRecord ==
    ASSUME NEW op \in Op, NEW item \in Key \cup Tx, NEW outcome \in Outcome, NEW seqs \in SUBSET Int
    PROVE  /\ Member(op, item, outcome, seqs) \in MemberRecord
           /\ Member(op, item, outcome, seqs).op = op
           /\ Member(op, item, outcome, seqs).item = item
           /\ Member(op, item, outcome, seqs).seqs = seqs
BY DEF Member, MemberRecord

LEMMA UnreadIsRecord == Unread \in MemberRecord /\ Unread.op = "unread" /\ Unread.seqs = {}
BY DEF Unread, Member, MemberRecord, Op

LEMMA RefuseKeepsSenders ==
    ASSUME SendersOK, NEW op \in Op, NEW item \in Key \cup Tx, NEW outcome \in Outcome,
           Refuse(op, item, outcome)
    PROVE  SendersOK'
<1> DEFINE m == IF op = "relay" THEN Member(op, item, outcome, {}) ELSE Unread
<1>1. m \in MemberRecord /\ m.seqs = {}
  BY MemberIsRecord, UnreadIsRecord
<1>2. DOMAIN Empty \cap Senders = {}
  BY DEF Empty
<1>3. Join(tables, Empty, m) /\ Table(tables)
  BY DEF Refuse, SendersOK, Journal
<1> HIDE DEF m
<1> QED
  BY <1>1, <1>2, <1>3, QuietKeepsSenders

LEMMA ReserveRefusals ==
    ASSUME NEW s, NEW count PROVE ReserveRefusal(s, count) \in Outcome
BY Zenon DEF ReserveRefusal, Outcome

LEMMA AdmitRefusals ==
    ASSUME NEW t, NEW tx, NEW principal PROVE AdmitRefusal(t, tx, principal) \in Outcome
<1>1. \A w : Verdict(w, tx) \in Outcome
  BY Zenon DEF Verdict, Outcome
<1> QED
  BY <1>1, Zenon DEF AdmitRefusal, Outcome

LEMMA ReserveKeepsSenders ==
    ASSUME SendersOK, NEW s \in Senders, NEW count \in Counts, Reserve(s, count)
    PROVE  SendersOK'
<1> DEFINE t == [tables EXCEPT ![s] = Allocate(tables[s], count)]
           records == IF InLease(tables[s], count) THEN Empty ELSE [k \in {s} |-> Record(t, s)]
           m == Member("reserve", s, "Ok", Allocated(tables[s], count))
<1>1. s \in Key /\ Table(tables) /\ Table(t)
  BY DEF Key, SendersOK, Journal, Table
<1>2. ReserveRefusal(s, count) \in Outcome
  BY ReserveRefusals
<1>3. CASE ReserveRefusal(s, count) # "Ok"
  <2>1. Refuse("reserve", s, ReserveRefusal(s, count)) /\ "reserve" \in Op
    BY <1>3 DEF Reserve, Op
  <2> QED
    BY <1>1, <1>2, <2>1, RefuseKeepsSenders
<1>4. CASE ReserveRefusal(s, count) = "Ok"
  <2>1. Join(t, records, m)
    BY <1>4 DEF Reserve
  <2>2. disk[s] # Damaged
    BY <1>4 DEF ReserveRefusal, Unavailable
  <2>3. Apart(s)
    BY DEF SendersOK
  <2>4. t[s] = Allocate(tables[s], count) /\ \A r \in Senders \ {s} : t[r] = tables[r]
    BY <1>1 DEF Table, Key
  <2>5. /\ t[s] # None /\ LeaseOK(t[s]) /\ Later(tables[s], t[s])
        /\ InLease(tables[s], count) => tables[s] # None /\ t[s].leased = tables[s].leased
        /\ Allocated(tables[s], count) \subseteq Int
        /\ \A q \in Allocated(tables[s], count) : Issued(tables[s]) < q /\ q <= Issued(t[s])
    BY <2>3, <2>4, AllocateFacts DEF Apart
  <2>6. m \in MemberRecord /\ m.op = "reserve" /\ m.item = s /\ m.seqs = Allocated(tables[s], count)
    <3>1. "reserve" \in Op /\ "Ok" \in Outcome /\ Allocated(tables[s], count) \in SUBSET Int
      BY <2>5 DEF Op, Outcome
    <3> QED
      BY <1>1, <3>1, MemberIsRecord
  <2>7. Covers(records, s, tables[s], t[s])
    BY <2>5 DEF Covers, Empty, Record
  <2> HIDE DEF t, m
  <2>8. Extends(s, t, records, m)
    BY <2>2, <2>5, <2>6, <2>7 DEF Extends
  <2>9. ASSUME NEW r \in Senders \ {s} PROVE Extends(r, t, records, m)
    <3>1. Apart(r) /\ t[r] = tables[r] /\ m.item # r /\ r \notin DOMAIN records
      BY <2>4, <2>6 DEF SendersOK, Empty
    <3>2. LeaseOK(t[r]) /\ Later(tables[r], t[r])
      BY <3>1 DEF Apart, LeaseOK, LeaseRecord, Later
    <3> QED
      BY <3>1, <3>2 DEF Extends, Apart, Covers
  <2> HIDE DEF records
  <2> QED
    BY <1>1, <2>1, <2>6, <2>8, <2>9, JoinKeepsSenders
<1> QED
  BY <1>3, <1>4

LEMMA StreamIsReceiver ==
    ASSUME NEW tx \in Tx PROVE tx.stream \in Key /\ tx.stream \notin Senders /\ tx \in Key \cup Tx
BY TransactionAssumption, KeyAssumption DEF Key

\* Retiring spent streams is no business of the senders.
LEMMA RetiredSenders ==
    /\ \A s \in Senders : Retired(tables)[s] = tables[s]
    /\ DOMAIN Changed(tables, Retired(tables)) \cap Senders = {}
BY DEF Retired, Changed, Key

LEMMA AdmitIntoKeepsSenders ==
    ASSUME SendersOK, NEW op \in Op, NEW tx \in Tx, NEW principal, NEW relayed,
           AdmitInto(Retired(tables), op, tx, principal, relayed)
    PROVE  SendersOK'
<1> DEFINE t == Retired(tables)
           refusal == AdmitRefusal(t, tx, principal)
           u == [t EXCEPT ![tx.stream] = Admitted(@, tx, principal, relayed)]
           records == Over([k \in {tx.stream} |-> Record(u, k)], Changed(tables, t))
           m == Member(op, tx, "Ok", {})
<1>1. refusal \in Outcome /\ "Quota" \in Outcome /\ "Ok" \in Outcome /\ tx \in Key \cup Tx
  BY AdmitRefusals DEF Outcome
<1>2. \/ Refuse(op, tx, refusal) \/ Refuse(op, tx, "Quota") \/ Join(u, records, m)
  BY DEF AdmitInto
<1>3. m \in MemberRecord /\ m.seqs = {}
  BY <1>1, MemberIsRecord
<1>4. Table(u) /\ \A s \in Senders : u[s] = tables[s]
  <2>1. Table(t)
    BY RetiredTable
  <2>2. \A s \in Senders : t[s] = tables[s]
    BY RetiredSenders
  <2> HIDE DEF t
  <2> QED
    BY <2>1, <2>2, StreamIsReceiver DEF Table, Key
<1>5. DOMAIN records \cap Senders = {}
  BY StreamIsReceiver, RetiredSenders DEF Over
<1> HIDE DEF u, m, records, refusal
<1> QED
  BY <1>1, <1>2, <1>3, <1>4, <1>5, QuietKeepsSenders, RefuseKeepsSenders

LEMMA OfferKeepsSenders ==
    ASSUME SendersOK, NEW tx \in Relayed, Offer(tx) PROVE SendersOK'
<1> DEFINE t == Retired(tables)
           m == Member("relay", tx, "InCustody", {})
<1>1. tx \in Tx /\ tx \in Key \cup Tx /\ "relay" \in Op
      /\ {"Unavailable", "CustodyFull", "InCustody"} \subseteq Outcome
  BY DEF Tx, Op, Outcome
<1>2. \/ Refuse("relay", tx, "Unavailable") \/ Refuse("relay", tx, "CustodyFull")
      \/ Join(t, Changed(tables, t), m)
      \/ AdmitInto(t, "relay", tx, "Inbox", {tx})
  BY DEF Offer
<1>3. m \in MemberRecord /\ m.seqs = {}
  BY <1>1, MemberIsRecord
<1>4. CASE Join(t, Changed(tables, t), m)
  <2>1. Table(t) /\ (\A s \in Senders : t[s] = tables[s])
        /\ DOMAIN Changed(tables, t) \cap Senders = {}
    BY RetiredTable, RetiredSenders
  <2> HIDE DEF t, m
  <2> QED
    BY <1>3, <1>4, <2>1, QuietKeepsSenders
<1> HIDE DEF m
<1> QED
  BY <1>1, <1>2, <1>4, RefuseKeepsSenders, AdmitIntoKeepsSenders

LEMMA ReleaseKeepsSenders ==
    ASSUME SendersOK, NEW tx \in Relayed, Release(tx) PROVE SendersOK'
<1> DEFINE held == tables[tx.stream] # None /\ tx \in tables[tx.stream].custody
           t == IF held THEN [tables EXCEPT ![tx.stream].custody = @ \ {tx}] ELSE tables
           m == Member("release", tx, "Ok", {})
<1>1. tx \in Tx /\ tx \in Key \cup Tx /\ "release" \in Op /\ "Ok" \in Outcome
  BY DEF Tx, Op, Outcome
<1>2. Join(t, Changed(tables, t), m)
  BY DEF Release
<1>3. m \in MemberRecord /\ m.seqs = {}
  BY <1>1, MemberIsRecord
<1>4. Table(tables) /\ tx.stream \notin Senders
  BY <1>1, StreamIsReceiver DEF SendersOK, Journal
<1>5. Table(t) /\ \A s \in Senders : t[s] = tables[s]
  BY <1>4 DEF Table, Key
<1>6. DOMAIN Changed(tables, t) \cap Senders = {}
  BY <1>5 DEF Changed
<1> HIDE DEF t, m
<1> QED
  BY <1>2, <1>3, <1>5, <1>6, QuietKeepsSenders

\* The members of an empty batch, and the allocator above it.
LEMMA NothingHandedOut ==
    ASSUME NEW s, NEW x
    PROVE  /\ HandsOut(NoBatch.members, s, x, x) /\ Covers(NoBatch.records, s, x, x)
           /\ NoBatch.members \in Seq(MemberRecord)
BY DEF HandsOut, Covers, NoBatch, Empty

LEMMA LaterItself == ASSUME NEW x, LeaseOK(x) PROVE Later(x, x)
BY DEF LeaseOK, LeaseRecord, Later

LEMMA TakeKeepsSenders == ASSUME SendersOK, Take PROVE SendersOK'
<1>1. Journal'
  BY JournalStep DEF SendersOK, Next
<1>2. CASE open.members = <<>>
  <2>1. UNCHANGED <<open, flight, taken, tables, before, disk, returned>>
        /\ Writing' = Writing /\ Base' = Base /\ flusher' # "durable"
    BY <1>2 DEF Take, Writing, Base
  <2> QED
    BY <1>1, <2>1 DEF SendersOK, Apart, OnDisk
<1>3. CASE open.members # <<>>
  <2>1. /\ flight' = open /\ open' = NoBatch /\ flusher' = "write" /\ ~Writing
        /\ UNCHANGED <<tables, before, disk, returned>> /\ Base = before /\ Base' = tables
    BY <1>3 DEF Take, Writing, Base
  <2>2. ASSUME NEW s \in Senders PROVE Apart(s)'
    <3>1. Apart(s) /\ Later(tables[s], tables[s])
      BY LaterItself DEF SendersOK, Apart
    <3> QED
      BY <2>1, <3>1, NothingHandedOut DEF Apart, OnDisk
  <2> QED
    BY <1>1, <2>1, <2>2, NothingHandedOut DEF SendersOK
<1> QED BY <1>2, <1>3

LEMMA WriteKeepsSenders == ASSUME SendersOK, Write PROVE SendersOK'
<1>1. Journal'
  BY JournalStep DEF SendersOK, Next
<1>2. /\ UNCHANGED <<open, flight, taken, tables, before, returned>>
      /\ Writing /\ Writing' /\ Base' = Base
  BY DEF Write, Writing, Base
<1>3. PICK landed \in SUBSET DOMAIN flight.records :
          /\ disk' = Over([k \in landed |-> flight.records[k]], disk)
          /\ flusher' = "durable" => landed = DOMAIN flight.records
  BY DEF Write, Over
<1>4. Senders \subseteq DOMAIN disk'
  BY <1>3 DEF SendersOK, Over
<1>5. ASSUME NEW s \in Senders PROVE Apart(s)'
  <2>1. Apart(s)
    BY DEF SendersOK
  <2>2. s \in DOMAIN disk /\ disk'[s] = IF s \in landed THEN flight.records[s] ELSE disk[s]
    BY <1>3 DEF SendersOK, Over
  <2>3. s \in landed => disk'[s] = Base[s].leased /\ Base[s] \in LeaseRecord
    BY <1>3, <2>1, <2>2 DEF Apart, Covers, LeaseOK
  <2>4. disk'[s] \in Nat \cup {None, Damaged}
    BY <2>1, <2>2, <2>3 DEF Apart, LeaseRecord
  <2>5. disk'[s] = Damaged => disk[s] = Damaged
    BY <2>2, <2>3, NoneAssumption DEF LeaseRecord
  <2>6. OnDisk(before[s], s)' /\ (flusher' = "durable" => OnDisk(Base[s], s)')
    <3>1. CASE s \in landed
      BY <1>2, <2>1, <2>2, <2>3, <3>1 DEF Apart, OnDisk, LeaseOK, LeaseRecord, Later
    <3>2. CASE s \notin landed
      BY <1>2, <1>3, <2>1, <2>2, <3>2 DEF Apart, OnDisk, Covers
    <3> QED BY <3>1, <3>2
  <2>7. ASSUME NEW q \in Sequence, returned'[s][q] = 1
        PROVE  disk'[s] = Damaged \/ q <= Issued(before'[s])
    <3>1. CASE disk[s] # Damaged
      BY <1>2, <2>1, <2>7, <3>1 DEF Apart
    <3>2. CASE disk[s] = Damaged
      <4>1. tables[s] = None /\ Base[s] = None
        BY <2>1, <3>2 DEF Apart, Later
      <4> QED
        BY <2>2, <2>3, <3>2, <4>1, NoneAssumption DEF LeaseRecord
    <3> QED BY <3>1, <3>2
  <2> QED
    BY <1>2, <2>1, <2>4, <2>5, <2>6, <2>7 DEF Apart
<1> QED
  BY <1>1, <1>2, <1>4, <1>5 DEF SendersOK

\* The members of a batch that hand out sequence q to sender s.
Granting(members, s, q) ==
    {i \in DOMAIN members :
        members[i].op = "reserve" /\ members[i].item = s /\ q \in members[i].seqs}

\* A sequence is handed out by at most one reservation of a batch, and only by
\* one above the allocator beneath it.
LEMMA HandedOutOnce ==
    ASSUME NEW members, NEW s, NEW low, NEW high, NEW q, HandsOut(members, s, low, high)
    PROVE  \/ Cardinality(Granting(members, s, q)) = 0
           \/ /\ Cardinality(Granting(members, s, q)) = 1
              /\ Issued(low) < q /\ q <= Issued(high)
<1> DEFINE who == Granting(members, s, q)
<1>1. CASE who = {}
  <2> HIDE DEF who
  <2>1. Cardinality(who) = 0
    BY <1>1, FS_EmptySet
  <2> QED BY <2>1 DEF who
<1>2. CASE who # {}
  <2>1. PICK i \in who : TRUE
    BY <1>2
  <2>2. Issued(low) < q /\ q <= Issued(high)
    BY <2>1 DEF HandsOut, Granting
  <2>3. \A j \in who : j = i
    BY <2>1 DEF HandsOut, Granting
  <2> HIDE DEF who
  <2>4. who = {i}
    BY <2>1, <2>3
  <2>5. Cardinality(who) = 1
    BY <2>4, FS_Singleton
  <2> QED BY <2>2, <2>5 DEF who
<1> QED BY <1>1, <1>2

LEMMA SettleDurableKeepsSenders == ASSUME SendersOK, SettleDurable PROVE SendersOK'
<1>1. Journal'
  BY JournalStep DEF SendersOK, Next
<1>2. /\ flight' = NoBatch /\ before' = taken /\ flusher = "durable" /\ flusher' = "take"
      /\ UNCHANGED <<tables, disk, open, taken>>
      /\ Writing /\ ~Writing' /\ Base = taken /\ Base' = taken
  BY DEF SettleDurable, Writing, Base
<1>3. ASSUME NEW s \in Senders PROVE Apart(s)'
  <2>1. Apart(s) /\ Later(Base[s], Base[s])
    BY LaterItself DEF SendersOK, Apart
  <2>2. ASSUME NEW q \in Sequence
        PROVE  /\ returned'[s][q] \in {0, 1}
               /\ returned'[s][q] = 1 => disk'[s] = Damaged \/ q <= Issued(before'[s])
    <3> DEFINE who == Granting(flight.members, s, q)
    <3>1. returned'[s][q] = returned[s][q] + Cardinality(who)
      BY <2>2 DEF SettleDurable, Members, Granting
    <3>2. \/ Cardinality(who) = 0
          \/ Cardinality(who) = 1 /\ Issued(before[s]) < q /\ q <= Issued(Base[s])
      <4>1. HandsOut(flight.members, s, before[s], Base[s])
        BY <2>1 DEF Apart
      <4> QED
        BY <4>1, HandedOutOnce
    <3>3. returned[s][q] \in {0, 1}
          /\ (returned[s][q] = 1 => disk[s] = Damaged \/ q <= Issued(before[s]))
      BY <2>1 DEF Apart
    <3>4. /\ Issued(before[s]) \in Int /\ Issued(Base[s]) \in Int /\ q \in Int
          /\ Issued(before[s]) <= Issued(Base[s])
      BY <2>1 DEF Apart, LeaseOK, LeaseRecord, Later, Issued, Sequence
    <3>5. disk[s] = Damaged => Issued(Base[s]) = -1 /\ q >= 0
      BY <2>1, SequenceAssumption DEF Apart, Later, Issued, Sequence
    <3> HIDE DEF who
    <3> QED
      BY <1>2, <3>1, <3>2, <3>3, <3>4, <3>5
  <2> QED
    BY <1>2, <2>1, <2>2, NothingHandedOut DEF Apart, OnDisk
<1> QED
  BY <1>1, <1>2, <1>3, NothingHandedOut DEF SendersOK

LEMMA SettleFailedKeepsSenders == ASSUME SendersOK, SettleFailed PROVE SendersOK'
<1>1. Journal'
  BY JournalStep DEF SendersOK, Next
<1>2. /\ flight' = NoBatch /\ open' = NoBatch /\ flusher' = "take" /\ tables' = before
      /\ UNCHANGED <<disk, returned, before, taken>> /\ ~Writing' /\ Base' = before
  BY DEF SettleFailed, SendersOK, Journal, FailsClosed, Writing, Base
<1>3. ASSUME NEW s \in Senders PROVE Apart(s)'
  <2>1. Apart(s) /\ Later(before[s], before[s])
    BY LaterItself DEF SendersOK, Apart
  <2>2. disk[s] = Damaged => before[s] = None
    BY <2>1 DEF Apart, Later
  <2> QED
    BY <1>2, <2>1, <2>2, NothingHandedOut DEF Apart, OnDisk
<1> QED
  BY <1>1, <1>2, <1>3, NothingHandedOut DEF SendersOK

LEMMA CutPassKeepsSenders == ASSUME SendersOK, CutPass PROVE SendersOK'
<1> DEFINE cut(members) == [i \in DOMAIN members |->
                  IF members[i].op = "relay" THEN Unread ELSE members[i]]
<1>1. Journal'
  BY JournalStep DEF SendersOK, Next
<1>2. /\ UNCHANGED <<tables, disk, flusher, returned, before, taken>>
      /\ Writing' = Writing /\ Base' = Base
      /\ open'.records = open.records /\ flight'.records = flight.records
      /\ open'.members = cut(open.members) /\ flight'.members = cut(flight.members)
  BY DEF CutPass, Unreplayed, Writing, Base, SendersOK, Journal, Batch
<1>3. ASSUME NEW members \in Seq(MemberRecord)
      PROVE  /\ cut(members) \in Seq(MemberRecord)
             /\ DOMAIN cut(members) = DOMAIN members
             /\ \A i \in DOMAIN members :
                    cut(members)[i].op = "reserve" => cut(members)[i] = members[i]
  <2>1. \A i \in DOMAIN members : members[i] \in MemberRecord
    OBVIOUS
  <2>2. Unread \in MemberRecord /\ Unread.op # "reserve"
    BY UnreadIsRecord
  <2>3. \A i \in DOMAIN members :
            /\ cut(members)[i] \in MemberRecord
            /\ cut(members)[i].op = "reserve" => cut(members)[i] = members[i]
    BY <2>1, <2>2
  <2>4. DOMAIN cut(members) = 1 .. Len(members) /\ DOMAIN members = 1 .. Len(members)
        /\ cut(members) = [i \in 1 .. Len(members) |-> cut(members)[i]] /\ Len(members) \in Nat
    OBVIOUS
  <2> HIDE DEF cut
  <2>5. cut(members) \in Seq(MemberRecord)
    BY <2>3, <2>4
  <2> QED
    BY <2>3, <2>4, <2>5
<1> HIDE DEF cut
<1>4. ASSUME NEW members \in Seq(MemberRecord), NEW s, NEW low, NEW high,
             HandsOut(members, s, low, high)
      PROVE  HandsOut(cut(members), s, low, high)
  BY <1>3, <1>4 DEF HandsOut
<1>5. ASSUME NEW s \in Senders PROVE Apart(s)'
  <2>1. Apart(s) /\ open.members \in Seq(MemberRecord) /\ flight.members \in Seq(MemberRecord)
    BY DEF SendersOK
  <2> QED
    BY <1>2, <1>4, <2>1 DEF Apart, OnDisk
<1> QED
  BY <1>1, <1>2, <1>3, <1>5 DEF SendersOK

LEMMA CrashKeepsSenders == ASSUME SendersOK, Crash PROVE SendersOK'
<1>1. Journal'
  BY JournalStep DEF SendersOK, Next
<1>2. /\ tables' = Restore(disk') /\ before' = tables' /\ taken' = tables'
      /\ open' = NoBatch /\ flight' = NoBatch /\ flusher' = "idle" /\ UNCHANGED returned
      /\ ~Writing' /\ Base' = tables'
  BY DEF Crash, Writing, Base
<1>3. PICK lost \in SUBSET {k \in Key : disk[k] \notin {None, Damaged}} :
          disk' = [k \in Key |-> IF k \in lost THEN Damaged ELSE disk[k]]
  BY DEF Crash
<1>4. Senders \subseteq DOMAIN disk'
  BY <1>3 DEF Key
<1>5. ASSUME NEW s \in Senders PROVE Apart(s)'
  <2>1. Apart(s)
    BY DEF SendersOK
  <2>2. disk'[s] = Damaged \/ disk'[s] = disk[s]
    BY <1>3 DEF Key
  <2>3. disk'[s] \in Nat \cup {None, Damaged}
    BY <2>1, <2>2 DEF Apart
  <2>4. tables'[s] = IF disk'[s] \in {None, Damaged} THEN None ELSE Restored(disk'[s])
    BY <1>2 DEF Restore, Key
  <2>5. CASE disk'[s] \in {None, Damaged}
    <3>1. tables'[s] = None
      BY <2>4, <2>5
    <3>2. LeaseOK(None) /\ Later(None, None)
      BY DEF LeaseOK, Later
    <3>3. ASSUME NEW q \in Sequence
          PROVE  /\ returned[s][q] \in {0, 1}
                 /\ returned[s][q] = 1 => disk'[s] = Damaged
      <4>1. disk[s] = None => before[s] = None
        BY <2>1, NoneAssumption DEF Apart, OnDisk
      <4>2. q \in Int /\ q > -1
        BY SequenceAssumption DEF Sequence
      <4> QED
        BY <2>1, <2>2, <2>5, <4>1, <4>2 DEF Apart, Issued
    <3> QED
      BY <1>2, <2>3, <3>1, <3>2, <3>3, NothingHandedOut DEF Apart, OnDisk
  <2>6. CASE disk'[s] \notin {None, Damaged}
    <3>1. disk'[s] = disk[s] /\ disk[s] \in Nat
      BY <2>1, <2>2, <2>6 DEF Apart
    <3>2. /\ tables'[s] \in LeaseRecord /\ tables'[s].issued = disk[s]
          /\ tables'[s].leased = disk[s]
      BY <2>4, <2>6, <3>1 DEF Restored, LeaseRecord
    <3>3. LeaseOK(tables'[s]) /\ Later(tables'[s], tables'[s]) /\ tables'[s] # None
          /\ Issued(tables'[s]) = disk[s]
      BY <3>1, <3>2, NoneAssumption DEF LeaseOK, Later, LeaseRecord, Issued
    <3>4. Issued(before[s]) <= disk[s]
      BY <2>1, <3>1 DEF Apart, OnDisk, LeaseOK, LeaseRecord, Issued
    <3>5. ASSUME NEW q \in Sequence
          PROVE  /\ returned[s][q] \in {0, 1}
                 /\ returned[s][q] = 1 => q <= disk[s]
      BY <2>1, <2>6, <3>1, <3>4 DEF Apart, Issued, Sequence, LeaseOK, LeaseRecord
    <3> QED
      BY <1>2, <2>3, <2>6, <3>1, <3>2, <3>3, <3>5, NothingHandedOut DEF Apart, OnDisk
  <2> QED BY <2>5, <2>6
<1> QED
  BY <1>1, <1>2, <1>4, <1>5, NothingHandedOut DEF SendersOK

LEMMA SendersInit == Init => SendersOK
<1> SUFFICES ASSUME Init PROVE SendersOK
  OBVIOUS
<1>1. /\ tables = [k \in Key |-> None] /\ before = tables /\ disk = [k \in Key |-> None]
      /\ open = NoBatch /\ flight = NoBatch /\ flusher = "idle" /\ Base = tables
      /\ returned = [s \in Senders |-> [q \in Sequence |-> 0]]
  BY DEF Init, Writing, Base
<1>2. ASSUME NEW s \in Senders PROVE Apart(s)
  <2>1. tables[s] = None /\ disk[s] = None
    BY <1>1 DEF Key
  <2>2. LeaseOK(None) /\ Later(None, None) /\ OnDisk(None, s)
    BY DEF LeaseOK, Later, OnDisk
  <2> QED
    BY <1>1, <2>1, <2>2, NothingHandedOut, NoneAssumption DEF Apart
<1> QED
  BY <1>1, <1>2, JournalInit, NothingHandedOut DEF SendersOK, Key

\* Every step keeps the sequences of the senders apart.
LEMMA SendersStep == SendersOK /\ [Next]_vars => SendersOK'
<1> SUFFICES ASSUME SendersOK, [Next]_vars PROVE SendersOK'
  OBVIOUS
<1>1. ASSUME NEW s \in Senders, NEW count \in Counts, Reserve(s, count) PROVE SendersOK'
  BY <1>1, ReserveKeepsSenders
<1>2. ASSUME NEW tx \in Live, NEW principal \in Introducer, Admit(tx, principal) PROVE SendersOK'
  <2>1. tx \in Tx /\ "admit" \in Op
    BY DEF Tx, Op
  <2> QED
    BY <1>2, <2>1, AdmitIntoKeepsSenders DEF Admit
<1>3. ASSUME NEW tx \in Relayed, Offer(tx) \/ Release(tx) PROVE SendersOK'
  BY <1>3, OfferKeepsSenders, ReleaseKeepsSenders
<1>4. CASE UNCHANGED <<tables, disk, open, flight, flusher, returned, before, taken>>
  <2>1. Journal'
    BY <1>4 DEF SendersOK, Journal, Table, Batch, Writing, FailsClosed
  <2> QED
    BY <1>4, <2>1 DEF SendersOK, Apart, OnDisk, Base, Writing
<1>5. ASSUME NEW tx \in Relayed, Hold(tx) \/ TakeMail(tx) \/ Discard(tx) \/ Poll(tx)
      PROVE  SendersOK'
  BY <1>4, <1>5 DEF Hold, TakeMail, Discard, Poll, Unreplayed
<1>6. CASE BeginPass \/ EndPass \/ Tick \/ UNCHANGED vars
  BY <1>4, <1>6 DEF BeginPass, EndPass, Tick, Unreplayed, vars
<1>7. CASE CutPass \/ Take \/ Write \/ SettleDurable \/ SettleFailed \/ Crash
  BY <1>7, CutPassKeepsSenders, TakeKeepsSenders, WriteKeepsSenders, SettleDurableKeepsSenders,
     SettleFailedKeepsSenders, CrashKeepsSenders
<1> QED
  BY <1>1, <1>2, <1>3, <1>5, <1>6, <1>7 DEF Next

\* No sequence is handed to a signer twice (the no-reuse law of
\* replay/lease.rs), for any lease, any sizes of reservation, any number of
\* transitions in a batch, and any number of failed batches, crashes and
\* damaged records.
THEOREM NeverReusedAlways == Spec => []NeverReused
<1>1. SendersOK => NeverReused
  BY DEF SendersOK, Apart, NeverReused
<1> QED
  BY <1>1, SendersInit, SendersStep, PTL DEF Spec
==============================================================================
