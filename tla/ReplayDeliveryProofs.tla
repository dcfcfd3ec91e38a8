-------------------------- MODULE ReplayDeliveryProofs --------------------------
(***************************************************************************)
(* Theorems about the receivers of TransactionReplay and the mail they     *)
(* hand to the application, for all constants.                             *)
(*                                                                         *)
(* A receiver stream exists in four states at once: before the batch in    *)
(* flight, beneath the open batch, in the speculative tables and on disk.  *)
(* Each is shown to remember whatever the ones beneath it remember, until  *)
(* the stream is spent; what the application got is then related to what   *)
(* the lowest of them remembers.                                           *)
(***************************************************************************)
EXTENDS TransactionReplayProofs

-----------------------------------------------------------------------------
(* The inductive invariant.                                                *)

Spent(tx) == SpentAt(tx) <= now

\* A stream: its window holds what it accepted, its custody is part of that.
StreamOK(x, r) ==
    x = None \/ /\ x \in StreamType
                /\ \A tx \in x.custody : /\ tx.stream = r /\ ~Permits(x.window, tx)
                                         /\ SpentAt(tx) <= x.spentAt

\* y refuses all that x refuses, until x is spent, and took none of it into
\* custody again.
Remembers(x, y) ==
    \/ x = None \/ x.spentAt <= now
    \/ /\ y # None /\ x.spentAt <= y.spentAt
       /\ \A tx \in Tx : ~Permits(x.window, tx) =>
              ~Permits(y.window, tx) /\ (tx \in y.custody => tx \in x.custody)

\* The stream refuses tx for as long as tx can be offered.
Knows(x, tx) ==
    Spent(tx) \/ (x # None /\ ~Permits(x.window, tx) /\ SpentAt(tx) <= x.spentAt)

\* And it does not keep tx for the application either.
Blocks(x, tx) == Spent(tx) \/ (Knows(x, tx) /\ tx \notin x.custody)

\* A batch has a record of every stream that it changes: its last state.
Recorded(records, r, low, high) ==
    IF r \in DOMAIN records THEN records[r] = high ELSE low = high

\* The four states of one receiver stream.
Chain(r) ==
    /\ StreamOK(before[r], r) /\ StreamOK(Base[r], r) /\ StreamOK(tables[r], r)
    /\ Remembers(before[r], Base[r]) /\ Remembers(Base[r], tables[r])
    /\ Recorded(flight.records, r, before[r], Base[r])
    /\ Recorded(open.records, r, Base[r], tables[r])
    /\ disk[r] = Damaged =>
          /\ before[r] = None /\ Base[r] = None /\ tables[r] = None
          /\ r \notin DOMAIN flight.records /\ r \notin DOMAIN open.records
    /\ disk[r] # Damaged =>
          /\ StreamOK(disk[r], r) /\ Remembers(before[r], disk[r])
          /\ flusher = "durable" => Remembers(Base[r], disk[r])

\* The allocator of a sender stays inside the sequence space.
Leased(x) == x = None \/ x \in LeaseType

Bounded(s) ==
    /\ Leased(before[s]) /\ Leased(Base[s]) /\ Leased(tables[s])
    /\ disk[s] \in Sequence \cup {None, Damaged}

Place == {"Unknown", "Untaken", "Taken", "Discarded", "Releasing", "Unreleased", "Released",
          "Consumed"}

\* The pass over the relay inbox.
PassRecord(x) == x = None \/ x = [at |-> x.at, left |-> x.left, done |-> x.done]

StreamsOK ==
    /\ SendersOK
    /\ now \in Nat /\ DOMAIN disk = Key /\ handed \in [Relayed -> Place] /\ PassRecord(pass)
    /\ DOMAIN open.records \subseteq Key /\ DOMAIN flight.records \subseteq Key
    /\ open.members = <<>> => open = NoBatch
    /\ flusher = "idle" => open = NoBatch
    /\ \A r \in Receivers : Chain(r)
    /\ \A s \in Senders : Bounded(s)

-----------------------------------------------------------------------------
(* Mail.                                                                   *)

\* A member on whose success the application gets tx.
Gives(m, tx) ==
    \/ m.op = "admit" /\ m.item = tx /\ m.outcome = "Ok"
    \/ Handover(m, tx)

\* A member after which the stream does not keep tx for the application.
Closes(m, tx) ==
    m.item = tx /\ (m.op = "release" \/ (m.op = "admit" /\ m.outcome = "Ok"))

Releases(m, tx) == m.op = "release" /\ m.item = tx

Forgiven(tx) == IF tx \in Relayed THEN excused[tx] ELSE 0
Standing(tx) == IF tx \in Relayed THEN handed[tx] ELSE "Unknown"

\* Of every transaction: it is late only when it is spent, and what batches do
\* with it goes with where it stands.
Orderly(tx) ==
    /\ delivered[tx] \in Nat /\ Forgiven(tx) \in Nat /\ late[tx] \in Nat
    /\ late[tx] > 0 => Spent(tx)
    /\ \A i \in DOMAIN flight.members :
          /\ Releases(flight.members[i], tx) => Standing(tx) = "Releasing"
          /\ Handover(flight.members[i], tx) => Standing(tx) = "Unknown"
    /\ \A i \in DOMAIN open.members :
          /\ Releases(open.members[i], tx) => Standing(tx) = "Releasing"
          /\ Handover(open.members[i], tx) => Standing(tx) = "Unknown"
    /\ \A i \in DOMAIN flight.members, j \in DOMAIN open.members :
          /\ ~(Releases(flight.members[i], tx) /\ Releases(open.members[j], tx))
          /\ ~(Handover(flight.members[i], tx) /\ Handover(open.members[j], tx))

\* The members of a batch whose top state of the stream is x.
Pending(members, x, tx) ==
    /\ \A i \in DOMAIN members :
          /\ Gives(members[i], tx) =>
                Standing(tx) = "Unknown" /\ delivered[tx] <= Forgiven(tx) /\ Knows(x, tx)
          /\ Closes(members[i], tx) => Blocks(x, tx)
    /\ \A i, j \in DOMAIN members : Gives(members[i], tx) /\ Gives(members[j], tx) => i = j

\* What the application got of tx, and may still get, as long as no admission
\* of it was late.
Counted(tx) ==
    /\ delivered[tx] <= Forgiven(tx) + 1
    /\ Standing(tx) \in {"Untaken", "Discarded"} => delivered[tx] <= Forgiven(tx)
    /\ Standing(tx) \in {"Unknown", "Released", "Consumed"} /\ delivered[tx] > Forgiven(tx) =>
          disk[tx.stream] = Damaged \/ Blocks(before[tx.stream], tx)
    /\ Standing(tx) # "Unknown" => Knows(before[tx.stream], tx)
    /\ Pending(flight.members, Base[tx.stream], tx)
    /\ Pending(open.members, tables[tx.stream], tx)
    /\ \A i \in DOMAIN flight.members, j \in DOMAIN open.members :
          ~(Gives(flight.members[i], tx) /\ Gives(open.members[j], tx))

\* The members of a batch on whose success the application gets tx.
Waiting(members, tx) == Cardinality({i \in DOMAIN members : Gives(members[i], tx)})

\* Every late admission adds one delivery at most.
Tally(tx) ==
    delivered[tx] + Waiting(flight.members, tx) + Waiting(open.members, tx)
        + (IF Standing(tx) = "Untaken" THEN 1 ELSE 0) <= 1 + Forgiven(tx) + late[tx]

DeliveryOK ==
    /\ StreamsOK
    /\ delivered = [tx \in Tx |-> delivered[tx]] /\ excused = [tx \in Relayed |-> excused[tx]]
    /\ late = [tx \in Tx |-> late[tx]]
    /\ \A tx \in Tx : Orderly(tx) /\ (late[tx] = 0 => Counted(tx)) /\ Tally(tx)

\* The relay inbox owes tx to the application no more.
Settled(tx) == delivered[tx] > 0 \/ Spent(tx)

\* Mail that the window holds and custody does not was taken.
Taken(x, tx) ==
    x = None \/ tx \in x.custody \/ Verdict(x.window, tx) # "Replay" \/ Settled(tx)

\* A refusal of mail as a replay of itself.
Replays(m, tx) == m.op = "relay" /\ m.item = tx /\ m.outcome = "Replay"

\* Mail that somebody took.
Gone == {"Taken", "Releasing", "Unreleased", "Released", "Consumed"}

\* Mail of the relay inbox alone.
Kept(tx) ==
    /\ Taken(before[tx.stream], tx) /\ Taken(Base[tx.stream], tx) /\ Taken(tables[tx.stream], tx)
    /\ disk[tx.stream] # Damaged => Taken(disk[tx.stream], tx)
    /\ handed[tx] \in Gone => delivered[tx] > 0
    /\ \A i \in DOMAIN flight.members : Replays(flight.members[i], tx) => Settled(tx)
    /\ \A i \in DOMAIN open.members : Replays(open.members[i], tx) => Settled(tx)
    /\ pass # None /\ tx \in DOMAIN pass.done /\ pass.done[tx] # "Refused" => Settled(tx)

MailOK == DeliveryOK /\ \A tx \in Relayed \ Live : Kept(tx)

-----------------------------------------------------------------------------
(* The window.                                                             *)

WindowOK(w) == w = None \/ w \in WindowType

LEMMA WindowFacts ==
    ASSUME NEW w \in WindowType
    PROVE  /\ w # None /\ w.high \in Nat /\ w.high <= MaxSequence
           /\ w.slots \in [Slot -> Tx \cup {None}] /\ w = [high |-> w.high, slots |-> w.slots]
           /\ w.slots[0] # None
           /\ \A d \in Slot : w.slots[d] # None => d <= w.high /\ w.slots[d].sequence = w.high - d
BY RecordAssumption, SequenceAssumption DEF WindowType, Sequence

LEMMA TxFacts == ASSUME NEW tx \in Tx
                 PROVE  /\ tx.sequence \in Nat /\ tx.sequence <= MaxSequence /\ tx # None
                        /\ SpentAt(tx) \in Nat /\ tx.stream \in Receivers /\ tx.expires \in Nat
BY TransactionAssumption, NoneAssumption, SequenceAssumption, TimeAssumption DEF Sequence, SpentAt

\* What a window refuses: whatever lies below it, and every slot that is taken.
LEMMA Refused ==
    ASSUME NEW w \in WindowType, NEW tx \in Tx
    PROVE  LET d == w.high - tx.sequence
           IN  /\ ~Permits(w, tx) <=> tx.sequence <= w.high /\ (d \in Slot => w.slots[d] # None)
               /\ Verdict(w, tx) = "Replay" <=> d \in Slot /\ w.slots[d] = tx
<1> DEFINE d == w.high - tx.sequence
<1>1. /\ w # None /\ w.high \in Nat /\ tx.sequence \in Nat /\ tx # None
      /\ Window \in Nat /\ Window > 0 /\ d \in Int
  BY WindowFacts, TxFacts, WindowAssumption
<1>2. tx.sequence <= w.high /\ ~(tx.sequence < RetainedMin(w)) <=> d \in Slot
  BY <1>1 DEF RetainedMin, Slot
<1>3. CASE tx.sequence > w.high
  <2>1. Verdict(w, tx) = "Advance" /\ d \notin Slot /\ ~(tx.sequence <= w.high)
    BY <1>1, <1>3 DEF Verdict, Slot
  <2> QED BY <2>1 DEF Permits
<1>4. CASE ~(tx.sequence > w.high) /\ tx.sequence < RetainedMin(w)
  <2>1. Verdict(w, tx) = "Stale" /\ d \notin Slot /\ tx.sequence <= w.high
    BY <1>1, <1>2, <1>4 DEF Verdict
  <2> QED BY <2>1 DEF Permits
<1>5. CASE ~(tx.sequence > w.high) /\ ~(tx.sequence < RetainedMin(w))
  <2>1. /\ d \in Slot /\ tx.sequence <= w.high
        /\ Verdict(w, tx) = IF w.slots[d] = None THEN "Late"
                            ELSE IF w.slots[d] = tx THEN "Replay" ELSE "Fork"
    BY <1>1, <1>2, <1>5 DEF Verdict
  <2> QED BY <1>1, <2>1 DEF Permits
<1> QED BY <1>3, <1>4, <1>5

\* A window that takes a transaction refuses it from then on, and all that it
\* refused before; it holds nothing but that transaction and what it held.
LEMMA ObserveFacts ==
    ASSUME NEW w, WindowOK(w), NEW tx \in Tx, Permits(w, tx)
    PROVE  LET v == Observe(w, tx)
           IN  /\ v \in WindowType /\ ~Permits(v, tx)
               /\ \A ty \in Tx : ~Permits(w, ty) => ~Permits(v, ty)
               /\ \A ty \in Tx : Verdict(v, ty) = "Replay" =>
                      ty = tx \/ Verdict(w, ty) = "Replay"
<1> DEFINE v == Observe(w, tx)
<1>1. /\ tx.sequence \in Sequence /\ tx.sequence \in Nat /\ tx # None
      /\ 0 \in Slot /\ Slot \subseteq Nat /\ Window \in Nat /\ Window > 0
  BY TxFacts, TransactionAssumption, WindowAssumption DEF Slot
<1>2. CASE w = None
  <2>1. v = [high |-> tx.sequence, slots |-> [d \in Slot |-> IF d = 0 THEN tx ELSE None]]
    BY <1>2 DEF Observe, First
  <2>2. v \in WindowType
    BY <1>1, <2>1 DEF WindowType
  <2>3. v.high = tx.sequence /\ \A d \in Slot : v.slots[d] = IF d = 0 THEN tx ELSE None
    BY <2>1
  <2>4. \A ty \in Tx : Permits(w, ty)
    BY <1>2 DEF Permits, Verdict
  <2> HIDE DEF v
  <2>5. ~Permits(v, tx)
    BY <1>1, <2>2, <2>3, Refused
  <2>6. \A ty \in Tx : Verdict(v, ty) = "Replay" => ty = tx
    BY <1>1, <2>2, <2>3, Refused, TxFacts
  <2> QED
    BY <2>2, <2>4, <2>5, <2>6 DEF v
<1>3. CASE w # None
  <2>1. w \in WindowType
    BY <1>3 DEF WindowOK
  <2>2. /\ w.high \in Nat /\ w.high <= MaxSequence
        /\ w.slots \in [Slot -> Tx \cup {None}]
        /\ w = [high |-> w.high, slots |-> w.slots] /\ w.slots[0] # None
        /\ \A d \in Slot : w.slots[d] # None => d <= w.high /\ w.slots[d].sequence = w.high - d
    BY <2>1, WindowFacts
  <2>3. CASE tx.sequence > w.high
    <3> DEFINE gap == tx.sequence - w.high
    <3>1. v = [high |-> tx.sequence,
               slots |-> [d \in Slot |-> IF d = 0 THEN tx ELSE IF d < gap THEN None
                                         ELSE w.slots[d - gap]]]
      BY <1>3, <2>3 DEF Observe, Advance
    <3>2. gap \in Nat /\ gap > 0 /\ tx.sequence = w.high + gap
      BY <1>1, <2>2, <2>3
    <3>3. v.high = tx.sequence
          /\ \A d \in Slot : v.slots[d] = IF d = 0 THEN tx ELSE IF d < gap THEN None
                                          ELSE w.slots[d - gap]
      BY <3>1
    <3>4. \A d \in Slot : d >= gap => d - gap \in Slot
      BY <1>1, <3>2 DEF Slot
    <3>5. v \in [high : Sequence, slots : [Slot -> Tx \cup {None}]]
      BY <1>1, <2>2, <3>1, <3>4
    <3> HIDE DEF v, gap
    <3>6. ASSUME NEW d \in Slot, v.slots[d] # None
          PROVE  d <= v.high /\ v.slots[d].sequence = v.high - d
      <4>1. CASE d = 0
        BY <1>1, <3>3, <4>1
      <4>2. CASE d # 0
        <5>1. d >= gap /\ v.slots[d] = w.slots[d - gap]
          BY <1>1, <3>2, <3>3, <3>6, <4>2
        <5>2. d - gap <= w.high /\ w.slots[d - gap].sequence = w.high - (d - gap)
          BY <2>2, <3>4, <3>6, <5>1
        <5> QED
          BY <1>1, <2>2, <3>2, <3>3, <5>1, <5>2
      <4> QED BY <4>1, <4>2
    <3>7. v \in WindowType
      BY <1>1, <3>3, <3>5, <3>6 DEF WindowType
    <3>8. ~Permits(v, tx)
      BY <1>1, <3>3, <3>7, Refused
    <3>9. ASSUME NEW ty \in Tx
          PROVE  /\ ~Permits(w, ty) => ~Permits(v, ty)
                 /\ Verdict(v, ty) = "Replay" => ty = tx \/ Verdict(w, ty) = "Replay"
      <4> DEFINE d == w.high - ty.sequence
                 e == v.high - ty.sequence
      <4>1. /\ ~Permits(w, ty) <=> ty.sequence <= w.high /\ (d \in Slot => w.slots[d] # None)
            /\ Verdict(w, ty) = "Replay" <=> d \in Slot /\ w.slots[d] = ty
            /\ ~Permits(v, ty) <=> ty.sequence <= v.high /\ (e \in Slot => v.slots[e] # None)
            /\ Verdict(v, ty) = "Replay" <=> e \in Slot /\ v.slots[e] = ty
        BY <2>1, <3>7, Refused
      <4>2. ty.sequence \in Nat /\ e = d + gap /\ d \in Int /\ e \in Int
        BY <2>2, <3>2, <3>3, TxFacts
      <4>3. ty.sequence <= w.high => ty.sequence <= v.high
        BY <2>2, <3>2, <3>3, <4>2
      <4>4. ty.sequence <= w.high => d >= 0
        BY <2>2, <4>2
      <4>5. e \in Slot /\ d >= 0 => d \in Slot
        BY <3>2, <4>2, WindowAssumption DEF Slot
      <4>6. e \in Slot /\ d >= 0 => v.slots[e] = w.slots[d]
        <5> SUFFICES ASSUME e \in Slot, d >= 0 PROVE v.slots[e] = w.slots[d]
          OBVIOUS
        <5>1. e # 0 /\ ~(e < gap) /\ e - gap = d
          BY <3>2, <4>2
        <5> QED BY <3>3, <5>1
      <4>7. e \in Slot /\ v.slots[e] = ty => ty = tx \/ d >= 0
        <5> SUFFICES ASSUME e \in Slot, v.slots[e] = ty, ty # tx, ~(d >= 0) PROVE FALSE
          OBVIOUS
        <5>1. e < gap
          BY <3>2, <4>2
        <5>2. v.slots[e] \in {tx, None}
          BY <3>3, <5>1
        <5> QED BY <5>2, TxFacts
      <4> HIDE DEF d, e
      <4> QED
        BY <4>1, <4>3, <4>4, <4>5, <4>6, <4>7
    <3> QED
      BY <3>7, <3>8, <3>9 DEF v
  <2>4. CASE ~(tx.sequence > w.high)
    <3> DEFINE c == w.high - tx.sequence
    <3>1. v = [w EXCEPT !.slots[c] = tx]
      BY <1>3, <2>4 DEF Observe
    <3>2. /\ c \in Slot /\ w.slots[c] = None
      BY <1>1, <2>1, <2>2, <2>4, Refused
    <3>3. c # 0 /\ c <= w.high /\ tx.sequence = w.high - c
      BY <1>1, <2>2, <2>4, <3>2
    <3>4. v = [high |-> w.high, slots |-> [w.slots EXCEPT ![c] = tx]]
      BY <2>2, <3>1
    <3> HIDE DEF v, c
    <3>5. v.high = w.high /\ \A d \in Slot : v.slots[d] = IF d = c THEN tx ELSE w.slots[d]
      BY <2>2, <3>2, <3>4
    <3>6. v \in [high : Sequence, slots : [Slot -> Tx \cup {None}]]
      BY <2>2, <3>2, <3>4, SequenceAssumption DEF Sequence
    <3>7. v \in WindowType
      BY <1>1, <2>2, <3>3, <3>5, <3>6 DEF WindowType
    <3>8. w.high - tx.sequence = c
      BY DEF c
    <3>9. ~Permits(v, tx)
      BY <1>1, <2>2, <3>2, <3>3, <3>5, <3>7, <3>8, Refused
    <3>10. ASSUME NEW ty \in Tx
           PROVE  /\ ~Permits(w, ty) => ~Permits(v, ty)
                  /\ Verdict(v, ty) = "Replay" => ty = tx \/ Verdict(w, ty) = "Replay"
      <4> DEFINE d == w.high - ty.sequence
      <4>1. /\ ~Permits(w, ty) <=> ty.sequence <= w.high /\ (d \in Slot => w.slots[d] # None)
            /\ Verdict(w, ty) = "Replay" <=> d \in Slot /\ w.slots[d] = ty
        BY <2>1, Refused
      <4>2. /\ ~Permits(v, ty) <=> ty.sequence <= w.high /\ (d \in Slot => v.slots[d] # None)
            /\ Verdict(v, ty) = "Replay" <=> d \in Slot /\ v.slots[d] = ty
        BY <3>5, <3>7, Refused
      <4> HIDE DEF d
      <4> QED
        BY <1>1, <3>5, <4>1, <4>2
    <3> QED
      BY <3>7, <3>9, <3>10 DEF v
  <2> QED BY <2>3, <2>4
<1> QED BY <1>2, <1>3

-----------------------------------------------------------------------------
(* One stream from one state to the next.                                  *)

LEMMA StreamFacts ==
    ASSUME NEW r, NEW x, StreamOK(x, r), x # None
    PROVE  /\ x \in StreamType /\ x.window \in WindowType /\ x.window # None
           /\ x.custody \subseteq Relayed /\ x.introducer \in Principal /\ x.spentAt \in Nat
           /\ x # Damaged /\ WindowOf(x) = x.window
           /\ \A tx \in x.custody : /\ tx.stream = r /\ ~Permits(x.window, tx)
                                    /\ SpentAt(tx) <= x.spentAt
<1>1. x \in StreamType
  BY DEF StreamOK
<1>2. x.window \in WindowType /\ x.custody \subseteq Relayed /\ x.introducer \in Principal
      /\ x.spentAt \in Nat
  BY <1>1 DEF StreamType
<1> QED
  BY <1>1, <1>2, RecordAssumption DEF StreamOK, WindowOf

LEMMA NoStream == ASSUME NEW r, NEW y PROVE StreamOK(None, r) /\ Remembers(None, y)
BY DEF StreamOK, Remembers

LEMMA RemembersItself == ASSUME NEW r, NEW x, StreamOK(x, r) PROVE Remembers(x, x)
<1>1. CASE x = None
  BY <1>1 DEF Remembers
<1>2. CASE x # None
  <2>1. x.spentAt \in Nat
    BY <1>2, StreamFacts
  <2> QED
    BY <1>2, <2>1 DEF Remembers
<1> QED BY <1>1, <1>2

LEMMA RemembersTransitive ==
    ASSUME now \in Nat, NEW r, NEW x, NEW y, NEW z,
           StreamOK(x, r), StreamOK(y, r), StreamOK(z, r), Remembers(x, y), Remembers(y, z)
    PROVE  Remembers(x, z)
<1>1. CASE x = None \/ x.spentAt <= now
  BY <1>1 DEF Remembers
<1>2. CASE x # None /\ ~(x.spentAt <= now)
  <2>1. y # None /\ x.spentAt <= y.spentAt
    BY <1>2 DEF Remembers
  <2>2. x.spentAt \in Nat /\ y.spentAt \in Nat /\ (z # None => z.spentAt \in Nat)
    BY <1>2, <2>1, StreamFacts
  <2>3. ~(y.spentAt <= now)
    BY <1>2, <2>1, <2>2
  <2>4. z # None /\ x.spentAt <= z.spentAt
    BY <2>1, <2>2, <2>3 DEF Remembers
  <2> QED
    BY <1>2, <2>1, <2>3, <2>4 DEF Remembers
<1> QED BY <1>1, <1>2

\* What a state beneath knows and blocks, the states above it do too.
LEMMA RemembersKnows ==
    ASSUME now \in Nat, NEW r, NEW x, NEW y, NEW tx \in Tx,
           StreamOK(x, r), StreamOK(y, r), Remembers(x, y)
    PROVE  /\ Knows(x, tx) => Knows(y, tx)
           /\ Blocks(x, tx) => Blocks(y, tx)
<1>1. SpentAt(tx) \in Nat
  BY TxFacts
<1>2. CASE Spent(tx)
  BY <1>2 DEF Knows, Blocks
<1>3. CASE ~Spent(tx) /\ ~Knows(x, tx)
  BY <1>3 DEF Blocks
<1>4. CASE ~Spent(tx) /\ Knows(x, tx)
  <2>1. x # None /\ ~Permits(x.window, tx) /\ SpentAt(tx) <= x.spentAt /\ x.spentAt \in Nat
    BY <1>4, StreamFacts DEF Knows
  <2>2. ~(x.spentAt <= now)
    BY <1>1, <1>4, <2>1 DEF Spent
  <2>3. /\ y # None /\ x.spentAt <= y.spentAt /\ ~Permits(y.window, tx)
        /\ tx \in y.custody => tx \in x.custody
    BY <2>1, <2>2 DEF Remembers
  <2>4. y.spentAt \in Nat
    BY <2>3, StreamFacts
  <2>5. SpentAt(tx) <= y.spentAt
    BY <1>1, <2>1, <2>3, <2>4
  <2> QED
    BY <1>4, <2>3, <2>5 DEF Knows, Blocks
<1> QED BY <1>2, <1>3, <1>4

\* Retiring spent streams and custody forgets nothing that can be offered.
LEMMA RetiredFacts ==
    ASSUME now \in Nat, NEW r \in Receivers, StreamOK(tables[r], r)
    PROVE  LET x == Retired(tables)[r]
           IN  /\ StreamOK(x, r) /\ Remembers(tables[r], x)
               /\ tables[r] = None => x = None
               /\ x # None => /\ tables[r] # None /\ x.window = tables[r].window
                              /\ x.spentAt = tables[r].spentAt /\ now < x.spentAt
                              /\ x.custody = {tx \in tables[r].custody : now < SpentAt(tx)}
               /\ x = None => tables[r] = None \/ tables[r].spentAt <= now
<1> DEFINE x == Retired(tables)[r]
<1>1. r \in Key /\ r \notin Senders
  BY KeyAssumption DEF Key
<1>2. x = IF tables[r] = None THEN None
          ELSE IF tables[r].spentAt <= now THEN None
          ELSE [tables[r] EXCEPT !.custody = {tx \in tables[r].custody : now < SpentAt(tx)}]
  BY <1>1 DEF Retired
<1> HIDE DEF x
<1>3. CASE tables[r] = None \/ tables[r].spentAt <= now
  <2>1. x = None
    BY <1>2, <1>3
  <2> QED
    BY <1>3, <2>1, NoStream DEF Remembers, x
<1>4. CASE tables[r] # None /\ ~(tables[r].spentAt <= now)
  <2> DEFINE y == tables[r]
  <2>1. /\ y \in StreamType /\ y.window \in WindowType /\ y.custody \subseteq Relayed
        /\ y.introducer \in Principal /\ y.spentAt \in Nat
        /\ \A tx \in y.custody : /\ tx.stream = r /\ ~Permits(y.window, tx)
                                 /\ SpentAt(tx) <= y.spentAt
    BY <1>4, StreamFacts
  <2>2. x = [y EXCEPT !.custody = {tx \in y.custody : now < SpentAt(tx)}]
    BY <1>2, <1>4
  <2> HIDE DEF y
  <2>3. /\ x \in StreamType /\ x.window = y.window /\ x.spentAt = y.spentAt
        /\ x.custody = {tx \in y.custody : now < SpentAt(tx)}
    BY <2>1, <2>2 DEF StreamType
  <2>4. x # None
    BY <2>3, RecordAssumption
  <2>5. StreamOK(x, r)
    BY <2>1, <2>3 DEF StreamOK
  <2>6. Remembers(y, x) /\ now < x.spentAt
    BY <1>4, <2>1, <2>3, <2>4 DEF Remembers, y
  <2> QED
    BY <1>4, <2>3, <2>4, <2>5, <2>6 DEF x, y
<1> QED BY <1>3, <1>4

\* A stream that admits a transaction knows it from then on.
LEMMA AdmittedFacts ==
    ASSUME NEW tx \in Tx, NEW x, StreamOK(x, tx.stream), NEW principal \in Principal,
           NEW relayed \in SUBSET ({tx} \cap Relayed), Permits(WindowOf(x), tx)
    PROVE  LET y == Admitted(x, tx, principal, relayed)
           IN  /\ StreamOK(y, tx.stream) /\ y # None /\ Remembers(x, y)
               /\ ~Permits(y.window, tx) /\ SpentAt(tx) <= y.spentAt
               /\ y.custody = (IF x = None THEN {} ELSE x.custody) \cup relayed
               /\ x # None => tx \notin x.custody
               /\ \A ty \in Tx : Verdict(y.window, ty) = "Replay" =>
                      ty = tx \/ (x # None /\ Verdict(x.window, ty) = "Replay")
<1> DEFINE y == Admitted(x, tx, principal, relayed)
           v == Observe(WindowOf(x), tx)
<1>1. WindowOK(WindowOf(x)) /\ SpentAt(tx) \in Nat
  BY StreamFacts, TxFacts DEF WindowOf, WindowOK
<1>2. /\ v \in WindowType /\ ~Permits(v, tx)
      /\ \A ty \in Tx : ~Permits(WindowOf(x), ty) => ~Permits(v, ty)
      /\ \A ty \in Tx : Verdict(v, ty) = "Replay" => ty = tx \/ Verdict(WindowOf(x), ty) = "Replay"
  BY <1>1, ObserveFacts
<1>3. CASE x = None
  <2>1. y = [window |-> v, custody |-> relayed, introducer |-> principal, spentAt |-> SpentAt(tx)]
    BY <1>3 DEF Admitted, WindowOf
  <2>2. \A ty \in Tx : Verdict(WindowOf(x), ty) # "Replay"
    BY <1>3 DEF WindowOf, Verdict
  <2> HIDE DEF y, v
  <2>3. y \in StreamType /\ y.window = v /\ y.custody = relayed /\ y.spentAt = SpentAt(tx)
    BY <1>1, <1>2, <2>1 DEF StreamType
  <2>4. y # None
    BY <2>3, RecordAssumption
  <2>5. StreamOK(y, tx.stream) /\ Remembers(x, y)
    BY <1>1, <1>2, <1>3, <2>3 DEF StreamOK, Remembers
  <2> QED
    BY <1>1, <1>2, <1>3, <2>2, <2>3, <2>4, <2>5 DEF y
<1>4. CASE x # None
  <2>1. /\ x.window \in WindowType /\ x.custody \subseteq Relayed /\ x.introducer \in Principal
        /\ x.spentAt \in Nat /\ WindowOf(x) = x.window
        /\ \A ty \in x.custody : /\ ty.stream = tx.stream /\ ~Permits(x.window, ty)
                                 /\ SpentAt(ty) <= x.spentAt
    BY <1>4, StreamFacts
  <2>2. y = [window |-> v, custody |-> x.custody \cup relayed, introducer |-> x.introducer,
             spentAt |-> Greatest(x.spentAt, SpentAt(tx))]
    BY <1>4, <2>1 DEF Admitted
  <2> DEFINE g == Greatest(x.spentAt, SpentAt(tx))
  <2>3. g \in Nat /\ x.spentAt <= g /\ SpentAt(tx) <= g
    BY <1>1, <2>1 DEF Greatest
  <2> HIDE DEF y, v, g
  <2>4. /\ y \in StreamType /\ y.window = v /\ y.custody = x.custody \cup relayed
        /\ y.spentAt = g
    BY <1>2, <2>1, <2>2, <2>3 DEF StreamType, g
  <2>5. y # None
    BY <2>4, RecordAssumption
  <2>6. \A ty \in x.custody : ty \in Tx /\ SpentAt(ty) \in Nat
    BY <2>1, TxFacts DEF Tx
  <2>7. ASSUME NEW ty \in y.custody
        PROVE  ty.stream = tx.stream /\ ~Permits(v, ty) /\ SpentAt(ty) <= g
    <3>1. CASE ty \in x.custody
      BY <1>2, <2>1, <2>3, <2>6, <3>1
    <3>2. CASE ty = tx
      BY <1>2, <2>3, <3>2
    <3> QED BY <2>4, <3>1, <3>2
  <2>8. StreamOK(y, tx.stream)
    BY <2>4, <2>7 DEF StreamOK
  <2>9. Remembers(x, y)
    BY <1>2, <1>4, <2>1, <2>3, <2>4, <2>5 DEF Remembers
  <2> QED
    BY <1>2, <1>4, <2>1, <2>3, <2>4, <2>5, <2>8, <2>9 DEF y
<1> QED BY <1>3, <1>4

-----------------------------------------------------------------------------
(* Transitions that join the open batch.                                   *)

\* What a transition does to a stream.
Moves(r, t, records) ==
    /\ StreamOK(t[r], r) /\ Remembers(tables[r], t[r])
    /\ Recorded(records, r, tables[r], t[r])
    /\ disk[r] = Damaged => t[r] = None /\ r \notin DOMAIN records

\* The pass is done with nothing more, though it may come to another element.
PassGoesOn == pass' = pass \/ (pass # None /\ pass' = [pass EXCEPT !.left = pass'.left])

Transition(t, records, m) ==
    /\ Table(t) /\ DOMAIN records \subseteq Key /\ m \in MemberRecord /\ Join(t, records, m)
    /\ \A r \in Receivers : Moves(r, t, records)
    /\ \A s \in Senders : Leased(tables[s]) => Leased(t[s])
    /\ handed' = [tx \in Relayed |-> IF Releases(m, tx) THEN "Releasing" ELSE handed[tx]]
    /\ PassGoesOn

\* What it has to do with one transaction.
Effect(t, m, tx) ==
    LET low  == tables[tx.stream]
        high == t[tx.stream]
    IN  /\ Gives(m, tx) => \/ Spent(tx) /\ m.outcome = "Ok"
                           \/ /\ ~Spent(tx) /\ disk[tx.stream] # Damaged
                              /\ ~Blocks(low, tx) /\ Knows(high, tx)
                              /\ ~Knows(low, tx) \/ (Standing(tx) = "Unknown" /\ PassIdle)
        /\ Handover(m, tx) => Standing(tx) = "Unknown" /\ PassIdle
        /\ Closes(m, tx) /\ (Releases(m, tx) => Knows(low, tx)) => Blocks(high, tx)
        /\ Releases(m, tx) => Standing(tx) = "Taken"
        /\ tx \in Relayed \ Live =>
              /\ Taken(low, tx) /\ handed[tx] # "Taken" => Taken(high, tx)
              /\ Replays(m, tx) =>
                    \/ Spent(tx)
                    \/ /\ low # None /\ tx \notin low.custody
                       /\ Verdict(low.window, tx) = "Replay"

LEMMA StillMoves ==
    ASSUME StreamsOK, NEW r \in Receivers, NEW t, NEW records,
           t[r] = tables[r], r \notin DOMAIN records
    PROVE  Moves(r, t, records)
<1>1. Chain(r)
  BY DEF StreamsOK
<1>2. Remembers(tables[r], t[r])
  BY <1>1, RemembersItself DEF Chain
<1> QED
  BY <1>1, <1>2 DEF Chain, Moves, Recorded

LEMMA ChangedDomain == ASSUME NEW t, NEW u PROVE DOMAIN Changed(t, u) \subseteq Key
BY DEF Changed

LEMMA HandedStays ==
    ASSUME StreamsOK, UNCHANGED handed, NEW m, m.op # "release"
    PROVE  handed' = [tx \in Relayed |-> IF Releases(m, tx) THEN "Releasing" ELSE handed[tx]]
BY DEF StreamsOK, Releases

\* The fields of a member that hands out no sequences.
LEMMA MemberFields ==
    ASSUME NEW op \in Op, NEW item \in Key \cup Tx, NEW outcome \in Outcome
    PROVE  LET m == Member(op, item, outcome, {})
           IN  /\ m \in MemberRecord /\ m.op = op /\ m.item = item
               /\ m.outcome = outcome
BY DEF Member, MemberRecord

LEMMA ReserveTransition ==
    ASSUME StreamsOK, NEW s \in Senders, NEW count \in Counts, Reserve(s, count)
    PROVE  \E t, records, m : Transition(t, records, m) /\ \A tx \in Tx : Effect(t, m, tx)
<1> DEFINE t == [tables EXCEPT ![s] = Allocate(tables[s], count)]
           records == IF InLease(tables[s], count) THEN Empty ELSE [k \in {s} |-> Record(t, s)]
           m == Member("reserve", s, "Ok", Allocated(tables[s], count))
           refusal == ReserveRefusal(s, count)
<1>1. s \in Key /\ Table(tables) /\ Table(t) /\ s \notin Receivers /\ SendersOK
  BY KeyAssumption DEF Key, StreamsOK, SendersOK, Journal, Table
<1>2. UNCHANGED <<handed, pass>>
  BY DEF Reserve
<1>3. ASSUME NEW u, NEW all, NEW k \in MemberRecord, Join(u, all, k),
             k.op \in {"reserve", "unread"},
             Table(u), DOMAIN all \subseteq Key,
             \A q \in Senders : Leased(tables[q]) => Leased(u[q]),
             \A r \in Receivers : u[r] = tables[r] /\ r \notin DOMAIN all
      PROVE  Transition(u, all, k) /\ \A tx \in Tx : Effect(u, k, tx)
  <2>1. \A r \in Receivers : Moves(r, u, all)
    BY <1>3, StillMoves
  <2>2. Transition(u, all, k)
    BY <1>2, <1>3, <2>1, HandedStays DEF Transition, PassGoesOn
  <2>3. \A tx \in Tx : /\ ~Gives(k, tx) /\ ~Closes(k, tx) /\ ~Releases(k, tx)
                       /\ ~Handover(k, tx) /\ ~Replays(k, tx)
    BY <1>3 DEF Gives, Closes, Releases, Handover, Replays
  <2>4. \A tx \in Tx : u[tx.stream] = tables[tx.stream]
    BY <1>3, TxFacts
  <2> QED
    BY <1>3, <2>2, <2>3, <2>4 DEF Effect
<1>4. CASE refusal # "Ok"
  <2>1. Unread \in MemberRecord /\ Unread.op = "unread"
    BY UnreadIsRecord
  <2>2. Join(tables, Empty, Unread)
    BY <1>4 DEF Reserve, Refuse
  <2>3. DOMAIN Empty \subseteq Key /\ \A r \in Receivers : r \notin DOMAIN Empty
    BY DEF Empty
  <2> QED
    BY <1>1, <1>3, <2>1, <2>2, <2>3
<1>5. CASE refusal = "Ok"
  <2>1. Join(t, records, m)
    BY <1>5 DEF Reserve
  <2>2. LeaseOK(tables[s])
    BY <1>1 DEF SendersOK, Apart
  <2>3. Leased(tables[s]) => Leased(Allocate(tables[s], count))
    <3> SUFFICES ASSUME Leased(tables[s]) PROVE Allocate(tables[s], count) \in LeaseType
      BY DEF Leased
    <3> DEFINE next == NextSequence(tables[s])
               last == next + count - 1
    <3>1. next \in Nat /\ count \in Nat /\ count > 0 /\ Lease \in Nat /\ MaxSequence \in Nat
      BY KeyAssumption, LeaseAssumption, SequenceAssumption
         DEF Leased, LeaseType, NextSequence, Sequence
    <3>2. last <= MaxSequence /\ last \in Nat
      <4>1. ~Exhausted(tables[s], count)
        BY <1>5 DEF ReserveRefusal
      <4> QED BY <3>1, <4>1 DEF Exhausted
    <3>3. Extended(tables[s], count) \in Nat /\ Extended(tables[s], count) <= MaxSequence
      BY <3>1, <3>2 DEF Extended, Greatest, Least
    <3>4. InLease(tables[s], count) => tables[s].leased \in Sequence
      BY DEF InLease, Leased, LeaseType
    <3> HIDE DEF next
    <3> QED
      BY <3>2, <3>3, <3>4, SequenceAssumption DEF Allocate, LeaseType, Sequence, next
  <2>4. \A q \in Senders : Leased(tables[q]) => Leased(t[q])
    BY <1>1, <2>3 DEF Table, Key
  <2>5. Allocated(tables[s], count) \in SUBSET Int /\ "reserve" \in Op /\ "Ok" \in Outcome
    BY <2>2, AllocateFacts DEF Op, Outcome
  <2>6. m \in MemberRecord /\ m.op = "reserve"
    BY <1>1, <2>5, MemberIsRecord
  <2>7. /\ DOMAIN records \subseteq Key
        /\ \A r \in Receivers : t[r] = tables[r] /\ r \notin DOMAIN records
    BY <1>1 DEF Empty, Table, Key
  <2> HIDE DEF m, t, records
  <2> QED
    BY <1>1, <1>3, <2>1, <2>4, <2>6, <2>7
<1> QED BY <1>4, <1>5

\* The refusals of an admission.
LEMMA AdmitRefusalFacts ==
    ASSUME NEW t, NEW tx, NEW principal
    PROVE  LET refusal == AdmitRefusal(t, tx, principal)
           IN  /\ refusal \in Outcome /\ refusal # "InCustody"
               /\ refusal = "Replay" => Verdict(WindowOf(t[tx.stream]), tx) = "Replay"
               /\ refusal = "Ok" => /\ ~Unavailable(tx.stream)
                                    /\ Permits(WindowOf(t[tx.stream]), tx)
<1>1. AdmitRefusal(t, tx, principal) \in Outcome
  BY AdmitRefusals
<1>2. \A w : Verdict(w, tx) \in {"First", "Advance", "Stale", "Late", "Replay", "Fork"}
  BY Zenon DEF Verdict
<1> DEFINE w == WindowOf(t[tx.stream])
           v == Verdict(w, tx)
           new == t[tx.stream] = None
                  /\ ~(AdmitsNewStream(t, Receivers) /\ AdmitsItem(Use(t), principal))
<1>3. v # "InCustody" /\ v # "Ok"
  <2>1. v \in {"First", "Advance", "Stale", "Late", "Replay", "Fork"}
    BY <1>2
  <2> HIDE DEF v
  <2> QED BY <2>1
<1>4. AdmitRefusal(t, tx, principal) =
          IF Unavailable(tx.stream) THEN "Unavailable" ELSE IF new THEN "Capacity"
          ELSE IF ~Permits(w, tx) THEN v ELSE "Ok"
  BY DEF AdmitRefusal
<1> HIDE DEF v, w, new
<1>5. /\ AdmitRefusal(t, tx, principal) # "InCustody"
      /\ AdmitRefusal(t, tx, principal) = "Replay" => v = "Replay"
      /\ AdmitRefusal(t, tx, principal) = "Ok" => ~Unavailable(tx.stream) /\ Permits(w, tx)
  BY <1>3, <1>4
<1> QED
  BY <1>1, <1>5 DEF v, w

\* A refusal changes no stream.
LEMMA RefuseTransition ==
    ASSUME StreamsOK, NEW op \in {"admit", "relay"}, NEW item \in Tx,
           NEW outcome \in Outcome \ {"Ok", "InCustody"},
           Refuse(op, item, outcome), UNCHANGED handed,
           PassGoesOn,
           op = "relay" /\ outcome = "Replay" =>
               LET x == tables[item.stream]
               IN  \/ Spent(item)
                   \/ x # None /\ Verdict(x.window, item) = "Replay" /\ item \notin x.custody
    PROVE  \E t, records, m : Transition(t, records, m) /\ \A tx \in Tx : Effect(t, m, tx)
<1> DEFINE m == IF op = "relay" THEN Member(op, item, outcome, {}) ELSE Unread
<1>1. /\ m \in MemberRecord
      /\ \/ m.op = "unread"
         \/ op = "relay" /\ m.op = op /\ m.item = item /\ m.outcome = outcome
  BY MemberFields, UnreadIsRecord DEF Op
<1>2. Join(tables, Empty, m) /\ Table(tables)
  BY DEF Refuse, StreamsOK, SendersOK, Journal
<1> HIDE DEF m
<1>3. \A r \in Receivers : Moves(r, tables, Empty)
  BY StillMoves DEF Empty
<1>4. Transition(tables, Empty, m)
  BY <1>1, <1>2, <1>3, HandedStays DEF Transition, Empty
<1>5. \A tx \in Tx : /\ ~Gives(m, tx) /\ ~Closes(m, tx) /\ ~Releases(m, tx) /\ ~Handover(m, tx)
                     /\ Replays(m, tx) => op = "relay" /\ outcome = "Replay" /\ tx = item
  BY <1>1 DEF Gives, Closes, Releases, Handover, Replays
<1>6. \A tx \in Tx : Effect(tables, m, tx)
  BY <1>1, <1>5 DEF Effect
<1> QED
  BY <1>4, <1>6

LEMMA RetiredTaken ==
    ASSUME StreamsOK, NEW tx \in Tx, Taken(tables[tx.stream], tx)
    PROVE  Taken(Retired(tables)[tx.stream], tx)
<1>1. tx.stream \in Receivers /\ now \in Nat /\ SpentAt(tx) \in Nat
      /\ StreamOK(tables[tx.stream], tx.stream)
  BY TxFacts DEF StreamsOK, Chain
<1>2. LET x == Retired(tables)[tx.stream]
      IN  /\ tables[tx.stream] = None => x = None
          /\ x # None => /\ x.window = tables[tx.stream].window
                         /\ x.custody = {ty \in tables[tx.stream].custody : now < SpentAt(ty)}
  BY <1>1, RetiredFacts
<1> QED
  BY <1>1, <1>2 DEF Taken, Settled, Spent

LEMMA AdmitTransition ==
    ASSUME StreamsOK, NEW tx \in Tx, NEW principal \in Principal, NEW op, NEW relayed,
           \/ op = "admit" /\ tx \in Live /\ relayed = {}
           \/ /\ op = "relay" /\ tx \in Relayed /\ relayed = {tx} /\ handed[tx] = "Unknown"
              /\ PassIdle /\ tx \notin Custody(Retired(tables)),
           PassGoesOn,
           AdmitInto(Retired(tables), op, tx, principal, relayed), UNCHANGED handed
    PROVE  \E t, records, m : Transition(t, records, m) /\ \A ty \in Tx : Effect(t, m, ty)
<1> DEFINE t == Retired(tables)
           r == tx.stream
           refusal == AdmitRefusal(t, tx, principal)
           u == [t EXCEPT ![tx.stream] = Admitted(@, tx, principal, relayed)]
           records == Over([k \in {tx.stream} |-> Record(u, k)], Changed(tables, t))
           m == Member(op, tx, "Ok", {})
<1>1. /\ op \in {"admit", "relay"} /\ op \in Op /\ tx \in Key \cup Tx
      /\ "Ok" \in Outcome /\ "Quota" \in Outcome /\ relayed \in SUBSET ({tx} \cap Relayed)
  BY DEF Op, Outcome
<1>2. r \in Receivers /\ r \in Key /\ r \notin Senders /\ now \in Nat /\ SpentAt(tx) \in Nat
  BY TxFacts, KeyAssumption DEF StreamsOK, Key
<1>3. ASSUME NEW q \in Receivers
      PROVE  /\ StreamOK(tables[q], q) /\ StreamOK(t[q], q) /\ Remembers(tables[q], t[q])
             /\ tables[q] = None => t[q] = None
             /\ t[q] # None => /\ tables[q] # None /\ t[q].window = tables[q].window
                               /\ t[q].spentAt = tables[q].spentAt /\ now < t[q].spentAt
                               /\ t[q].custody = {ty \in tables[q].custody : now < SpentAt(ty)}
             /\ t[q] = None => tables[q] = None \/ tables[q].spentAt <= now
  BY <1>2, RetiredFacts DEF StreamsOK, Chain
<1>4. Table(t)
  BY RetiredTable
<1>5. /\ refusal \in Outcome /\ refusal # "InCustody"
      /\ refusal = "Replay" => Verdict(WindowOf(t[r]), tx) = "Replay"
      /\ refusal = "Ok" => ~Unavailable(r) /\ Permits(WindowOf(t[r]), tx)
  BY AdmitRefusalFacts
<1>6. \/ refusal # "Ok" /\ Refuse(op, tx, refusal)
      \/ Refuse(op, tx, "Quota")
      \/ refusal = "Ok" /\ Join(u, records, m)
  BY DEF AdmitInto
<1>7. op = "relay" /\ t[r] # None => tx \notin t[r].custody
  BY <1>2 DEF Custody
<1>8. ASSUME refusal # "Ok", Refuse(op, tx, refusal)
      PROVE  \E v, recs, n : Transition(v, recs, n) /\ \A ty \in Tx : Effect(v, n, ty)
  <2>1. op = "relay" /\ refusal = "Replay" =>
            \/ Spent(tx)
            \/ /\ tables[r] # None /\ Verdict(tables[r].window, tx) = "Replay"
               /\ tx \notin tables[r].custody
    <3> SUFFICES ASSUME op = "relay", refusal = "Replay", ~Spent(tx)
                 PROVE  /\ tables[r] # None /\ Verdict(tables[r].window, tx) = "Replay"
                        /\ tx \notin tables[r].custody
      OBVIOUS
    <3>1. Verdict(WindowOf(t[r]), tx) = "Replay"
      BY <1>5
    <3>2. t[r] # None
      BY <3>1 DEF WindowOf, Verdict
    <3>3. now < SpentAt(tx)
      BY <1>2 DEF Spent
    <3> QED
      BY <1>2, <1>3, <1>7, <3>1, <3>2, <3>3 DEF WindowOf
  <2> HIDE DEF refusal, r
  <2>2. refusal \in Outcome \ {"Ok", "InCustody"}
    BY <1>5, <1>8
  <2> QED
    BY <1>1, <1>8, <2>1, <2>2, RefuseTransition DEF r
<1>9. ASSUME Refuse(op, tx, "Quota")
      PROVE  \E v, recs, n : Transition(v, recs, n) /\ \A ty \in Tx : Effect(v, n, ty)
  BY <1>1, <1>9, RefuseTransition
<1>10. ASSUME refusal = "Ok", Join(u, records, m)
       PROVE  Transition(u, records, m) /\ \A ty \in Tx : Effect(u, m, ty)
  <2>1. m \in MemberRecord /\ m.op = op /\ m.item = tx /\ m.outcome = "Ok"
    BY <1>1, MemberFields
  <2>2. /\ Table(u) /\ u[r] = Admitted(t[r], tx, principal, relayed)
        /\ \A q \in Key \ {r} : u[q] = t[q]
    BY <1>2, <1>4 DEF Table
  <2>3. disk[r] # Damaged /\ Permits(WindowOf(t[r]), tx)
    BY <1>5, <1>10 DEF Unavailable
  <2>4. /\ StreamOK(u[r], r) /\ u[r] # None /\ Remembers(t[r], u[r])
        /\ ~Permits(u[r].window, tx) /\ SpentAt(tx) <= u[r].spentAt
        /\ u[r].custody = (IF t[r] = None THEN {} ELSE t[r].custody) \cup relayed
        /\ t[r] # None => tx \notin t[r].custody
        /\ \A ty \in Tx : Verdict(u[r].window, ty) = "Replay" =>
               ty = tx \/ (t[r] # None /\ Verdict(t[r].window, ty) = "Replay")
    <3>1. StreamOK(t[r], r)
      BY <1>2, <1>3
    <3> HIDE DEF u, t
    <3> QED
      BY <1>1, <2>2, <2>3, <3>1, AdmittedFacts
  <2>5. /\ DOMAIN records = {r} \cup {k \in Key : tables[k] # t[k]}
        /\ records[r] = u[r]
        /\ \A k \in DOMAIN records \ {r} : records[k] = Record(t, k)
    <3>1. Record(u, r) = u[r]
      BY <1>2, <2>4 DEF Record
    <3> HIDE DEF u, t
    <3> QED
      BY <3>1 DEF Over, Changed
  <2> HIDE DEF u, m, records, t
  <2>6. ASSUME NEW q \in Receivers PROVE Moves(q, u, records)
    <3>1. q \in Key /\ q \notin Senders /\ Chain(q)
      BY KeyAssumption DEF Key, StreamsOK
    <3>2. CASE q = r
      <4>1. Remembers(tables[r], u[r])
        BY <1>2, <1>3, <2>4, RemembersTransitive
      <4> QED
        BY <2>3, <2>4, <2>5, <3>2, <4>1 DEF Moves, Recorded
    <3>3. CASE q # r
      <4>1. u[q] = t[q]
        BY <2>2, <3>1, <3>3
      <4>2. q \in DOMAIN records <=> tables[q] # t[q]
        BY <2>5, <3>1, <3>3
      <4>3. q \in DOMAIN records => records[q] = t[q]
        BY <2>5, <3>1, <3>3 DEF Record
      <4>4. disk[q] = Damaged => tables[q] = None /\ t[q] = None
        BY <1>3, <3>1 DEF Chain
      <4> QED
        BY <1>3, <4>1, <4>2, <4>3, <4>4 DEF Moves, Recorded
    <3> QED BY <3>2, <3>3
  <2>7. Transition(u, records, m)
    <3>1. \A s \in Senders : u[s] = tables[s]
      BY <1>2, <2>2, RetiredSenders DEF Key, t
    <3> QED
      BY <1>1, <1>2, <1>10, <2>1, <2>2, <2>5, <2>6, <3>1, HandedStays DEF Transition
  <2>8. ~Spent(tx) => ~Knows(tables[r], tx)
    <3> SUFFICES ASSUME ~Spent(tx) PROVE ~Knows(tables[r], tx)
      OBVIOUS
    <3>1. StreamOK(tables[r], r)
      BY <1>2, <1>3
    <3>2. CASE t[r] # None
      BY <1>2, <1>3, <2>3, <3>2 DEF Knows, WindowOf
    <3>3. CASE t[r] = None /\ tables[r] = None
      BY <3>3 DEF Knows
    <3>4. CASE tables[r] # None /\ tables[r].spentAt <= now
      <4>1. tables[r].spentAt \in Nat
        BY <3>1, <3>4, StreamFacts
      <4>2. ~(SpentAt(tx) <= tables[r].spentAt)
        BY <1>2, <3>4, <4>1 DEF Spent
      <4> QED BY <4>2 DEF Knows
    <3> QED BY <1>2, <1>3, <3>2, <3>3, <3>4
  <2>9. Knows(u[r], tx) /\ (~Spent(tx) => ~Blocks(tables[r], tx))
    BY <2>4, <2>8 DEF Knows, Blocks
  <2>10. op = "admit" => Blocks(u[r], tx)
    BY <2>4, <2>9 DEF Blocks
  <2>11. ASSUME NEW ty \in Relayed \ Live, ty \in Tx, Taken(tables[ty.stream], ty)
         PROVE  Taken(u[ty.stream], ty)
    <3>1. Taken(t[ty.stream], ty)
      BY <2>11, RetiredTaken DEF t
    <3>2. CASE ty.stream # r
      BY <2>2, <2>11, <3>1, <3>2, TxFacts DEF Key
    <3>3. CASE ty.stream = r /\ ty = tx
      BY <2>4, <2>11, <3>3 DEF Taken
    <3>4. CASE ty.stream = r /\ ty # tx
      BY <2>4, <2>11, <3>1, <3>4 DEF Taken
    <3> QED BY <3>2, <3>3, <3>4
  <2>12. ASSUME NEW ty \in Tx PROVE Effect(u, m, ty)
    <3>1. CASE ty = tx
      <4>1. /\ \/ Spent(tx) /\ m.outcome = "Ok"
               \/ /\ ~Spent(tx) /\ disk[r] # Damaged /\ ~Blocks(tables[r], tx)
                  /\ Knows(u[r], tx) /\ ~Knows(tables[r], tx)
            /\ Handover(m, tx) => Standing(tx) = "Unknown" /\ PassIdle
        BY <2>1, <2>3, <2>8, <2>9 DEF Handover, Standing
      <4>2. ~Releases(m, tx) /\ ~Replays(m, tx)
        BY <1>1, <2>1 DEF Releases, Replays
      <4>3. Closes(m, tx) => op = "admit"
        BY <1>1, <2>1 DEF Closes
      <4> QED
        BY <2>10, <2>11, <3>1, <4>1, <4>2, <4>3 DEF Effect, r
    <3>2. CASE ty # tx
      <4>1. /\ ~Gives(m, ty) /\ ~Closes(m, ty) /\ ~Releases(m, ty) /\ ~Handover(m, ty)
            /\ ~Replays(m, ty)
        BY <2>1, <3>2 DEF Gives, Closes, Releases, Handover, Replays
      <4> QED
        BY <2>11, <4>1 DEF Effect
    <3> QED BY <3>1, <3>2
  <2> QED BY <2>7, <2>12
<1> HIDE DEF u, m, records, refusal
<1> QED BY <1>6, <1>8, <1>9, <1>10

LEMMA AdmitActionTransition ==
    ASSUME StreamsOK, NEW tx \in Live, NEW principal \in Introducer, Admit(tx, principal)
    PROVE  \E t, records, m : Transition(t, records, m) /\ \A ty \in Tx : Effect(t, m, ty)
<1>1. tx \in Tx /\ principal \in Principal
  BY DEF Tx, Introducer, Principal, OwnShare
<1> QED
  BY <1>1, AdmitTransition DEF Admit, PassGoesOn

LEMMA RetiredMoves ==
    ASSUME StreamsOK, NEW r \in Receivers
    PROVE  Moves(r, Retired(tables), Changed(tables, Retired(tables)))
<1> DEFINE t == Retired(tables)
<1>1. r \in Key /\ r \notin Senders /\ now \in Nat /\ Chain(r)
  BY KeyAssumption DEF Key, StreamsOK
<1>2. StreamOK(t[r], r) /\ Remembers(tables[r], t[r]) /\ (tables[r] = None => t[r] = None)
  BY <1>1, RetiredFacts DEF Chain
<1> HIDE DEF t
<1>3. r \in DOMAIN Changed(tables, t) <=> tables[r] # t[r]
  BY <1>1 DEF Changed
<1>4. r \in DOMAIN Changed(tables, t) => Changed(tables, t)[r] = t[r]
  BY <1>1 DEF Changed, Record
<1>5. Moves(r, t, Changed(tables, t))
  BY <1>1, <1>2, <1>3, <1>4 DEF Moves, Recorded, Chain
<1> QED
  BY <1>5 DEF t

LEMMA OfferTransition ==
    ASSUME StreamsOK, NEW tx \in Relayed, Offer(tx)
    PROVE  \E t, records, m : Transition(t, records, m) /\ \A ty \in Tx : Effect(t, m, ty)
<1> DEFINE t == Retired(tables)
           r == tx.stream
           m == Member("relay", tx, "InCustody", {})
<1>1. /\ tx \in Tx /\ handed[tx] = "Unknown" /\ PassIdle /\ UNCHANGED handed
      /\ PassGoesOn
  <2>1. pass' = [pass EXCEPT !.left = @ \ {tx}] /\ pass # None
    BY DEF Offer, Visits
  <2>2. pass = [at |-> pass.at, left |-> pass.left, done |-> pass.done]
    BY <2>1 DEF StreamsOK, PassRecord
  <2>3. pass'.left = pass.left \ {tx}
    BY <2>1, <2>2
  <2> QED
    BY <2>1, <2>3 DEF Offer, Visits, Tx, PassGoesOn
<1>2. r \in Receivers /\ now \in Nat /\ SpentAt(tx) \in Nat /\ tx.expires \in Nat
  BY <1>1, TxFacts DEF StreamsOK
<1>4. \/ Refuse("relay", tx, "Unavailable") \/ Refuse("relay", tx, "CustodyFull")
      \/ ~Unavailable(r) /\ tx \in Custody(t) /\ Join(t, Changed(tables, t), m)
      \/ tx \notin Custody(t) /\ AdmitInto(t, "relay", tx, "Inbox", {tx})
  BY DEF Offer
<1>5. CASE Refuse("relay", tx, "Unavailable") \/ Refuse("relay", tx, "CustodyFull")
  <2>1. /\ "relay" \in {"admit", "relay"}
        /\ {"Unavailable", "CustodyFull"} \subseteq Outcome \ {"Ok", "InCustody"}
        /\ "Unavailable" # "Replay" /\ "CustodyFull" # "Replay"
    BY DEF Outcome
  <2> QED
    BY <1>1, <1>5, <2>1, RefuseTransition
<1>6. CASE tx \notin Custody(t) /\ AdmitInto(t, "relay", tx, "Inbox", {tx})
  <2>1. "Inbox" \in Principal
    BY DEF Principal, OwnShare
  <2> QED
    BY <1>1, <1>6, <2>1, AdmitTransition
<1>7. CASE ~Unavailable(r) /\ tx \in Custody(t) /\ Join(t, Changed(tables, t), m)
  <2>1. "relay" \in Op /\ "InCustody" \in Outcome
    BY DEF Op, Outcome
  <2>2. m \in MemberRecord /\ m.op = "relay" /\ m.item = tx /\ m.outcome = "InCustody"
    BY <1>1, <2>1, MemberFields
  <2>3. Table(t) /\ \A q \in Receivers : Moves(q, t, Changed(tables, t))
    BY RetiredTable, RetiredMoves
  <2>4. PICK q \in Receivers : t[q] # None /\ tx \in t[q].custody
    BY <1>7 DEF Custody
  <2>5. /\ StreamOK(tables[q], q) /\ StreamOK(t[q], q) /\ tables[q] # None
        /\ t[q].custody = {ty \in tables[q].custody : now < SpentAt(ty)}
    BY <1>2, <2>4, RetiredFacts DEF StreamsOK, Chain
  <2>6. q = r /\ ~Permits(t[q].window, tx) /\ SpentAt(tx) <= t[q].spentAt
    BY <2>4, <2>5, StreamFacts
  <2>7. \A s \in Senders : t[s] = tables[s]
    BY RetiredSenders
  <2> HIDE DEF t, m
  <2>8. Transition(t, Changed(tables, t), m)
    BY <1>1, <1>7, <2>2, <2>3, <2>7, ChangedDomain, HandedStays DEF Transition
  <2>9. ~Spent(tx) /\ Knows(t[r], tx) /\ ~Blocks(tables[r], tx) /\ disk[r] # Damaged
    <3>1. now < SpentAt(tx)
      BY <2>4, <2>5
    <3>2. ~Spent(tx)
      BY <1>2, <3>1 DEF Spent
    <3> QED
      BY <1>7, <2>4, <2>5, <2>6, <3>2 DEF Knows, Blocks, Unavailable
  <2>10. ASSUME NEW ty \in Tx PROVE Effect(t, m, ty)
    <3>1. ~Closes(m, ty) /\ ~Releases(m, ty) /\ ~Replays(m, ty)
      BY <2>2 DEF Closes, Releases, Replays
    <3>2. (Gives(m, ty) => ty = tx) /\ (Handover(m, ty) => ty = tx)
      BY <2>2 DEF Gives, Handover
    <3>3. Taken(tables[ty.stream], ty) => Taken(t[ty.stream], ty)
      BY RetiredTaken DEF t
    <3>4. Standing(tx) = "Unknown"
      BY <1>1 DEF Standing
    <3> QED
      BY <1>1, <2>9, <3>1, <3>2, <3>3, <3>4 DEF Effect, r
  <2> QED BY <2>8, <2>10
<1> QED BY <1>4, <1>5, <1>6, <1>7

LEMMA ReleaseTransition ==
    ASSUME StreamsOK, NEW tx \in Relayed, Release(tx)
    PROVE  \E t, records, m : Transition(t, records, m) /\ \A ty \in Tx : Effect(t, m, ty)
<1> DEFINE r == tx.stream
           held == tables[tx.stream] # None /\ tx \in tables[tx.stream].custody
           t == IF held THEN [tables EXCEPT ![tx.stream].custody = @ \ {tx}] ELSE tables
           m == Member("release", tx, "Ok", {})
<1>1. /\ tx \in Tx /\ handed[tx] = "Taken" /\ Join(t, Changed(tables, t), m)
      /\ handed' = [handed EXCEPT ![tx] = "Releasing"] /\ UNCHANGED pass
  BY DEF Release, Tx
<1>2. "release" \in Op /\ "Ok" \in Outcome /\ Table(tables) /\ handed \in [Relayed -> Place]
  BY DEF Op, Outcome, StreamsOK, SendersOK, Journal
<1>3. m \in MemberRecord /\ m.op = "release" /\ m.item = tx
  BY <1>1, <1>2, MemberFields
<1>4. r \in Receivers /\ r \in Key /\ r \notin Senders /\ Chain(r)
  BY <1>1, TxFacts, KeyAssumption DEF Key, StreamsOK
<1>5. /\ Table(t) /\ \A k \in Key \ {r} : t[k] = tables[k]
      /\ held => t[r] = [tables[r] EXCEPT !.custody = @ \ {tx}]
      /\ ~held => t[r] = tables[r]
  BY <1>2, <1>4 DEF Table
<1> HIDE DEF t, m
<1>6. ASSUME held
      PROVE  /\ StreamOK(t[r], r) /\ t[r] # None /\ Remembers(tables[r], t[r])
             /\ t[r].window = tables[r].window /\ t[r].spentAt = tables[r].spentAt
             /\ t[r].custody = tables[r].custody \ {tx}
  <2> DEFINE x == tables[r]
  <2>1. /\ x \in StreamType /\ x.spentAt \in Nat
        /\ \A ty \in x.custody : ty.stream = r /\ ~Permits(x.window, ty) /\ SpentAt(ty) <= x.spentAt
    BY <1>4, <1>6, StreamFacts DEF Chain
  <2>2. t[r] = [x EXCEPT !.custody = @ \ {tx}]
    BY <1>5, <1>6
  <2>3. /\ t[r] \in StreamType /\ t[r].window = x.window /\ t[r].spentAt = x.spentAt
        /\ t[r].custody = x.custody \ {tx}
    BY <2>1, <2>2 DEF StreamType
  <2>4. t[r] # None
    BY <2>3, RecordAssumption
  <2>5. StreamOK(t[r], r)
    BY <2>1, <2>3 DEF StreamOK
  <2>6. Remembers(x, t[r])
    BY <2>1, <2>3, <2>4 DEF Remembers
  <2> QED BY <2>3, <2>4, <2>5, <2>6
<1>7. ASSUME NEW q \in Receivers PROVE Moves(q, t, Changed(tables, t))
  <2>1. q \in Key /\ q \notin Senders /\ Chain(q)
    BY KeyAssumption DEF Key, StreamsOK
  <2>2. /\ q \in DOMAIN Changed(tables, t) <=> tables[q] # t[q]
        /\ q \in DOMAIN Changed(tables, t) => Changed(tables, t)[q] = t[q]
    BY <2>1 DEF Changed, Record
  <2>3. CASE t[q] = tables[q]
    BY <2>2, <2>3, StillMoves
  <2>4. CASE t[q] # tables[q]
    <3>1. q = r /\ held
      BY <1>5, <2>1, <2>4
    <3>2. disk[q] # Damaged
      BY <2>1, <3>1 DEF Chain
    <3> QED
      BY <1>6, <2>2, <3>1, <3>2 DEF Moves, Recorded
  <2> QED BY <2>3, <2>4
<1>8. Transition(t, Changed(tables, t), m)
  <2>1. handed' = [ty \in Relayed |-> IF Releases(m, ty) THEN "Releasing" ELSE handed[ty]]
    BY <1>1, <1>2, <1>3 DEF Releases
  <2> QED
    BY <1>1, <1>3, <1>4, <1>5, <1>7, <2>1, ChangedDomain DEF Transition, Key, PassGoesOn
<1>9. Knows(tables[r], tx) => Blocks(t[r], tx)
  <2>1. CASE held
    BY <1>6, <2>1 DEF Knows, Blocks
  <2>2. CASE ~held
    BY <1>5, <2>2 DEF Knows, Blocks
  <2> QED BY <2>1, <2>2
<1>10. ASSUME NEW ty \in Tx PROVE Effect(t, m, ty)
  <2>1. ~Gives(m, ty) /\ ~Handover(m, ty) /\ ~Replays(m, ty)
    BY <1>3 DEF Gives, Handover, Replays
  <2>2. CASE ty = tx
    <3>1. Standing(tx) = "Taken" /\ Releases(m, tx)
      BY <1>1, <1>3 DEF Standing, Releases
    <3> QED
      BY <1>1, <1>9, <2>1, <2>2, <3>1 DEF Effect, r
  <2>3. CASE ty # tx
    <3>1. ~Closes(m, ty) /\ ~Releases(m, ty)
      BY <1>3, <2>3 DEF Closes, Releases
    <3>2. Taken(tables[ty.stream], ty) => Taken(t[ty.stream], ty)
      <4>1. CASE ty.stream # r \/ ~held
        <5>1. t[ty.stream] = tables[ty.stream]
          BY <1>5, <4>1, TxFacts DEF Key
        <5> QED BY <5>1
      <4>2. CASE ty.stream = r /\ held
        BY <1>6, <2>3, <4>2 DEF Taken
      <4> QED BY <4>1, <4>2
    <3> QED
      BY <2>1, <3>1, <3>2 DEF Effect
  <2> QED BY <2>2, <2>3
<1> QED BY <1>8, <1>10

-----------------------------------------------------------------------------
(* The receivers' invariant is inductive.                                  *)

\* A pass that goes on to other elements is a pass, with what it was done with.
LEMMA PassKept ==
    ASSUME PassRecord(pass), PassGoesOn
    PROVE  /\ PassRecord(pass')
           /\ pass' # None => pass # None /\ pass'.done = pass.done
<1>1. CASE pass' = pass
  BY <1>1
<1>2. CASE pass # None /\ pass' = [pass EXCEPT !.left = pass'.left]
  <2>1. pass = [at |-> pass.at, left |-> pass.left, done |-> pass.done]
    BY <1>2 DEF PassRecord
  <2>2. pass' = [at |-> pass.at, left |-> pass'.left, done |-> pass.done]
    BY <1>2, <2>1
  <2> QED BY <1>2, <2>2 DEF PassRecord
<1> QED BY <1>1, <1>2 DEF PassGoesOn

LEMMA TransitionKeepsStreams ==
    ASSUME StreamsOK, SendersOK', NEW t, NEW records, NEW m, Transition(t, records, m)
    PROVE  StreamsOK'
<1>1. /\ tables' = t /\ open'.records = Over(records, open.records)
      /\ open'.members = Append(open.members, m)
      /\ flusher' = IF flusher = "idle" THEN "take" ELSE flusher
      /\ UNCHANGED <<now, disk, flight, before, taken>>
      /\ Base' = Base
  BY DEF Transition, Join, Staged, Base, Writing
<1>2. open'.members # <<>> /\ flusher' # "idle"
  <2>1. open.members \in Seq(MemberRecord) /\ m \in MemberRecord
    BY DEF StreamsOK, SendersOK, Transition
  <2> QED BY <1>1, <2>1
<1>3. handed' \in [Relayed -> Place]
      /\ DOMAIN open'.records \subseteq Key /\ DOMAIN flight'.records \subseteq Key
  BY <1>1 DEF Transition, StreamsOK, Place, Over
<1>6. PassRecord(pass')
  BY PassKept DEF Transition, StreamsOK
<1>4. ASSUME NEW r \in Receivers PROVE Chain(r)'
  <2>1. Chain(r) /\ Moves(r, t, records) /\ now \in Nat
    BY DEF StreamsOK, Transition
  <2>2. Remembers(Base[r], t[r])
    BY <2>1, RemembersTransitive DEF Chain, Moves
  <2>3. Recorded(open'.records, r, Base[r], t[r])
    BY <1>1, <2>1 DEF Chain, Moves, Recorded, Over
  <2>4. r \notin DOMAIN open.records /\ r \notin DOMAIN records => r \notin DOMAIN open'.records
    BY <1>1 DEF Over
  <2>5. flusher' = "durable" => flusher = "durable"
    BY <1>1
  <2> QED
    BY <1>1, <2>1, <2>2, <2>3, <2>4, <2>5 DEF Chain, Moves, StreamOK, Remembers, Recorded
<1>5. ASSUME NEW s \in Senders PROVE Bounded(s)'
  BY <1>1 DEF Transition, StreamsOK, Bounded, Leased
<1> QED
  BY <1>1, <1>2, <1>3, <1>4, <1>5, <1>6 DEF StreamsOK

LEMMA NothingRecorded ==
    ASSUME NEW r, NEW x
    PROVE  Recorded(NoBatch.records, r, x, x) /\ r \notin DOMAIN NoBatch.records
BY DEF Recorded, NoBatch, Empty

LEMMA TakeKeepsStreams == ASSUME StreamsOK, SendersOK', Take PROVE StreamsOK'
<1>1. UNCHANGED <<now, tables, disk, handed, pass, before>> /\ flusher = "take" /\ ~Writing
  BY DEF Take, Writing
<1>2. CASE open.members = <<>>
  <2>1. UNCHANGED <<open, flight, taken>> /\ flusher' = "idle" /\ Base' = Base
    BY <1>1, <1>2 DEF Take, Base, Writing
  <2>2. ASSUME NEW r \in Receivers PROVE Chain(r)'
    <3>1. Chain(r)
      BY DEF StreamsOK
    <3> QED
      BY <1>1, <2>1, <3>1 DEF Chain, StreamOK, Remembers, Recorded
  <2> QED
    BY <1>1, <1>2, <2>1, <2>2 DEF StreamsOK, Bounded, Leased
<1>3. CASE open.members # <<>>
  <2>1. /\ flight' = open /\ open' = NoBatch /\ taken' = tables /\ flusher' = "write"
        /\ Base = before /\ Base' = tables
    BY <1>1, <1>3 DEF Take, Base, Writing
  <2>2. ASSUME NEW r \in Receivers PROVE Chain(r)'
    <3>1. Chain(r)
      BY DEF StreamsOK
    <3>2. Remembers(tables[r], tables[r])
      BY <3>1, RemembersItself DEF Chain
    <3> QED
      BY <1>1, <2>1, <3>1, <3>2, NothingRecorded DEF Chain, StreamOK, Remembers, Recorded
  <2> QED
    BY <1>1, <2>1, <2>2 DEF StreamsOK, NoBatch, Empty, Bounded, Leased
<1> QED BY <1>2, <1>3

LEMMA WriteKeepsStreams == ASSUME StreamsOK, SendersOK', Write PROVE StreamsOK'
<1>1. /\ UNCHANGED <<now, open, flight, taken, tables, before, handed, pass>>
      /\ Base' = Base /\ flusher = "write" /\ flusher' # "idle"
  BY DEF Write, Writing, Base
<1>2. PICK landed \in SUBSET DOMAIN flight.records :
          /\ disk' = Over([k \in landed |-> flight.records[k]], disk)
          /\ flusher' = "durable" => landed = DOMAIN flight.records
  BY DEF Write, Over
<1>3. DOMAIN disk' = Key
  <2>1. DOMAIN disk' = Key \cup landed /\ DOMAIN disk = Key
    BY <1>2 DEF Over, StreamsOK
  <2>2. Senders \subseteq Key /\ Receivers \subseteq Key
    BY DEF Key
  <2>3. DOMAIN flight.records \subseteq Key
    BY DEF StreamsOK
  <2> QED BY <2>1, <2>3
<1>4. ASSUME NEW r \in Receivers PROVE Chain(r)'
  <2>1. Chain(r) /\ r \in DOMAIN disk /\ now \in Nat
    BY DEF StreamsOK, Key
  <2>2. disk'[r] = IF r \in landed THEN flight.records[r] ELSE disk[r]
    BY <1>2, <2>1 DEF Over
  <2>3. CASE r \in landed
    <3>1. disk'[r] = Base[r] /\ disk[r] # Damaged
      BY <2>1, <2>2, <2>3 DEF Chain, Recorded
    <3>2. disk'[r] # Damaged
      BY <2>1, <3>1, StreamFacts, NoneAssumption DEF Chain
    <3>3. Remembers(Base[r], Base[r])
      BY <2>1, RemembersItself DEF Chain
    <3> QED
      BY <1>1, <2>1, <3>1, <3>2, <3>3 DEF Chain, StreamOK, Remembers, Recorded
  <2>4. CASE r \notin landed
    <3>1. disk'[r] = disk[r]
      BY <2>2, <2>4
    <3>2. flusher' = "durable" => Base[r] = before[r]
      BY <1>2, <2>1, <2>4 DEF Chain, Recorded
    <3> QED
      BY <1>1, <2>1, <3>1, <3>2 DEF Chain, StreamOK, Remembers, Recorded
  <2> QED BY <2>3, <2>4
<1>5. ASSUME NEW s \in Senders PROVE Bounded(s)'
  <2>1. Bounded(s) /\ Apart(s) /\ s \in DOMAIN disk
    BY DEF StreamsOK, SendersOK, Key
  <2>2. disk'[s] = IF s \in landed THEN flight.records[s] ELSE disk[s]
    BY <1>2, <2>1 DEF Over
  <2>3. s \in landed => Base[s] # None /\ flight.records[s] = Base[s].leased
    BY <2>1 DEF Apart, Covers
  <2>4. disk'[s] \in Sequence \cup {None, Damaged}
    BY <2>1, <2>2, <2>3 DEF Bounded, Leased, LeaseType
  <2> QED
    BY <1>1, <2>1, <2>4 DEF Bounded, Leased
<1> QED
  BY <1>1, <1>3, <1>4, <1>5 DEF StreamsOK

\* What a pass is done with once a batch was written: what it was done with
\* before, what core refused, and what a refusal in the batch drops.
LEMMA PassedFacts ==
    ASSUME PassRecord(pass), pass # None, NEW refused
    PROVE  LET drops == {tx \in Relayed : Some(flight, LAMBDA m : Drops(m, tx))}
               next  == Passed(refused)
           IN  /\ PassRecord(next)
               /\ DOMAIN next.done = refused \cup drops \cup DOMAIN pass.done
               /\ \A tx \in DOMAIN next.done :
                      next.done[tx] = IF tx \in refused \cup drops
                                      THEN IF tx \notin refused
                                              /\ Some(flight, LAMBDA m : Drops(m, tx)
                                                                     /\ m.outcome = "Replay")
                                           THEN "Replay" ELSE "Refused"
                                      ELSE pass.done[tx]
<1> DEFINE drops   == {tx \in Relayed : Some(flight, LAMBDA m : Drops(m, tx))}
           why(tx) == IF tx \notin refused /\ Some(flight, LAMBDA m : Drops(m, tx)
                                                                  /\ m.outcome = "Replay")
                      THEN "Replay" ELSE "Refused"
           done    == Over([tx \in refused \cup drops |-> why(tx)], pass.done)
           left    == IF Some(flight, Stops) THEN {} ELSE pass.left
<1>1. pass = [at |-> pass.at, left |-> pass.left, done |-> pass.done]
  BY DEF PassRecord
<1>2. Passed(refused) = [pass EXCEPT !.done = done, !.left = left]
  BY DEF Passed
<1> HIDE DEF left
<1>3. /\ DOMAIN done = refused \cup drops \cup DOMAIN pass.done
      /\ \A tx \in DOMAIN done : done[tx] = IF tx \in refused \cup drops THEN why(tx) ELSE pass.done[tx]
  <2> HIDE DEF why, drops
  <2> QED BY DEF Over
<1> HIDE DEF done
<1>4. Passed(refused) = [at |-> pass.at, left |-> left, done |-> done]
  BY <1>1, <1>2
<1>5. PassRecord(Passed(refused)) /\ Passed(refused).done = done
  BY <1>4 DEF PassRecord
<1> HIDE DEF drops
<1>6. \A tx : tx \in DOMAIN done => done[tx] = IF tx \in refused \cup drops THEN why(tx) ELSE pass.done[tx]
  BY <1>3
<1> QED BY <1>3, <1>5, <1>6 DEF drops

LEMMA SettleDurableKeepsStreams == ASSUME StreamsOK, SendersOK', SettleDurable PROVE StreamsOK'
<1>1. /\ flusher = "durable" /\ flusher' = "take" /\ flight' = NoBatch /\ before' = taken
      /\ UNCHANGED <<now, tables, disk, open, taken>> /\ Base = taken /\ Base' = taken
  BY DEF SettleDurable, Writing, Base
<1>2. handed' \in [Relayed -> Place]
  <2>1. handed \in [Relayed -> Place]
    BY DEF StreamsOK
  <2>2. PICK refused : handed' = [tx \in Relayed |->
            IF tx \notin refused /\ Some(flight, LAMBDA m : Handover(m, tx)) THEN "Untaken"
            ELSE IF Some(flight, LAMBDA m : m.op = "release" /\ m.item = tx) THEN "Released"
            ELSE handed[tx]]
    BY DEF SettleDurable
  <2>3. {"Untaken", "Released"} \subseteq Place /\ \A tx \in Relayed : handed[tx] \in Place
    BY <2>1 DEF Place
  <2> HIDE DEF Place
  <2>4. \A tx \in Relayed : handed'[tx] \in Place
    BY <2>2, <2>3
  <2> QED BY <2>2, <2>4
<1>3. ASSUME NEW r \in Receivers PROVE Chain(r)'
  <2>1. Chain(r)
    BY DEF StreamsOK
  <2>2. Remembers(taken[r], taken[r])
    BY <1>1, <2>1, RemembersItself DEF Chain
  <2> QED
    BY <1>1, <2>1, <2>2, NothingRecorded DEF Chain, StreamOK, Remembers, Recorded
<1>4. ASSUME NEW s \in Senders PROVE Bounded(s)'
  BY <1>1 DEF StreamsOK, Bounded, Leased
<1>5. PassRecord(pass')
  <2>1. PICK refused : pass' = IF pass = None THEN None ELSE Passed(refused)
    BY DEF SettleDurable
  <2> QED
    BY <2>1, PassedFacts DEF StreamsOK, PassRecord
<1> QED
  BY <1>1, <1>2, <1>3, <1>4, <1>5, NothingRecorded DEF StreamsOK

LEMMA SettleFailedGoesOn == ASSUME StreamsOK, SettleFailed PROVE PassGoesOn
<1>1. CASE pass' = pass
  BY <1>1 DEF PassGoesOn
<1>2. CASE pass # None /\ pass' = [pass EXCEPT !.left = {}]
  <2>1. pass = [at |-> pass.at, left |-> pass.left, done |-> pass.done]
    BY <1>2 DEF StreamsOK, PassRecord
  <2>2. pass'.left = {}
    BY <1>2, <2>1
  <2> QED BY <1>2, <2>2 DEF PassGoesOn
<1> QED BY <1>1, <1>2 DEF SettleFailed

LEMMA SettleFailedKeepsStreams == ASSUME StreamsOK, SendersOK', SettleFailed PROVE StreamsOK'
<1>1. /\ flusher' = "take" /\ flight' = NoBatch /\ open' = NoBatch /\ tables' = before
      /\ UNCHANGED <<now, disk, before, taken>> /\ Base' = before
  BY DEF SettleFailed, StreamsOK, SendersOK, Journal, FailsClosed, Writing, Base
<1>2. handed' \in [Relayed -> Place]
  <2>1. handed \in [Relayed -> Place] /\ "Unreleased" \in Place
    BY DEF StreamsOK, Place
  <2> HIDE DEF Place
  <2> QED
    BY <2>1 DEF SettleFailed
<1>3. ASSUME NEW r \in Receivers PROVE Chain(r)'
  <2>1. Chain(r)
    BY DEF StreamsOK
  <2>2. Remembers(before[r], before[r])
    BY <2>1, RemembersItself DEF Chain
  <2> QED
    BY <1>1, <2>1, <2>2, NothingRecorded DEF Chain, StreamOK, Remembers, Recorded
<1>4. ASSUME NEW s \in Senders PROVE Bounded(s)'
  BY <1>1 DEF StreamsOK, Bounded, Leased
<1>5. PassRecord(pass')
  BY SettleFailedGoesOn, PassKept DEF StreamsOK
<1> QED
  BY <1>1, <1>2, <1>3, <1>4, <1>5, NothingRecorded DEF StreamsOK

LEMMA EmptySeq == ASSUME NEW S, NEW q \in Seq(S), DOMAIN q = {} PROVE q = <<>>
<1>1. Len(q) \in Nat /\ DOMAIN q = 1 .. Len(q)
  OBVIOUS
<1>2. Len(q) # 0 => 1 \in 1 .. Len(q)
  BY <1>1
<1>3. Len(q) = 0
  BY <1>1, <1>2
<1> QED BY <1>3

LEMMA CutPassKeepsStreams == ASSUME StreamsOK, SendersOK', CutPass PROVE StreamsOK'
<1>1. /\ UNCHANGED <<now, tables, disk, flusher, before, taken, handed>> /\ Base' = Base
      /\ open'.records = open.records /\ flight'.records = flight.records
      /\ open = NoBatch => open' = NoBatch
      /\ DOMAIN open'.members = DOMAIN open.members /\ PassRecord(pass')
  BY DEF CutPass, Unreplayed, Writing, Base, StreamsOK, SendersOK, Journal, Batch, NoBatch,
     PassRecord
<1>2. open'.members = <<>> => open.members = <<>>
  <2>1. open.members \in Seq(MemberRecord)
    BY DEF StreamsOK, SendersOK
  <2>2. DOMAIN <<>> = {}
    OBVIOUS
  <2>3. open'.members = <<>> => DOMAIN open.members = {}
    BY <1>1, <2>2
  <2> QED BY <2>1, <2>3, EmptySeq
<1>3. ASSUME NEW r \in Receivers PROVE Chain(r)'
  <2>1. Chain(r)
    BY DEF StreamsOK
  <2> QED
    BY <1>1, <2>1 DEF Chain, StreamOK, Remembers, Recorded
<1>4. ASSUME NEW s \in Senders PROVE Bounded(s)'
  BY <1>1 DEF StreamsOK, Bounded, Leased
<1> QED
  BY <1>1, <1>2, <1>3, <1>4 DEF StreamsOK

LEMMA CrashKeepsStreams == ASSUME StreamsOK, SendersOK', Crash PROVE StreamsOK'
<1>1. /\ tables' = Restore(disk') /\ before' = tables' /\ Base' = tables'
      /\ open' = NoBatch /\ flight' = NoBatch /\ flusher' = "idle" /\ UNCHANGED now
      /\ handed' = [tx \in Relayed |-> "Unknown"] /\ PassRecord(pass')
  BY DEF Crash, Writing, Base, PassRecord
<1>2. PICK lost \in SUBSET {k \in Key : disk[k] \notin {None, Damaged}} :
          disk' = [k \in Key |-> IF k \in lost THEN Damaged ELSE disk[k]]
  BY DEF Crash
<1>3. handed' \in [Relayed -> Place] /\ DOMAIN disk' = Key
  BY <1>1, <1>2 DEF Place
<1>4. ASSUME NEW r \in Receivers PROVE Chain(r)'
  <2>1. Chain(r) /\ r \in Key /\ r \notin Senders
    BY KeyAssumption DEF StreamsOK, Key
  <2>2. disk'[r] = Damaged \/ (disk'[r] = disk[r] /\ disk[r] # Damaged)
    BY <1>2, <2>1
  <2>3. tables'[r] = IF disk'[r] \in {None, Damaged} THEN None ELSE disk'[r]
    BY <1>1, <2>1 DEF Restore
  <2>4. CASE disk'[r] = Damaged
    <3>1. tables'[r] = None
      BY <2>3, <2>4
    <3> QED
      BY <1>1, <2>4, <3>1, NothingRecorded DEF Chain, StreamOK, Remembers, Recorded
  <2>5. CASE disk'[r] # Damaged
    <3>1. tables'[r] = disk[r] /\ disk'[r] = disk[r] /\ StreamOK(disk[r], r)
      BY <2>1, <2>2, <2>3, <2>5 DEF Chain
    <3>2. Remembers(disk[r], disk[r])
      BY <3>1, RemembersItself
    <3> QED
      BY <1>1, <2>5, <3>1, <3>2, NothingRecorded DEF Chain, StreamOK, Remembers, Recorded
  <2> QED BY <2>4, <2>5
<1>5. ASSUME NEW s \in Senders PROVE Bounded(s)'
  <2>1. Bounded(s) /\ s \in Key
    BY DEF StreamsOK, Key
  <2>2. disk'[s] \in Sequence \cup {None, Damaged}
    BY <1>2, <2>1 DEF Bounded
  <2>3. tables'[s] = IF disk'[s] \in {None, Damaged} THEN None
                     ELSE [issued |-> disk'[s], leased |-> disk'[s]]
    BY <1>1, <2>1 DEF Restore, Restored
  <2>4. Leased(tables'[s])
    BY <2>2, <2>3 DEF Leased, LeaseType
  <2> QED
    BY <1>1, <2>2, <2>4 DEF Bounded, Leased
<1> QED
  BY <1>1, <1>3, <1>4, <1>5, NothingRecorded DEF StreamsOK

\* Streams are only forgotten as time goes on, and only spent ones.
LEMMA TickKeepsStreams == ASSUME StreamsOK, SendersOK', Tick PROVE StreamsOK'
<1>1. /\ UNCHANGED <<tables, disk, open, flight, flusher, handed, pass, before, taken>>
      /\ Base' = Base /\ now' = now + 1 /\ now \in Nat
  BY DEF Tick, Writing, Base, StreamsOK
<1>2. ASSUME NEW r, NEW x, NEW y, StreamOK(x, r), Remembers(x, y) PROVE Remembers(x, y)'
  <2>1. x # None => x.spentAt \in Nat
    BY <1>2, StreamFacts
  <2>2. x # None /\ x.spentAt <= now => x.spentAt <= now'
    BY <1>1, <2>1
  <2> QED
    BY <1>2, <2>2 DEF Remembers
<1>3. ASSUME NEW r \in Receivers PROVE Chain(r)'
  <2>1. Chain(r)
    BY DEF StreamsOK
  <2>2. /\ Remembers(before[r], Base[r])' /\ Remembers(Base[r], tables[r])'
        /\ disk[r] # Damaged => Remembers(before[r], disk[r])'
        /\ disk[r] # Damaged /\ flusher = "durable" => Remembers(Base[r], disk[r])'
    BY <1>1, <1>2, <2>1 DEF Chain, Remembers
  <2> QED
    BY <1>1, <2>1, <2>2 DEF Chain, StreamOK, Recorded
<1>4. ASSUME NEW s \in Senders PROVE Bounded(s)'
  BY <1>1 DEF StreamsOK, Bounded, Leased
<1> QED
  BY <1>1, <1>3, <1>4 DEF StreamsOK

LEMMA StreamsInit == Init => StreamsOK
<1> SUFFICES ASSUME Init PROVE StreamsOK
  OBVIOUS
<1>1. /\ tables = [k \in Key |-> None] /\ before = tables /\ disk = [k \in Key |-> None]
      /\ open = NoBatch /\ flight = NoBatch /\ flusher = "idle" /\ Base = tables /\ now = 0
      /\ handed = [tx \in Relayed |-> "Unknown"] /\ PassRecord(pass)
  BY DEF Init, Writing, Base, PassRecord
<1>2. ASSUME NEW r \in Receivers PROVE Chain(r)
  <2>1. tables[r] = None /\ disk[r] = None
    BY <1>1 DEF Key
  <2> QED
    BY <1>1, <2>1, NoStream, NothingRecorded, NoneAssumption DEF Chain
<1>3. ASSUME NEW s \in Senders PROVE Bounded(s)
  BY <1>1 DEF Bounded, Leased, Key
<1>4. handed \in [Relayed -> Place]
  BY <1>1 DEF Place
<1> QED
  BY <1>1, <1>2, <1>3, <1>4, SendersInit, NothingRecorded DEF StreamsOK

\* A pass that finds an element taken and released.
LEMMA PolledFacts ==
    ASSUME PassRecord(pass), NEW tx, Poll(tx)
    PROVE  /\ PassRecord(pass') /\ pass # None
           /\ DOMAIN pass'.done = {tx} \cup DOMAIN pass.done
           /\ \A ty \in DOMAIN pass'.done :
                  pass'.done[ty] = IF ty = tx THEN "Consumed" ELSE pass.done[ty]
<1> DEFINE done == Over([k \in {tx} |-> "Consumed"], pass.done)
<1>1. pass # None /\ pass = [at |-> pass.at, left |-> pass.left, done |-> pass.done]
  BY DEF Poll, Visits, PassRecord
<1>2. pass' = [pass EXCEPT !.left = @ \ {tx}, !.done = Over([k \in {tx} |-> "Consumed"], @)]
  BY DEF Poll
<1>3. pass' = [at |-> pass.at, left |-> pass.left \ {tx}, done |-> done]
  BY <1>1, <1>2
<1>4. /\ DOMAIN done = {tx} \cup DOMAIN pass.done
      /\ \A ty \in DOMAIN done : done[ty] = IF ty = tx THEN "Consumed" ELSE pass.done[ty]
  BY DEF Over
<1> HIDE DEF done
<1>5. PassRecord(pass') /\ pass'.done = done
  BY <1>3 DEF PassRecord
<1> QED BY <1>1, <1>4, <1>5

\* Every step keeps the states of the streams in order.
LEMMA StreamsStep == StreamsOK /\ [Next]_vars => StreamsOK'
<1> SUFFICES ASSUME StreamsOK, [Next]_vars PROVE StreamsOK'
  OBVIOUS
<1>1. SendersOK'
  BY SendersStep DEF StreamsOK
<1>2. ASSUME NEW s \in Senders, NEW count \in Counts, Reserve(s, count) PROVE StreamsOK'
  BY <1>1, <1>2, ReserveTransition, TransitionKeepsStreams
<1>3. ASSUME NEW tx \in Live, NEW principal \in Introducer, Admit(tx, principal) PROVE StreamsOK'
  BY <1>1, <1>3, AdmitActionTransition, TransitionKeepsStreams
<1>4. ASSUME NEW tx \in Relayed, Offer(tx) \/ Release(tx) PROVE StreamsOK'
  BY <1>1, <1>4, OfferTransition, ReleaseTransition, TransitionKeepsStreams
<1>5. ASSUME UNCHANGED <<now, tables, disk, open, flight, flusher, before, taken>>,
             handed' \in [Relayed -> Place], PassRecord(pass')
      PROVE  StreamsOK'
  <2>1. Base' = Base
    BY <1>5 DEF Base, Writing
  <2>2. ASSUME NEW r \in Receivers PROVE Chain(r)'
    <3>1. Chain(r)
      BY DEF StreamsOK
    <3> QED
      BY <1>5, <2>1, <3>1 DEF Chain, StreamOK, Remembers, Recorded
  <2> QED
    BY <1>1, <1>5, <2>1, <2>2 DEF StreamsOK, Bounded, Leased
<1>6. ASSUME NEW tx \in Relayed, Hold(tx) \/ TakeMail(tx) \/ Discard(tx) PROVE StreamsOK'
  <2>1. UNCHANGED <<now, tables, disk, open, flight, flusher, before, taken, pass>>
    BY <1>6 DEF Hold, TakeMail, Discard, Unreplayed
  <2>2. handed' \in [Relayed -> Place]
    BY <1>6 DEF Hold, TakeMail, Discard, StreamsOK, Place
  <2> QED BY <1>5, <2>1, <2>2 DEF StreamsOK
<1>7. ASSUME NEW tx \in Relayed, Poll(tx) PROVE StreamsOK'
  <2>1. UNCHANGED <<now, tables, disk, open, flight, flusher, before, taken>>
    BY <1>7 DEF Poll, Unreplayed
  <2>2. handed' \in [Relayed -> Place]
    BY <1>7 DEF Poll, StreamsOK, Place
  <2>3. PassRecord(pass')
    BY <1>7, PolledFacts DEF StreamsOK
  <2> QED BY <1>5, <2>1, <2>2, <2>3
<1>8. CASE BeginPass \/ EndPass
  <2>1. UNCHANGED <<now, tables, disk, open, flight, flusher, before, taken>>
    BY <1>8 DEF BeginPass, EndPass, Unreplayed
  <2>2. handed' \in [Relayed -> Place]
    BY <1>8 DEF BeginPass, EndPass, StreamsOK, Place
  <2>3. PassRecord(pass')
    BY <1>8 DEF BeginPass, EndPass, PassRecord
  <2> QED BY <1>5, <2>1, <2>2, <2>3
<1>9. CASE UNCHANGED vars
  BY <1>5, <1>9 DEF vars, StreamsOK
<1>10. CASE CutPass \/ Take \/ Write \/ SettleDurable \/ SettleFailed \/ Crash \/ Tick
  BY <1>1, <1>10, CutPassKeepsStreams, TakeKeepsStreams, WriteKeepsStreams, TickKeepsStreams,
     SettleDurableKeepsStreams, SettleFailedKeepsStreams, CrashKeepsStreams
<1> QED
  BY <1>2, <1>3, <1>4, <1>6, <1>7, <1>8, <1>9, <1>10 DEF Next

LEMMA StreamsAlways == Spec => []StreamsOK
BY StreamsInit, StreamsStep, PTL DEF Spec

\* Tables and disk hold streams and leases at every moment, and no batch is
\* left with the flusher idle (Journal::join and take, SequenceState::is_valid):
\* what a restart finds always restores, unless it was damaged.
THEOREM TypeOKAlways == Spec => []TypeOK
<1>1. StreamsOK => TypeOK
  <2> SUFFICES ASSUME StreamsOK PROVE TypeOK
    OBVIOUS
  <2>1. \A k \in Senders : /\ tables[k] = None \/ tables[k] \in LeaseType
                           /\ disk[k] \in {None, Damaged} \/ disk[k] \in Sequence
    BY DEF StreamsOK, Bounded, Leased
  <2>2. \A k \in Receivers : /\ tables[k] = None \/ tables[k] \in StreamType
                             /\ disk[k] \in {None, Damaged} \/ disk[k] \in StreamType
    BY DEF StreamsOK, Chain, StreamOK
  <2>3. flusher \in {"idle", "take"} \/ Writing
    BY DEF StreamsOK, SendersOK, Journal
  <2>4. flusher \in {"idle", "take"} => flight = NoBatch
    BY DEF StreamsOK, SendersOK, Journal, Writing
  <2> QED
    BY <2>1, <2>2, <2>3, <2>4 DEF TypeOK, StreamsOK, Writing
<1> QED
  BY <1>1, StreamsAlways, PTL

\* A stream that is retired takes no undelivered mail with it
\* (Ledger::retire_spent), neither from the tables nor after a restart.
THEOREM CustodyOutlivedAlways == Spec => []CustodyOutlived
<1>1. StreamsOK => CustodyOutlived
  <2> SUFFICES ASSUME StreamsOK, NEW r \in Receivers, NEW t \in {tables, Restore(disk)}, t[r] # None,
                      NEW tx \in t[r].custody
               PROVE  /\ tx.stream = r /\ ~Permits(t[r].window, tx)
                      /\ SpentAt(tx) <= t[r].spentAt
    BY DEF CustodyOutlived
  <2>1. r \in Key /\ r \notin Senders /\ Chain(r)
    BY KeyAssumption DEF Key, StreamsOK
  <2>2. Restore(disk)[r] = IF disk[r] \in {None, Damaged} THEN None ELSE disk[r]
    BY <2>1 DEF Restore
  <2>3. StreamOK(t[r], r)
    BY <2>1, <2>2 DEF Chain
  <2> QED
    BY <2>3, StreamFacts
<1> QED
  BY <1>1, StreamsAlways, PTL

\* What the members of a settled batch rest on is on disk (memory below disk,
\* replay/commit.rs), whatever parts of failed batches landed there since.
THEOREM MemoryBelowDiskAlways == Spec => []MemoryBelowDisk
<1>1. StreamsOK => MemoryBelowDisk
  <2> SUFFICES ASSUME StreamsOK PROVE MemoryBelowDisk
    OBVIOUS
  <2>1. ASSUME NEW s \in Senders, before[s] # None
        PROVE  disk[s] # None /\ before[s].leased <= disk[s]
    <3>1. Apart(s)
      BY DEF StreamsOK, SendersOK
    <3> QED
      BY <2>1, <3>1, NoneAssumption DEF Apart, OnDisk
  <2>2. ASSUME NEW tx \in Tx, before[tx.stream] # None, now < before[tx.stream].spentAt,
               ~Permits(before[tx.stream].window, tx), disk[tx.stream] # Damaged
        PROVE  ~Permits(WindowOf(disk[tx.stream]), tx)
    <3>1. Chain(tx.stream) /\ now \in Nat
      BY TxFacts DEF StreamsOK
    <3>2. before[tx.stream].spentAt \in Nat
      BY <2>2, <3>1, StreamFacts DEF Chain
    <3>3. Remembers(before[tx.stream], disk[tx.stream]) /\ ~(before[tx.stream].spentAt <= now)
      BY <2>2, <3>1, <3>2 DEF Chain
    <3>4. disk[tx.stream] # None /\ ~Permits(disk[tx.stream].window, tx)
      BY <2>2, <3>3 DEF Remembers
    <3> QED
      BY <3>4 DEF WindowOf
  <2> QED
    BY <2>1, <2>2 DEF MemoryBelowDisk
<1> QED
  BY <1>1, StreamsAlways, PTL

-----------------------------------------------------------------------------
(* What the application gets.                                              *)

LEMMA ChainKnows ==
    ASSUME StreamsOK, NEW tx \in Tx
    PROVE  LET r == tx.stream
           IN  /\ Knows(before[r], tx) => Knows(Base[r], tx)
               /\ Knows(Base[r], tx) => Knows(tables[r], tx)
               /\ Blocks(before[r], tx) => Blocks(Base[r], tx)
               /\ Blocks(Base[r], tx) => Blocks(tables[r], tx)
               /\ disk[r] # Damaged /\ Blocks(before[r], tx) => Blocks(disk[r], tx)
<1>1. Chain(tx.stream) /\ now \in Nat
  BY TxFacts DEF StreamsOK
<1>2. /\ StreamOK(before[tx.stream], tx.stream) /\ StreamOK(Base[tx.stream], tx.stream)
      /\ StreamOK(tables[tx.stream], tx.stream)
      /\ Remembers(before[tx.stream], Base[tx.stream])
      /\ Remembers(Base[tx.stream], tables[tx.stream])
      /\ disk[tx.stream] # Damaged =>
             /\ StreamOK(disk[tx.stream], tx.stream)
             /\ Remembers(before[tx.stream], disk[tx.stream])
  BY <1>1 DEF Chain
<1> QED
  BY <1>1, <1>2, RemembersKnows

LEMMA BlocksKnows == ASSUME NEW x, NEW tx, Blocks(x, tx) PROVE Knows(x, tx)
BY DEF Blocks, Knows

LEMMA AppendFacts ==
    ASSUME NEW members \in Seq(MemberRecord), NEW m \in MemberRecord
    PROVE  LET all == Append(members, m)
           IN  /\ \A i \in DOMAIN members : i \in DOMAIN all /\ all[i] = members[i]
               /\ \A i \in DOMAIN all :
                      i \in DOMAIN members \/ (i = Len(members) + 1 /\ all[i] = m)
OBVIOUS

LEMMA SameRoles ==
    ASSUME NEW tx, NEW k
    PROVE  /\ Gives(k, tx)' = Gives(k, tx) /\ Closes(k, tx)' = Closes(k, tx)
           /\ Releases(k, tx)' = Releases(k, tx) /\ Handover(k, tx)' = Handover(k, tx)
BY DEF Gives, Closes, Releases, Handover

\* Members of a batch are counted one by one.
LEMMA CountMembers ==
    ASSUME NEW members \in Seq(MemberRecord), NEW W \in SUBSET DOMAIN members
    PROVE  /\ IsFiniteSet(W)
           /\ Cardinality(W) \in Nat /\ (Cardinality(W) > 0 <=> W # {})
           /\ (\A i, j \in W : i = j) => Cardinality(W) \in {0, 1}
<1>1. IsFiniteSet(W)
  <2>1. Len(members) \in Nat /\ DOMAIN members = 1 .. Len(members)
    OBVIOUS
  <2>2. IsFiniteSet(1 .. Len(members))
    BY <2>1, FS_Interval
  <2> QED
    BY <2>1, <2>2, FS_Subset
<1>2. Cardinality(W) \in Nat /\ (Cardinality(W) = 0 <=> W = {})
  BY <1>1, FS_CardinalityType, FS_EmptySet
<1>3. ASSUME \A i, j \in W : i = j, W # {} PROVE Cardinality(W) = 1
  <2>1. PICK i \in W : TRUE
    BY <1>3
  <2>2. W = {i}
    BY <1>3, <2>1
  <2> QED BY <2>2, FS_Singleton
<1> QED
  BY <1>1, <1>2, <1>3

LEMMA WaitingCount ==
    ASSUME NEW members \in Seq(MemberRecord), NEW tx
    PROVE  /\ Waiting(members, tx) \in Nat
           /\ (\A i \in DOMAIN members : ~Gives(members[i], tx)) => Waiting(members, tx) = 0
<1> DEFINE W == {i \in DOMAIN members : Gives(members[i], tx)}
<1>1. W \in SUBSET DOMAIN members /\ Waiting(members, tx) = Cardinality(W)
  BY DEF Waiting
<1>2. (\A i \in DOMAIN members : ~Gives(members[i], tx)) => W = {}
  OBVIOUS
<1> HIDE DEF W
<1> QED
  BY <1>1, <1>2, CountMembers

LEMMA WaitingAppend ==
    ASSUME NEW members \in Seq(MemberRecord), NEW m \in MemberRecord, NEW tx
    PROVE  Waiting(Append(members, m), tx)
               = Waiting(members, tx) + (IF Gives(m, tx) THEN 1 ELSE 0)
<1> DEFINE W == {i \in DOMAIN members : Gives(members[i], tx)}
           all == Append(members, m)
           n == Len(members) + 1
           V == {i \in DOMAIN all : Gives(all[i], tx)}
<1>1. W \in SUBSET DOMAIN members /\ Waiting(members, tx) = Cardinality(W)
  BY DEF Waiting
<1>2. Waiting(all, tx) = Cardinality(V)
  BY DEF Waiting
<1>3. /\ n \notin DOMAIN members /\ DOMAIN all = DOMAIN members \cup {n} /\ all[n] = m
      /\ \A i \in DOMAIN members : all[i] = members[i]
  OBVIOUS
<1> HIDE DEF n, all
<1>4. V = IF Gives(m, tx) THEN W \cup {n} ELSE W
  BY <1>3
<1>5. n \notin W
  BY <1>3
<1> HIDE DEF V, W
<1>6. IsFiniteSet(W) /\ Cardinality(W) \in Nat
  BY <1>1, CountMembers
<1>7. Cardinality(W \cup {n}) = Cardinality(W) + 1
  BY <1>5, <1>6, FS_AddElement
<1> QED
  BY <1>1, <1>2, <1>4, <1>6, <1>7 DEF all

LEMMA NothingPending ==
    ASSUME NEW x, NEW tx
    PROVE  /\ Pending(NoBatch.members, x, tx) /\ DOMAIN NoBatch.members = {}
           /\ Waiting(NoBatch.members, tx) = 0
<1>1. DOMAIN NoBatch.members = {} /\ NoBatch.members = <<>> /\ <<>> \in Seq(MemberRecord)
  BY DEF NoBatch
<1> QED
  BY <1>1, WaitingCount DEF Pending

\* The types of what is counted.
LEMMA DeliveryFacts ==
    ASSUME DeliveryOK, NEW tx \in Tx
    PROVE  /\ StreamsOK /\ tx.stream \in Receivers /\ now \in Nat /\ SpentAt(tx) \in Nat
           /\ open.members \in Seq(MemberRecord) /\ flight.members \in Seq(MemberRecord)
           /\ Waiting(flight.members, tx) \in Nat /\ Waiting(open.members, tx) \in Nat
           /\ delivered[tx] \in Nat /\ Forgiven(tx) \in Nat /\ late[tx] \in Nat
           /\ late[tx] > 0 => Spent(tx)
           /\ Orderly(tx) /\ Tally(tx) /\ (late[tx] = 0 => Counted(tx))
<1>1. Orderly(tx) /\ Tally(tx) /\ (late[tx] = 0 => Counted(tx)) /\ StreamsOK
  BY DEF DeliveryOK
<1>2. open.members \in Seq(MemberRecord) /\ flight.members \in Seq(MemberRecord) /\ now \in Nat
  BY <1>1 DEF StreamsOK, SendersOK
<1> QED
  BY <1>1, <1>2, TxFacts, WaitingCount DEF Orderly

\* A transition counts an admission as late exactly when the transaction is spent.
LEMMA LateTransition ==
    ASSUME DeliveryOK, NEW t, NEW records, NEW m, Transition(t, records, m)
    PROVE  /\ late' = [tx \in Tx |-> late'[tx]]
           /\ \A tx \in Tx : Effect(t, m, tx) =>
                  late'[tx] = late[tx] + (IF Gives(m, tx) /\ Spent(tx) THEN 1 ELSE 0)
<1>1. /\ late = [tx \in Tx |-> late[tx]]
      /\ late' = IF Overdue(m) THEN [late EXCEPT ![m.item] = @ + 1] ELSE late
  BY DEF DeliveryOK, Transition, Join
<1>2. late' = [tx \in Tx |-> late'[tx]]
  BY <1>1
<1>3. ASSUME NEW tx \in Tx, Effect(t, m, tx)
      PROVE  late'[tx] = late[tx] + (IF Gives(m, tx) /\ Spent(tx) THEN 1 ELSE 0)
  <2>1. late[tx] \in Nat
    BY <1>3, DeliveryFacts
  <2>2. Past(tx) <=> Spent(tx)
    BY DEF Past, Spent, SpentAt
  <2>3. Gives(m, tx) /\ Spent(tx) => m.outcome = "Ok"
    BY <1>3 DEF Effect
  <2>4. Gives(m, tx) /\ Spent(tx) <=> Overdue(m) /\ m.item = tx
    BY <2>2, <2>3 DEF Gives, Handover, Overdue
  <2>5. late'[tx] = IF Overdue(m) /\ m.item = tx THEN late[tx] + 1 ELSE late[tx]
    BY <1>1
  <2> QED BY <2>1, <2>4, <2>5
<1> QED BY <1>2, <1>3

\* A transition that gives what is not spent gives what nobody got or is getting.
LEMMA FreshGive ==
    ASSUME DeliveryOK, NEW t, NEW records, NEW m, Transition(t, records, m),
           NEW tx \in Tx, Effect(t, m, tx), Gives(m, tx), ~Spent(tx)
    PROVE  /\ Standing(tx) = "Unknown" /\ delivered[tx] <= Forgiven(tx)
           /\ Knows(t[tx.stream], tx)
           /\ \A i \in DOMAIN open.members : ~Gives(open.members[i], tx)
           /\ \A i \in DOMAIN flight.members : ~Gives(flight.members[i], tx)
<1> DEFINE r == tx.stream
<1>1. StreamsOK /\ late[tx] = 0 /\ delivered[tx] \in Nat /\ Forgiven(tx) \in Nat
  BY DeliveryFacts
<1>2. Counted(tx)
  BY <1>1, DeliveryFacts
<1>3. /\ Knows(before[r], tx) => Knows(Base[r], tx)
      /\ Knows(Base[r], tx) => Knows(tables[r], tx)
      /\ Blocks(before[r], tx) => Blocks(Base[r], tx)
      /\ Blocks(Base[r], tx) => Blocks(tables[r], tx)
  BY <1>1, ChainKnows
<1>4. /\ disk[r] # Damaged /\ ~Blocks(tables[r], tx) /\ Knows(t[r], tx)
      /\ ~Knows(tables[r], tx) \/ (Standing(tx) = "Unknown" /\ PassIdle)
  BY DEF Effect
<1>5. Standing(tx) = "Unknown"
  BY <1>2, <1>3, <1>4 DEF Counted
<1>6. delivered[tx] <= Forgiven(tx)
  <2>1. ~(delivered[tx] > Forgiven(tx))
    BY <1>2, <1>3, <1>4, <1>5 DEF Counted
  <2> QED BY <1>1, <2>1
<1>7. ASSUME NEW k, Gives(k, tx),
             \/ \E i \in DOMAIN open.members : open.members[i] = k
             \/ \E i \in DOMAIN flight.members : flight.members[i] = k
      PROVE  FALSE
  <2>1. Knows(tables[r], tx) /\ (Closes(k, tx) => Blocks(tables[r], tx))
    BY <1>2, <1>3, <1>7 DEF Counted, Pending
  <2>2. k.op # "relay"
    BY <1>4, <1>7, <2>1 DEF PassIdle
  <2>3. Closes(k, tx)
    BY <1>7, <2>2 DEF Gives, Closes, Handover
  <2> QED BY <1>4, <2>1, <2>3
<1> QED
  BY <1>4, <1>5, <1>6, <1>7

LEMMA TransitionStanding ==
    ASSUME NEW t, NEW records, NEW m, Transition(t, records, m), NEW tx \in Tx, Effect(t, m, tx)
    PROVE  /\ Standing(tx)' = IF Releases(m, tx) THEN "Releasing" ELSE Standing(tx)
           /\ Releases(m, tx) => Standing(tx) = "Taken"
           /\ Gives(m, tx) => ~Releases(m, tx)
<1>1. Releases(m, tx) => tx \in Relayed /\ Standing(tx) = "Taken"
  BY DEF Effect, Standing
<1> QED
  BY <1>1 DEF Standing, Transition, Gives, Releases, Handover

LEMMA TransitionOrderly ==
    ASSUME DeliveryOK, NEW t, NEW records, NEW m, Transition(t, records, m),
           NEW tx \in Tx, Effect(t, m, tx)
    PROVE  Orderly(tx)'
<1> DEFINE all == Append(open.members, m)
<1>1. /\ open'.members = all /\ UNCHANGED <<now, flight, delivered, excused>>
  BY DEF Transition, Join
<1>2. /\ m \in MemberRecord /\ open.members \in Seq(MemberRecord) /\ Orderly(tx)
      /\ delivered[tx] \in Nat /\ Forgiven(tx) \in Nat /\ late[tx] \in Nat
      /\ late[tx] > 0 => Spent(tx)
  BY DeliveryFacts DEF Transition
<1>3. \A i \in DOMAIN all : \/ i \in DOMAIN open.members /\ all[i] = open.members[i]
                            \/ all[i] = m
  BY <1>2, AppendFacts
<1>4. /\ Standing(tx)' = IF Releases(m, tx) THEN "Releasing" ELSE Standing(tx)
      /\ Releases(m, tx) => Standing(tx) = "Taken"
  BY TransitionStanding
<1>5. Handover(m, tx) => Standing(tx) = "Unknown" /\ PassIdle /\ ~Releases(m, tx)
  BY DEF Effect, Handover, Releases
<1>6. late'[tx] \in Nat /\ (late'[tx] > 0 => Spent(tx)')
  <2>1. late'[tx] = late[tx] + (IF Gives(m, tx) /\ Spent(tx) THEN 1 ELSE 0)
    BY LateTransition
  <2>2. Spent(tx)' = Spent(tx)
    BY <1>1 DEF Spent
  <2> QED BY <1>2, <2>1, <2>2
<1>7. Forgiven(tx)' = Forgiven(tx)
  BY <1>1 DEF Forgiven
<1>8. /\ \A i \in DOMAIN flight.members :
            /\ Releases(flight.members[i], tx) => Standing(tx) = "Releasing"
            /\ Handover(flight.members[i], tx) => Standing(tx) = "Unknown"
      /\ \A i \in DOMAIN open.members :
            /\ Releases(open.members[i], tx) => Standing(tx) = "Releasing"
            /\ Handover(open.members[i], tx) => Standing(tx) = "Unknown"
      /\ \A i \in DOMAIN flight.members, j \in DOMAIN open.members :
            /\ ~(Releases(flight.members[i], tx) /\ Releases(open.members[j], tx))
            /\ ~(Handover(flight.members[i], tx) /\ Handover(open.members[j], tx))
  BY <1>2 DEF Orderly
<1> HIDE DEF all
<1>9. \A i \in DOMAIN flight.members :
          /\ Releases(flight.members[i], tx) => Standing(tx)' = "Releasing"
          /\ Handover(flight.members[i], tx) => Standing(tx)' = "Unknown"
  BY <1>4, <1>8
<1>10. \A i \in DOMAIN all : /\ Releases(all[i], tx) => Standing(tx)' = "Releasing"
                             /\ Handover(all[i], tx) => Standing(tx)' = "Unknown"
  BY <1>3, <1>4, <1>5, <1>8
<1>11. \A i \in DOMAIN flight.members, j \in DOMAIN all :
           /\ ~(Releases(flight.members[i], tx) /\ Releases(all[j], tx))
           /\ ~(Handover(flight.members[i], tx) /\ Handover(all[j], tx))
  <2>1. \A i \in DOMAIN flight.members : /\ ~(Releases(flight.members[i], tx) /\ Releases(m, tx))
                                         /\ ~(Handover(flight.members[i], tx) /\ Handover(m, tx))
    BY <1>4, <1>5, <1>8 DEF PassIdle, Handover
  <2> QED BY <1>3, <1>8, <2>1
<1> QED
  BY <1>1, <1>2, <1>6, <1>7, <1>9, <1>10, <1>11, SameRoles DEF Orderly

LEMMA TransitionCounted ==
    ASSUME DeliveryOK, NEW t, NEW records, NEW m, Transition(t, records, m),
           NEW tx \in Tx, Effect(t, m, tx), late'[tx] = 0
    PROVE  Counted(tx)'
<1> DEFINE r == tx.stream
           members == open.members
           all == Append(open.members, m)
<1>1. /\ tables' = t /\ open'.members = all
      /\ UNCHANGED <<now, disk, flight, before, taken, delivered, excused>>
      /\ Base' = Base
  BY DEF Transition, Join, Base, Writing
<1>2. /\ m \in MemberRecord /\ open.members \in Seq(MemberRecord) /\ StreamsOK /\ r \in Receivers
      /\ late[tx] \in Nat
  BY DeliveryFacts DEF Transition
<1>3. late[tx] = 0 /\ (Gives(m, tx) => ~Spent(tx))
  <2>1. late'[tx] = late[tx] + (IF Gives(m, tx) /\ Spent(tx) THEN 1 ELSE 0)
    BY LateTransition
  <2> QED BY <1>2, <2>1
<1>4. Counted(tx)
  BY <1>3, DeliveryFacts
<1>5. /\ \A i \in DOMAIN members : i \in DOMAIN all /\ all[i] = members[i]
      /\ \A i \in DOMAIN all : i \in DOMAIN members \/ (i = Len(members) + 1 /\ all[i] = m)
  BY <1>2, AppendFacts
<1>6. /\ Knows(before[r], tx) => Knows(Base[r], tx)
      /\ Knows(Base[r], tx) => Knows(tables[r], tx)
  BY <1>2, ChainKnows
<1>7. /\ Knows(tables[r], tx) => Knows(t[r], tx)
      /\ Blocks(tables[r], tx) => Blocks(t[r], tx)
  <2>1. StreamOK(tables[r], r) /\ StreamOK(t[r], r) /\ Remembers(tables[r], t[r]) /\ now \in Nat
    BY <1>2 DEF Transition, Moves, StreamsOK, Chain
  <2> QED BY <2>1, RemembersKnows
<1>8. /\ Forgiven(tx)' = Forgiven(tx) /\ delivered'[tx] = delivered[tx]
      /\ \A x : Knows(x, tx)' = Knows(x, tx) /\ Blocks(x, tx)' = Blocks(x, tx)
      /\ \A k : Gives(k, tx)' = Gives(k, tx) /\ Closes(k, tx)' = Closes(k, tx)
  BY <1>1, SameRoles DEF Forgiven, Knows, Blocks, Spent
<1>9. /\ Standing(tx)' = IF Releases(m, tx) THEN "Releasing" ELSE Standing(tx)
      /\ Releases(m, tx) => Standing(tx) = "Taken"
      /\ Gives(m, tx) => ~Releases(m, tx)
  BY TransitionStanding
<1>10. Gives(m, tx) => /\ Standing(tx) = "Unknown" /\ delivered[tx] <= Forgiven(tx)
                       /\ Knows(t[r], tx)
                       /\ \A i \in DOMAIN members : ~Gives(members[i], tx)
                       /\ \A i \in DOMAIN flight.members : ~Gives(flight.members[i], tx)
  BY <1>3, FreshGive
<1>11. Closes(m, tx) => Blocks(t[r], tx)
  <2>1. Releases(m, tx) => Knows(tables[r], tx)
    BY <1>4, <1>6, <1>9 DEF Counted
  <2> QED BY <2>1 DEF Effect
<1> HIDE DEF members, all, r
<1>12. Pending(flight.members, Base[r], tx)'
  BY <1>1, <1>4, <1>8, <1>9 DEF Counted, Pending, r
<1>13. Pending(open.members, tables[r], tx)'
  <2>1. Pending(members, tables[r], tx)
    BY <1>4 DEF Counted, r, members
  <2>2. ASSUME NEW i \in DOMAIN all
        PROVE  /\ Gives(all[i], tx) => /\ Standing(tx)' = "Unknown"
                                       /\ delivered[tx] <= Forgiven(tx) /\ Knows(t[r], tx)
               /\ Closes(all[i], tx) => Blocks(t[r], tx)
    <3>1. CASE i \in DOMAIN members
      BY <1>5, <1>7, <1>9, <2>1, <3>1 DEF Pending
    <3>2. CASE all[i] = m
      BY <1>9, <1>10, <1>11, <3>2
    <3> QED BY <1>5, <3>1, <3>2
  <2>3. ASSUME NEW i \in DOMAIN all, NEW j \in DOMAIN all, Gives(all[i], tx), Gives(all[j], tx)
        PROVE  i = j
    <3>1. CASE i \in DOMAIN members /\ j \in DOMAIN members
      BY <1>5, <2>1, <2>3, <3>1 DEF Pending
    <3>2. CASE i \in DOMAIN members /\ all[j] = m
      BY <1>5, <1>10, <2>3, <3>2
    <3>3. CASE all[i] = m /\ j \in DOMAIN members
      BY <1>5, <1>10, <2>3, <3>3
    <3> QED BY <1>5, <3>1, <3>2, <3>3
  <2> QED
    BY <1>1, <1>8, <2>2, <2>3 DEF Pending, r, all
<1>14. ASSUME NEW i \in DOMAIN flight.members, NEW j \in DOMAIN all
       PROVE  ~(Gives(flight.members[i], tx) /\ Gives(all[j], tx))
  <2>1. CASE j \in DOMAIN members
    BY <1>4, <1>5, <2>1 DEF Counted, members
  <2>2. CASE all[j] = m
    BY <1>10, <2>2
  <2> QED BY <1>5, <2>1, <2>2
<1>15. Standing(tx)' # "Unknown" => Standing(tx) # "Unknown"
  BY <1>9
<1>16. Standing(tx)' \in {"Untaken", "Discarded", "Unknown", "Released", "Consumed"} =>
           Standing(tx)' = Standing(tx)
  BY <1>9
<1> QED
  BY <1>1, <1>4, <1>8, <1>12, <1>13, <1>14, <1>15, <1>16 DEF Counted, r, all

LEMMA TransitionTally ==
    ASSUME DeliveryOK, NEW t, NEW records, NEW m, Transition(t, records, m),
           NEW tx \in Tx, Effect(t, m, tx)
    PROVE  Tally(tx)'
<1>1. /\ open'.members = Append(open.members, m) /\ UNCHANGED <<flight, delivered, excused>>
  BY DEF Transition, Join
<1>2. /\ m \in MemberRecord /\ open.members \in Seq(MemberRecord)
      /\ Waiting(flight.members, tx) \in Nat /\ Waiting(open.members, tx) \in Nat
      /\ delivered[tx] \in Nat /\ Forgiven(tx) \in Nat /\ late[tx] \in Nat /\ Tally(tx)
      /\ flight.members \in Seq(MemberRecord)
  BY DeliveryFacts DEF Transition
<1>3. late'[tx] = late[tx] + (IF Gives(m, tx) /\ Spent(tx) THEN 1 ELSE 0)
  BY LateTransition
<1>4. Forgiven(tx)' = Forgiven(tx) /\ (Standing(tx)' = "Untaken" => Standing(tx) = "Untaken")
  BY <1>1, TransitionStanding DEF Forgiven
<1>5. /\ Waiting(open.members, tx)'
             = Waiting(open.members, tx) + (IF Gives(m, tx) THEN 1 ELSE 0)
      /\ Waiting(flight.members, tx)' = Waiting(flight.members, tx)
  BY <1>1, <1>2, WaitingAppend
<1>6. CASE Gives(m, tx) /\ ~Spent(tx)
  <2>1. /\ Standing(tx) = "Unknown" /\ delivered[tx] <= Forgiven(tx)
        /\ \A i \in DOMAIN open.members : ~Gives(open.members[i], tx)
        /\ \A i \in DOMAIN flight.members : ~Gives(flight.members[i], tx)
    BY <1>6, FreshGive
  <2>2. Waiting(open.members, tx) = 0 /\ Waiting(flight.members, tx) = 0
    BY <1>2, <2>1, WaitingCount
  <2>3. Standing(tx)' # "Untaken"
    BY <1>4, <2>1
  <2> QED
    BY <1>1, <1>2, <1>3, <1>4, <1>5, <1>6, <2>1, <2>2, <2>3 DEF Tally
<1>7. CASE ~(Gives(m, tx) /\ ~Spent(tx))
  BY <1>1, <1>2, <1>3, <1>4, <1>5, <1>7 DEF Tally
<1> QED BY <1>6, <1>7

LEMMA TransitionKeepsDelivery ==
    ASSUME DeliveryOK, StreamsOK', NEW t, NEW records, NEW m, Transition(t, records, m),
           \A tx \in Tx : Effect(t, m, tx)
    PROVE  DeliveryOK'
<1>1. UNCHANGED <<delivered, excused>> /\ late' = [tx \in Tx |-> late'[tx]]
  BY LateTransition DEF Transition, Join
<1> QED
  BY <1>1, TransitionOrderly, TransitionCounted, TransitionTally DEF DeliveryOK

LEMMA QuietKeepsDelivery ==
    ASSUME DeliveryOK, StreamsOK', Base' = Base,
           UNCHANGED <<tables, open, flight, before, handed, delivered, excused, late>>,
           \A tx \in Tx : disk[tx.stream] = Damaged => disk'[tx.stream] = Damaged,
           now' \in Nat /\ now <= now'
    PROVE  DeliveryOK'
<1>1. ASSUME NEW tx \in Tx PROVE Orderly(tx)' /\ (late'[tx] = 0 => Counted(tx)') /\ Tally(tx)'
  <2>1. /\ SpentAt(tx) \in Nat /\ now \in Nat
        /\ Orderly(tx) /\ Tally(tx) /\ (late[tx] = 0 => Counted(tx))
    BY DeliveryFacts
  <2>2. UNCHANGED <<delivered[tx], Forgiven(tx), Standing(tx), late[tx]>>
    BY DEF Forgiven, Standing
  <2>3. \A x : (Knows(x, tx) => Knows(x, tx)') /\ (Blocks(x, tx) => Blocks(x, tx)')
    BY <2>1 DEF Knows, Blocks, Spent
  <2>4. \A k : /\ Gives(k, tx)' = Gives(k, tx) /\ Closes(k, tx)' = Closes(k, tx)
               /\ Releases(k, tx)' = Releases(k, tx) /\ Handover(k, tx)' = Handover(k, tx)
    BY SameRoles
  <2>5. ASSUME Counted(tx) PROVE Counted(tx)'
    <3>1. /\ Pending(flight.members, Base[tx.stream], tx)'
          /\ Pending(open.members, tables[tx.stream], tx)'
      BY <2>2, <2>3, <2>4, <2>5 DEF Counted, Pending
    <3> QED
      BY <2>2, <2>3, <2>4, <2>5, <3>1 DEF Counted
  <2>6. Spent(tx) => Spent(tx)'
    BY <2>1 DEF Spent
  <2>7. Orderly(tx)'
    BY <2>1, <2>2, <2>4, <2>6 DEF Orderly
  <2>8. Tally(tx)'
    BY <2>1, <2>2 DEF Tally
  <2> QED BY <2>1, <2>2, <2>5, <2>7, <2>8
<1> QED
  BY <1>1 DEF DeliveryOK

\* Messages that are neither out of the carrier's reach nor on their way to be
\* released move on: no batch has anything to do with them.
LEMMA MailKeepsDelivery ==
    ASSUME DeliveryOK, StreamsOK',
           UNCHANGED <<now, tables, disk, open, flight, flusher, before, taken, excused, late>>,
           delivered' = [tx \in Tx |-> delivered'[tx]],
           \A tx \in Tx :
               \/ Standing(tx)' = Standing(tx) /\ delivered'[tx] = delivered[tx]
               \/ /\ Standing(tx) \notin {"Unknown", "Releasing"} /\ delivered'[tx] \in Nat
                  /\ delivered'[tx] + (IF Standing(tx)' = "Untaken" THEN 1 ELSE 0)
                         <= delivered[tx] + (IF Standing(tx) = "Untaken" THEN 1 ELSE 0)
                  /\ Counted(tx) =>
                        /\ delivered'[tx] <= Forgiven(tx) + 1
                        /\ Standing(tx)' \in {"Untaken", "Discarded"} =>
                              delivered'[tx] <= Forgiven(tx)
                        /\ /\ Standing(tx)' \in {"Unknown", "Released", "Consumed"}
                           /\ delivered'[tx] > Forgiven(tx)
                           => disk[tx.stream] = Damaged \/ Blocks(before[tx.stream], tx)
    PROVE  DeliveryOK'
<1>1. Base' = Base
  BY DEF Base, Writing
<1>2. ASSUME NEW tx \in Tx PROVE Orderly(tx)' /\ (late'[tx] = 0 => Counted(tx)') /\ Tally(tx)'
  <2>1. /\ Orderly(tx) /\ Tally(tx) /\ (late[tx] = 0 => Counted(tx))
        /\ Waiting(flight.members, tx) \in Nat /\ Waiting(open.members, tx) \in Nat
        /\ delivered[tx] \in Nat /\ Forgiven(tx) \in Nat /\ late[tx] \in Nat
    BY DeliveryFacts
  <2>2. /\ Forgiven(tx)' = Forgiven(tx) /\ late'[tx] = late[tx] /\ Spent(tx)' = Spent(tx)
        /\ \A x : (Knows(x, tx)' <=> Knows(x, tx)) /\ (Blocks(x, tx)' <=> Blocks(x, tx))
        /\ \A k : /\ Gives(k, tx)' = Gives(k, tx) /\ Closes(k, tx)' = Closes(k, tx)
                  /\ Releases(k, tx)' = Releases(k, tx) /\ Handover(k, tx)' = Handover(k, tx)
        /\ Waiting(flight.members, tx)' = Waiting(flight.members, tx)
        /\ Waiting(open.members, tx)' = Waiting(open.members, tx)
    BY SameRoles DEF Forgiven, Knows, Blocks, Spent
  <2>3. CASE Standing(tx)' = Standing(tx) /\ delivered'[tx] = delivered[tx]
    <3>1. Counted(tx) => /\ Pending(flight.members, Base[tx.stream], tx)'
                         /\ Pending(open.members, tables[tx.stream], tx)'
      BY <1>1, <2>2, <2>3 DEF Counted, Pending
    <3>2. Counted(tx) => Counted(tx)'
      BY <2>2, <2>3, <3>1 DEF Counted
    <3>3. Orderly(tx)'
      BY <2>1, <2>2, <2>3 DEF Orderly
    <3> QED
      BY <2>1, <2>2, <2>3, <3>2, <3>3 DEF Tally
  <2>4. CASE ~(Standing(tx)' = Standing(tx) /\ delivered'[tx] = delivered[tx])
    <3>1. /\ \A i \in DOMAIN flight.members : /\ ~Handover(flight.members[i], tx)
                                              /\ ~Releases(flight.members[i], tx)
          /\ \A i \in DOMAIN open.members : /\ ~Handover(open.members[i], tx)
                                            /\ ~Releases(open.members[i], tx)
      BY <2>1, <2>4 DEF Orderly
    <3>2. Orderly(tx)'
      BY <2>1, <2>2, <2>4, <3>1 DEF Orderly
    <3>3. Tally(tx)'
      BY <2>1, <2>2, <2>4 DEF Tally
    <3>4. ASSUME Counted(tx) PROVE Counted(tx)'
      <4>1. /\ \A i \in DOMAIN flight.members : ~Gives(flight.members[i], tx)
            /\ \A i \in DOMAIN open.members : ~Gives(open.members[i], tx)
        BY <2>4, <3>4 DEF Counted, Pending
      <4>2. Pending(flight.members, Base[tx.stream], tx)'
            /\ Pending(open.members, tables[tx.stream], tx)'
        BY <1>1, <2>2, <3>4, <4>1 DEF Counted, Pending
      <4>3. Knows(before[tx.stream], tx)
        BY <2>4, <3>4 DEF Counted
      <4> QED
        BY <2>1, <2>2, <2>4, <3>4, <4>1, <4>2, <4>3 DEF Counted
    <3> QED BY <2>1, <2>2, <3>2, <3>3, <3>4
  <2> QED BY <2>3, <2>4
<1> QED
  BY <1>2 DEF DeliveryOK

LEMMA TakeMailKeepsDelivery ==
    ASSUME DeliveryOK, StreamsOK', NEW tx \in Relayed, TakeMail(tx) PROVE DeliveryOK'
<1>1. /\ UNCHANGED <<now, tables, disk, open, flight, flusher, before, taken, excused, late>>
      /\ tx \in Tx /\ handed \in [Relayed -> Place]
      /\ delivered = [ty \in Tx |-> delivered[ty]]
  BY DEF TakeMail, Unreplayed, Tx, DeliveryOK, StreamsOK
<1>2. /\ Standing(tx) = "Untaken" /\ Standing(tx)' = "Taken"
      /\ \A ty \in Tx \ {tx} : Standing(ty)' = Standing(ty) /\ delivered'[ty] = delivered[ty]
      /\ delivered'[tx] = delivered[tx] + 1
      /\ delivered' = [ty \in Tx |-> delivered'[ty]]
  BY <1>1 DEF TakeMail, Standing
<1>3. delivered[tx] \in Nat /\ Forgiven(tx) \in Nat
  BY <1>1, DeliveryFacts
<1>4. Counted(tx) => delivered'[tx] <= Forgiven(tx) + 1
  BY <1>2, <1>3 DEF Counted
<1>5. /\ delivered'[tx] \in Nat
      /\ delivered'[tx] + (IF Standing(tx)' = "Untaken" THEN 1 ELSE 0)
             <= delivered[tx] + (IF Standing(tx) = "Untaken" THEN 1 ELSE 0)
  BY <1>2, <1>3
<1> QED
  BY <1>1, <1>2, <1>4, <1>5, MailKeepsDelivery

\* Mail that goes back where a pass offers it, or on to be retired, was blocked
\* before, or is spent.
LEMMA HandingKeepsDelivery ==
    ASSUME DeliveryOK, StreamsOK', BeginPass \/ \E tx \in Relayed : Discard(tx) \/ Poll(tx)
    PROVE  DeliveryOK'
<1>1. /\ UNCHANGED <<now, tables, disk, open, flight, flusher, before, taken, excused, late>>
      /\ UNCHANGED delivered /\ handed \in [Relayed -> Place]
      /\ delivered = [ty \in Tx |-> delivered[ty]]
  BY DEF BeginPass, Discard, Poll, Unreplayed, DeliveryOK, StreamsOK
<1>2. ASSUME NEW tx \in Tx, Standing(tx)' # Standing(tx)
      PROVE  \/ Standing(tx) = "Untaken" /\ Standing(tx)' = "Discarded"
             \/ /\ Standing(tx)' \in {"Unknown", "Consumed"}
                /\ \/ Standing(tx) \in {"Released", "Consumed"}
                   \/ Standing(tx) \in {"Discarded", "Unreleased"} /\ Spent(tx)
  <2>1. tx \in Relayed /\ Standing(tx) = handed[tx] /\ Standing(tx)' = handed'[tx]
    BY <1>2 DEF Standing
  <2>2. CASE BeginPass
    BY <1>2, <2>1, <2>2 DEF BeginPass, Forgotten, Spent
  <2>3. CASE \E ty \in Relayed : Discard(ty) \/ Poll(ty)
    BY <1>1, <1>2, <2>1, <2>3 DEF Discard, Poll
  <2> QED BY <2>2, <2>3
<1>3. ASSUME NEW tx \in Tx, Standing(tx)' # Standing(tx)
      PROVE  /\ Standing(tx) \notin {"Unknown", "Releasing"} /\ delivered'[tx] \in Nat
             /\ delivered'[tx] + (IF Standing(tx)' = "Untaken" THEN 1 ELSE 0)
                    <= delivered[tx] + (IF Standing(tx) = "Untaken" THEN 1 ELSE 0)
             /\ Counted(tx) =>
                   /\ delivered'[tx] <= Forgiven(tx) + 1
                   /\ Standing(tx)' \in {"Untaken", "Discarded"} => delivered'[tx] <= Forgiven(tx)
                   /\ /\ Standing(tx)' \in {"Unknown", "Released", "Consumed"}
                      /\ delivered'[tx] > Forgiven(tx)
                      => disk[tx.stream] = Damaged \/ Blocks(before[tx.stream], tx)
  <2>1. delivered[tx] \in Nat /\ Forgiven(tx) \in Nat
    BY DeliveryFacts
  <2>2. /\ Standing(tx) \notin {"Unknown", "Releasing"} /\ Standing(tx)' # "Untaken"
        /\ Standing(tx)' \in {"Untaken", "Discarded"} => Standing(tx) = "Untaken"
        /\ Standing(tx)' \in {"Unknown", "Released", "Consumed"} =>
              Standing(tx) \in {"Released", "Consumed"} \/ Spent(tx)
    BY <1>2, <1>3
  <2>3. Spent(tx) => Blocks(before[tx.stream], tx)
    BY DEF Blocks
  <2> QED
    BY <1>1, <2>1, <2>2, <2>3 DEF Counted
<1> QED
  BY <1>1, <1>3, MailKeepsDelivery

LEMMA WriteKeepsDelivery == ASSUME DeliveryOK, StreamsOK', Write PROVE DeliveryOK'
<1>1. /\ UNCHANGED <<now, open, flight, tables, before, handed, delivered, excused, late>>
      /\ Base' = Base
  BY DEF Write, Writing, Base
<1>2. PICK landed \in SUBSET DOMAIN flight.records :
          disk' = Over([k \in landed |-> flight.records[k]], disk)
  BY DEF Write, Over
<1>3. ASSUME NEW tx \in Tx, disk[tx.stream] = Damaged PROVE disk'[tx.stream] = Damaged
  <2>1. tx.stream \notin DOMAIN flight.records /\ tx.stream \in DOMAIN disk
    BY <1>3, TxFacts DEF DeliveryOK, StreamsOK, Chain, Key
  <2> QED
    BY <1>2, <1>3, <2>1 DEF Over
<1>4. now' \in Nat /\ now <= now'
  BY <1>1 DEF DeliveryOK, StreamsOK
<1> QED
  BY <1>1, <1>3, <1>4, QuietKeepsDelivery

LEMMA TakeKeepsDelivery == ASSUME DeliveryOK, StreamsOK', Take PROVE DeliveryOK'
<1>1. /\ UNCHANGED <<now, tables, disk, handed, delivered, excused, late, before>>
      /\ flusher = "take" /\ ~Writing /\ now' \in Nat /\ now <= now'
      /\ flight = NoBatch
  BY DEF Take, Writing, DeliveryOK, StreamsOK, SendersOK, Journal
<1>2. CASE open.members = <<>>
  <2>1. UNCHANGED <<open, flight>> /\ Base' = Base
    BY <1>1, <1>2 DEF Take, Base, Writing
  <2> QED
    BY <1>1, <2>1, QuietKeepsDelivery
<1>3. CASE open.members # <<>>
  <2>1. flight' = open /\ open' = NoBatch /\ Base' = tables
    BY <1>1, <1>3 DEF Take, Base, Writing
  <2>2. ASSUME NEW tx \in Tx PROVE Orderly(tx)' /\ (late'[tx] = 0 => Counted(tx)') /\ Tally(tx)'
    <3>1. /\ Orderly(tx) /\ Tally(tx) /\ (late[tx] = 0 => Counted(tx))
          /\ Waiting(open.members, tx) \in Nat
          /\ delivered[tx] \in Nat /\ Forgiven(tx) \in Nat /\ late[tx] \in Nat
      BY DeliveryFacts
    <3>2. /\ UNCHANGED <<delivered[tx], Forgiven(tx), Standing(tx), late[tx], Spent(tx)>>
          /\ \A x : Knows(x, tx)' = Knows(x, tx) /\ Blocks(x, tx)' = Blocks(x, tx)
          /\ \A k : /\ Gives(k, tx)' = Gives(k, tx) /\ Closes(k, tx)' = Closes(k, tx)
                    /\ Releases(k, tx)' = Releases(k, tx) /\ Handover(k, tx)' = Handover(k, tx)
      BY <1>1, SameRoles DEF Forgiven, Standing, Knows, Blocks, Spent
    <3>3. /\ Pending(open.members, tables[tx.stream], tx)' /\ DOMAIN open'.members = {}
          /\ Waiting(open'.members, tx) = 0 /\ Waiting(flight.members, tx) = 0
      BY <1>1, <2>1, NothingPending DEF Pending
    <3>4. ASSUME Counted(tx) PROVE Counted(tx)'
      <4>1. Pending(flight.members, Base[tx.stream], tx)'
        BY <1>1, <2>1, <3>2, <3>4 DEF Counted, Pending
      <4> QED
        BY <1>1, <3>2, <3>3, <3>4, <4>1 DEF Counted
    <3>5. Orderly(tx)'
      BY <2>1, <3>1, <3>2, <3>3 DEF Orderly
    <3>6. Tally(tx)'
      BY <2>1, <3>1, <3>2, <3>3 DEF Tally
    <3> QED BY <3>1, <3>2, <3>4, <3>5, <3>6
  <2> QED
    BY <1>1, <2>2 DEF DeliveryOK
<1> QED BY <1>2, <1>3

\* A pass that is cut gives nothing more to the application.
LEMMA CutPassKeepsDelivery == ASSUME DeliveryOK, StreamsOK', CutPass PROVE DeliveryOK'
<1> DEFINE leave(m) == IF m.op = "relay" THEN Unread ELSE m
           cut(members) == [i \in DOMAIN members |-> leave(members[i])]
<1>1. /\ UNCHANGED <<now, tables, disk, before, handed, delivered, excused, late>> /\ Base' = Base
      /\ open'.members = cut(open.members) /\ flight'.members = cut(flight.members)
  BY DEF CutPass, Unreplayed, Writing, Base, DeliveryOK, StreamsOK, SendersOK, Journal, Batch
<1>2. ASSUME NEW m, NEW tx
      PROVE  /\ Gives(leave(m), tx) => Gives(m, tx)
             /\ Closes(leave(m), tx) => Closes(m, tx)
             /\ Releases(leave(m), tx) => Releases(m, tx)
             /\ Handover(leave(m), tx) => Handover(m, tx)
  <2>1. Unread.op = "unread"
    BY UnreadIsRecord
  <2> QED
    BY <2>1 DEF Gives, Closes, Releases, Handover
<1>3. ASSUME NEW members
      PROVE  /\ DOMAIN cut(members) = DOMAIN members
             /\ \A i \in DOMAIN members : cut(members)[i] = leave(members[i])
  OBVIOUS
<1> HIDE DEF leave, cut
<1>4. ASSUME NEW members \in Seq(MemberRecord), NEW tx
      PROVE  Waiting(cut(members), tx) \in Nat /\ Waiting(cut(members), tx) <= Waiting(members, tx)
  <2> DEFINE W == {i \in DOMAIN members : Gives(members[i], tx)}
             V == {i \in DOMAIN cut(members) : Gives(cut(members)[i], tx)}
  <2>1. V \subseteq W /\ W \in SUBSET DOMAIN members
    BY <1>2, <1>3
  <2>2. Waiting(members, tx) = Cardinality(W) /\ Waiting(cut(members), tx) = Cardinality(V)
    BY DEF Waiting
  <2> HIDE DEF W, V
  <2>3. IsFiniteSet(W)
    BY <2>1, CountMembers
  <2>4. IsFiniteSet(V) /\ Cardinality(V) <= Cardinality(W)
    BY <2>1, <2>3, FS_Subset
  <2> QED
    BY <2>2, <2>4, FS_CardinalityType
<1>5. ASSUME NEW tx \in Tx PROVE Orderly(tx)' /\ (late'[tx] = 0 => Counted(tx)') /\ Tally(tx)'
  <2>1. /\ open.members \in Seq(MemberRecord) /\ flight.members \in Seq(MemberRecord)
        /\ Orderly(tx) /\ Tally(tx) /\ (late[tx] = 0 => Counted(tx))
        /\ Waiting(flight.members, tx) \in Nat /\ Waiting(open.members, tx) \in Nat
        /\ delivered[tx] \in Nat /\ Forgiven(tx) \in Nat /\ late[tx] \in Nat
    BY DeliveryFacts
  <2>2. /\ UNCHANGED <<delivered[tx], Forgiven(tx), Standing(tx), late[tx], Spent(tx)>>
        /\ \A x : Knows(x, tx)' = Knows(x, tx) /\ Blocks(x, tx)' = Blocks(x, tx)
        /\ \A k : /\ Gives(k, tx)' = Gives(k, tx) /\ Closes(k, tx)' = Closes(k, tx)
                  /\ Releases(k, tx)' = Releases(k, tx) /\ Handover(k, tx)' = Handover(k, tx)
    BY <1>1, SameRoles DEF Forgiven, Standing, Knows, Blocks, Spent
  <2>3. ASSUME NEW members \in Seq(MemberRecord), NEW x, Pending(members, x, tx)
        PROVE  Pending(cut(members), x, tx)
    BY <1>2, <1>3, <2>3 DEF Pending
  <2>4. ASSUME Counted(tx) PROVE Counted(tx)'
    <3>1. Pending(cut(flight.members), Base[tx.stream], tx)
          /\ Pending(cut(open.members), tables[tx.stream], tx)
      BY <2>1, <2>3, <2>4 DEF Counted
    <3>2. /\ Pending(flight.members, Base[tx.stream], tx)'
          /\ Pending(open.members, tables[tx.stream], tx)'
      BY <1>1, <2>2, <3>1 DEF Pending
    <3>3. ASSUME NEW i \in DOMAIN cut(flight.members), NEW j \in DOMAIN cut(open.members)
          PROVE  ~(Gives(cut(flight.members)[i], tx) /\ Gives(cut(open.members)[j], tx))
      BY <1>2, <1>3, <2>4 DEF Counted
    <3> QED
      BY <1>1, <2>2, <2>4, <3>2, <3>3 DEF Counted
  <2>5. Orderly(tx)'
    <3>1. /\ \A i \in DOMAIN cut(flight.members) :
                /\ Releases(cut(flight.members)[i], tx) => Standing(tx) = "Releasing"
                /\ Handover(cut(flight.members)[i], tx) => Standing(tx) = "Unknown"
          /\ \A i \in DOMAIN cut(open.members) :
                /\ Releases(cut(open.members)[i], tx) => Standing(tx) = "Releasing"
                /\ Handover(cut(open.members)[i], tx) => Standing(tx) = "Unknown"
      BY <1>2, <1>3, <2>1 DEF Orderly
    <3>2. ASSUME NEW i \in DOMAIN cut(flight.members), NEW j \in DOMAIN cut(open.members)
          PROVE  /\ ~(Releases(cut(flight.members)[i], tx) /\ Releases(cut(open.members)[j], tx))
                 /\ ~(Handover(cut(flight.members)[i], tx) /\ Handover(cut(open.members)[j], tx))
      BY <1>2, <1>3, <2>1 DEF Orderly
    <3> QED
      BY <1>1, <2>1, <2>2, <3>1, <3>2 DEF Orderly
  <2>6. Tally(tx)'
    <3>1. /\ Waiting(cut(flight.members), tx) \in Nat /\ Waiting(cut(open.members), tx) \in Nat
          /\ Waiting(cut(flight.members), tx) <= Waiting(flight.members, tx)
          /\ Waiting(cut(open.members), tx) <= Waiting(open.members, tx)
      BY <1>4, <2>1
    <3> QED
      BY <1>1, <2>1, <2>2, <3>1 DEF Tally
  <2> QED BY <2>1, <2>2, <2>4, <2>5, <2>6
<1> QED
  BY <1>1, <1>5 DEF DeliveryOK

LEMMA CrashKeepsDelivery == ASSUME DeliveryOK, StreamsOK', Crash PROVE DeliveryOK'
<1>1. /\ tables' = Restore(disk') /\ before' = tables' /\ open' = NoBatch /\ flight' = NoBatch
      /\ handed' = [tx \in Relayed |-> "Unknown"] /\ UNCHANGED <<now, delivered, late>>
      /\ excused' = [tx \in Relayed |->
             excused[tx] + IF handed[tx] \in {"Taken", "Releasing", "Unreleased"} THEN 1 ELSE 0]
  BY DEF Crash
<1>2. PICK lost \in SUBSET {k \in Key : disk[k] \notin {None, Damaged}} :
          disk' = [k \in Key |-> IF k \in lost THEN Damaged ELSE disk[k]]
  BY DEF Crash
<1>3. ASSUME NEW tx \in Tx PROVE Orderly(tx)' /\ (late'[tx] = 0 => Counted(tx)') /\ Tally(tx)'
  <2> DEFINE r == tx.stream
  <2>1. /\ StreamsOK /\ r \in Key /\ r \in Receivers /\ r \notin Senders
        /\ Orderly(tx) /\ Tally(tx) /\ (late[tx] = 0 => Counted(tx))
        /\ Waiting(flight.members, tx) \in Nat /\ Waiting(open.members, tx) \in Nat
        /\ delivered[tx] \in Nat /\ Forgiven(tx) \in Nat /\ late[tx] \in Nat
        /\ late[tx] > 0 => Spent(tx)
    BY DeliveryFacts, KeyAssumption DEF Key
  <2>2. \A x : Knows(x, tx)' = Knows(x, tx) /\ Blocks(x, tx)' = Blocks(x, tx)
    BY <1>1 DEF Knows, Blocks, Spent
  <2>3. /\ Standing(tx)' = "Unknown" /\ delivered'[tx] = delivered[tx] /\ late'[tx] = late[tx]
        /\ Forgiven(tx)' = Forgiven(tx)
               + (IF Standing(tx) \in {"Taken", "Releasing", "Unreleased"} THEN 1 ELSE 0)
    BY <1>1, <2>1 DEF Standing, Forgiven
  <2>4. /\ Pending(flight.members, Base[r], tx)' /\ Pending(open.members, tables[r], tx)'
        /\ DOMAIN flight'.members = {} /\ DOMAIN open'.members = {}
        /\ Waiting(flight'.members, tx) = 0 /\ Waiting(open'.members, tx) = 0
    BY <1>1, NothingPending DEF Pending
  <2>5. Forgiven(tx)' \in Nat /\ Forgiven(tx) <= Forgiven(tx)'
    BY <2>1, <2>3
  <2>6. ASSUME Counted(tx), delivered[tx] > Forgiven(tx)', disk'[r] # Damaged
        PROVE  Blocks(before'[r], tx)
    <3>1. delivered[tx] > Forgiven(tx) /\ Standing(tx) \notin {"Taken", "Releasing", "Unreleased"}
      BY <2>1, <2>3, <2>6 DEF Counted
    <3>2. disk[r] # Damaged /\ disk'[r] = disk[r]
      BY <1>2, <2>1, <2>6
    <3>3. Standing(tx) \in Place
      BY <2>1 DEF Standing, StreamsOK, Place
    <3>4. Standing(tx) \in {"Unknown", "Released", "Consumed"}
      BY <2>1, <2>3, <2>6, <3>1, <3>3 DEF Counted, Place
    <3>5. Blocks(before[r], tx)
      BY <2>6, <3>1, <3>2, <3>4 DEF Counted
    <3>6. Blocks(disk[r], tx)
      BY <2>1, <3>2, <3>5, ChainKnows
    <3>7. before'[r] = IF disk'[r] \in {None, Damaged} THEN None ELSE disk'[r]
      BY <1>1, <2>1 DEF Restore
    <3> QED
      BY <2>6, <3>2, <3>6, <3>7
  <2>7. ASSUME Counted(tx) PROVE Counted(tx)'
    <3>1. delivered[tx] <= Forgiven(tx)' + 1
      BY <2>1, <2>3, <2>7 DEF Counted
    <3> QED
      BY <1>1, <2>2, <2>3, <2>4, <2>6, <2>7, <3>1 DEF Counted
  <2>8. Orderly(tx)'
    BY <1>1, <2>1, <2>3, <2>4, <2>5 DEF Orderly, Spent
  <2>9. Tally(tx)'
    BY <1>1, <2>1, <2>3, <2>4, <2>5 DEF Tally
  <2> QED BY <2>1, <2>3, <2>7, <2>8, <2>9
<1> QED
  BY <1>1, <1>3 DEF DeliveryOK

\* The members of a written batch that are about tx, and what becomes of it.
LEMMA SettledMembers ==
    ASSUME DeliveryOK, SettleDurable, NEW tx \in Tx
    PROVE  \E adm, hov, rel \in SUBSET DOMAIN flight.members :
               /\ \A i \in DOMAIN flight.members :
                      /\ Gives(flight.members[i], tx) <=> i \in adm \cup hov
                      /\ Handover(flight.members[i], tx) <=> i \in hov
                      /\ Releases(flight.members[i], tx) <=> i \in rel
               /\ \A i \in adm \cup rel : Closes(flight.members[i], tx)
               /\ adm \cap hov = {} /\ Cardinality(adm) \in Nat
               /\ adm = {} => Cardinality(adm) = 0
               /\ (\A i, j \in adm : i = j) => Cardinality(adm) <= 1
               /\ Waiting(flight.members, tx) >= Cardinality(adm)
               /\ hov # {} => Waiting(flight.members, tx) >= Cardinality(adm) + 1
               /\ delivered'[tx] = delivered[tx] + Cardinality(adm)
               /\ \/ Standing(tx)' = "Untaken" /\ hov # {}
                  \/ Standing(tx)' = "Released" /\ rel # {}
                  \/ Standing(tx)' = Standing(tx) /\ (rel = {} \/ hov # {} \/ tx \notin Relayed)
<1> DEFINE adm == {i \in DOMAIN flight.members : flight.members[i].op = "admit"
                      /\ flight.members[i].item = tx /\ flight.members[i].outcome = "Ok"}
           hov == {i \in DOMAIN flight.members : Handover(flight.members[i], tx)}
           rel == {i \in DOMAIN flight.members :
                      flight.members[i].op = "release" /\ flight.members[i].item = tx}
           all == {i \in DOMAIN flight.members : Gives(flight.members[i], tx)}
<1>1. flight.members \in Seq(MemberRecord)
  BY DeliveryFacts
<1>2. /\ \A i \in DOMAIN flight.members :
             /\ Gives(flight.members[i], tx) <=> i \in adm \cup hov
             /\ Handover(flight.members[i], tx) <=> i \in hov
             /\ Releases(flight.members[i], tx) <=> i \in rel
      /\ \A i \in adm \cup rel : Closes(flight.members[i], tx)
      /\ adm \cap hov = {}
  BY DEF Gives, Closes, Releases, Handover
<1>3. all = adm \cup hov /\ Waiting(flight.members, tx) = Cardinality(all)
  BY DEF Waiting, Gives
<1>4. delivered'[tx] = delivered[tx] + Cardinality(adm)
  BY DEF SettleDurable, Members
<1>5. \/ Standing(tx)' = "Untaken" /\ Cardinality(hov) > 0
      \/ Standing(tx)' = "Released" /\ Cardinality(rel) > 0
      \/ /\ Standing(tx)' = Standing(tx)
         /\ ~(Cardinality(rel) > 0) \/ Cardinality(hov) > 0 \/ tx \notin Relayed
  BY DEF SettleDurable, Some, Members, Standing
<1>6. /\ adm \in SUBSET DOMAIN flight.members /\ hov \in SUBSET DOMAIN flight.members
      /\ rel \in SUBSET DOMAIN flight.members
  OBVIOUS
<1> HIDE DEF adm, hov, rel, all
<1>7. /\ Cardinality(adm) \in Nat /\ Cardinality(hov) \in Nat
      /\ IsFiniteSet(adm) /\ IsFiniteSet(hov)
      /\ (Cardinality(hov) > 0 <=> hov # {}) /\ (Cardinality(rel) > 0 <=> rel # {})
      /\ (Cardinality(adm) > 0 <=> adm # {})
      /\ (\A i, j \in adm : i = j) => Cardinality(adm) \in {0, 1}
  BY <1>1, <1>6, CountMembers
<1>8. Cardinality(all) = Cardinality(adm) + Cardinality(hov)
  <2>1. Cardinality(adm \cap hov) = 0
    BY <1>2, FS_EmptySet
  <2>2. Cardinality(adm \cup hov) = Cardinality(adm) + Cardinality(hov) - Cardinality(adm \cap hov)
    BY <1>7, FS_Union
  <2> QED BY <1>3, <1>7, <2>1, <2>2
<1>9. /\ Waiting(flight.members, tx) >= Cardinality(adm)
      /\ hov # {} => Waiting(flight.members, tx) >= Cardinality(adm) + 1
      /\ adm = {} => Cardinality(adm) = 0
      /\ (\A i, j \in adm : i = j) => Cardinality(adm) <= 1
  BY <1>3, <1>7, <1>8
<1>10. \/ Standing(tx)' = "Untaken" /\ hov # {}
       \/ Standing(tx)' = "Released" /\ rel # {}
       \/ Standing(tx)' = Standing(tx) /\ (rel = {} \/ hov # {} \/ tx \notin Relayed)
  BY <1>5, <1>7
<1> QED
  BY <1>2, <1>4, <1>6, <1>7, <1>9, <1>10

LEMMA SettleDurableKeepsDelivery == ASSUME DeliveryOK, StreamsOK', SettleDurable PROVE DeliveryOK'
<1>1. /\ flight' = NoBatch /\ before' = Base /\ Base' = Base
      /\ UNCHANGED <<now, tables, disk, open, excused, late>>
      /\ delivered' = [tx \in Tx |-> delivered'[tx]]
  BY DEF SettleDurable, Writing, Base
<1>2. ASSUME NEW tx \in Tx PROVE Orderly(tx)' /\ (late'[tx] = 0 => Counted(tx)') /\ Tally(tx)'
  <2> DEFINE r == tx.stream
  <2>1. /\ StreamsOK /\ flight.members \in Seq(MemberRecord)
        /\ Orderly(tx) /\ Tally(tx) /\ (late[tx] = 0 => Counted(tx))
        /\ Waiting(flight.members, tx) \in Nat /\ Waiting(open.members, tx) \in Nat
        /\ delivered[tx] \in Nat /\ Forgiven(tx) \in Nat /\ late[tx] \in Nat
    BY DeliveryFacts
  <2>2. PICK adm, hov, rel \in SUBSET DOMAIN flight.members :
            /\ \A i \in DOMAIN flight.members :
                   /\ Gives(flight.members[i], tx) <=> i \in adm \cup hov
                   /\ Handover(flight.members[i], tx) <=> i \in hov
                   /\ Releases(flight.members[i], tx) <=> i \in rel
            /\ \A i \in adm \cup rel : Closes(flight.members[i], tx)
            /\ adm \cap hov = {} /\ Cardinality(adm) \in Nat
            /\ adm = {} => Cardinality(adm) = 0
            /\ (\A i, j \in adm : i = j) => Cardinality(adm) <= 1
            /\ Waiting(flight.members, tx) >= Cardinality(adm)
            /\ hov # {} => Waiting(flight.members, tx) >= Cardinality(adm) + 1
            /\ delivered'[tx] = delivered[tx] + Cardinality(adm)
            /\ \/ Standing(tx)' = "Untaken" /\ hov # {}
               \/ Standing(tx)' = "Released" /\ rel # {}
               \/ Standing(tx)' = Standing(tx) /\ (rel = {} \/ hov # {} \/ tx \notin Relayed)
    BY SettledMembers
  <2>3. /\ Forgiven(tx)' = Forgiven(tx) /\ late'[tx] = late[tx] /\ Spent(tx)' = Spent(tx)
        /\ \A x : Knows(x, tx)' = Knows(x, tx) /\ Blocks(x, tx)' = Blocks(x, tx)
        /\ \A k : /\ Gives(k, tx)' = Gives(k, tx) /\ Closes(k, tx)' = Closes(k, tx)
                  /\ Releases(k, tx)' = Releases(k, tx) /\ Handover(k, tx)' = Handover(k, tx)
    BY <1>1, SameRoles DEF Forgiven, Knows, Blocks, Spent
  <2>4. /\ hov # {} => Standing(tx) = "Unknown" /\ rel = {}
        /\ rel # {} => Standing(tx) = "Releasing" /\ hov = {}
        /\ \A j \in DOMAIN open.members :
               /\ hov # {} => ~Handover(open.members[j], tx)
               /\ rel # {} => ~Releases(open.members[j], tx)
    BY <2>1, <2>2 DEF Orderly
  <2>5. /\ Pending(flight.members, Base[r], tx)' /\ DOMAIN flight'.members = {}
        /\ Waiting(flight'.members, tx) = 0
    BY <1>1, NothingPending DEF Pending
  <2>6. Orderly(tx)'
    <3>1. \A j \in DOMAIN open.members :
              /\ Releases(open.members[j], tx) => Standing(tx)' = "Releasing"
              /\ Handover(open.members[j], tx) => Standing(tx)' = "Unknown"
      BY <2>1, <2>2, <2>4 DEF Orderly
    <3>2. delivered'[tx] \in Nat
      BY <2>1, <2>2
    <3> QED
      BY <1>1, <2>1, <2>3, <2>5, <3>1, <3>2 DEF Orderly
  <2>7. Tally(tx)'
    <3>1. Standing(tx)' = "Untaken" => hov # {} \/ Standing(tx) = "Untaken"
      BY <2>2
    <3>2. hov # {} => Standing(tx) # "Untaken"
      BY <2>4
    <3>3. /\ Cardinality(adm) \in Nat /\ delivered'[tx] = delivered[tx] + Cardinality(adm)
          /\ Waiting(flight.members, tx) >= Cardinality(adm)
          /\ hov # {} => Waiting(flight.members, tx) >= Cardinality(adm) + 1
      BY <2>2
    <3>4. /\ Waiting(flight.members, tx)' = 0
          /\ Waiting(open.members, tx)' = Waiting(open.members, tx)
      BY <1>1, <2>5
    <3>5. CASE hov # {}
      BY <2>1, <2>3, <3>2, <3>3, <3>4, <3>5 DEF Tally
    <3>6. CASE hov = {}
      BY <2>1, <2>3, <3>1, <3>3, <3>4, <3>6 DEF Tally
    <3> QED BY <3>5, <3>6
  <2>8. ASSUME Counted(tx) PROVE Counted(tx)'
    <3>1. /\ Knows(before[r], tx) => Knows(Base[r], tx)
          /\ Blocks(before[r], tx) => Blocks(Base[r], tx)
          /\ Blocks(Base[r], tx) => Knows(Base[r], tx)
      BY <2>1, ChainKnows, BlocksKnows
    <3>2. Pending(open.members, tables[r], tx) /\ Pending(flight.members, Base[r], tx)
      BY <2>8 DEF Counted
    <3>3. \A i, j \in adm \cup hov : i = j
      BY <2>2, <3>2 DEF Pending
    <3>4. CASE adm # {}
      <4>1. /\ Standing(tx) = "Unknown" /\ delivered[tx] <= Forgiven(tx) /\ Blocks(Base[r], tx)
            /\ \A j \in DOMAIN open.members : ~Gives(open.members[j], tx)
        BY <2>2, <2>8, <3>2, <3>4 DEF Counted, Pending
      <4>2. hov = {} /\ rel = {}
        BY <2>2, <2>4, <3>3, <3>4, <4>1
      <4>3. Standing(tx)' = "Unknown"
        BY <2>2, <4>1, <4>2
      <4>4. delivered'[tx] <= Forgiven(tx) + 1
        BY <2>1, <2>2, <3>3, <4>1
      <4>5. Pending(open.members, tables[r], tx)'
        BY <1>1, <2>3, <3>2, <4>1, <4>3 DEF Pending
      <4> QED
        BY <1>1, <2>3, <2>5, <4>1, <4>3, <4>4, <4>5 DEF Counted
    <3>5. CASE adm = {}
      <4>1. delivered'[tx] = delivered[tx]
        BY <2>1, <2>2, <3>5
      <4>2. CASE Standing(tx)' = "Untaken" /\ hov # {}
        <5>1. /\ Standing(tx) = "Unknown" /\ delivered[tx] <= Forgiven(tx) /\ Knows(Base[r], tx)
              /\ \A j \in DOMAIN open.members : ~Gives(open.members[j], tx)
          BY <2>2, <2>8, <3>2, <4>2 DEF Counted, Pending
        <5>2. Pending(open.members, tables[r], tx)'
          BY <1>1, <2>3, <3>2, <5>1 DEF Pending
        <5>3. delivered[tx] <= Forgiven(tx) + 1
          BY <2>1, <5>1
        <5> QED
          BY <1>1, <2>3, <2>5, <4>1, <4>2, <5>1, <5>2, <5>3 DEF Counted
      <4>3. CASE Standing(tx)' = "Released" /\ rel # {}
        <5>1. /\ Standing(tx) = "Releasing" /\ Blocks(Base[r], tx)
              /\ \A j \in DOMAIN open.members : ~Gives(open.members[j], tx)
          BY <2>2, <2>4, <2>8, <3>2, <4>3 DEF Counted, Pending
        <5>2. Pending(open.members, tables[r], tx)'
          BY <1>1, <2>3, <3>2, <5>1 DEF Pending
        <5> QED
          BY <1>1, <2>3, <2>5, <2>8, <3>1, <4>1, <4>3, <5>1, <5>2 DEF Counted
      <4>4. CASE Standing(tx)' = Standing(tx)
        <5>1. Pending(open.members, tables[r], tx)'
          BY <1>1, <2>3, <3>2, <4>1, <4>4 DEF Pending
        <5> QED
          BY <1>1, <2>3, <2>5, <2>8, <3>1, <4>1, <4>4, <5>1 DEF Counted
      <4> QED BY <2>2, <4>2, <4>3, <4>4
    <3> QED BY <3>4, <3>5
  <2> QED BY <2>1, <2>3, <2>6, <2>7, <2>8
<1> QED
  BY <1>1, <1>2 DEF DeliveryOK

\* A release that waits for its batch is of mail that stands as being released.
LEMMA ReleasePending ==
    ASSUME DeliveryOK, NEW tx \in Relayed, NEW batch \in {open, flight},
           Cardinality({i \in DOMAIN batch.members :
               batch.members[i].op = "release" /\ batch.members[i].item = tx}) > 0
    PROVE  handed[tx] = "Releasing"
<1> DEFINE rel == {i \in DOMAIN batch.members :
                      batch.members[i].op = "release" /\ batch.members[i].item = tx}
<1>1. /\ batch.members \in Seq(MemberRecord) /\ rel \in SUBSET DOMAIN batch.members
      /\ tx \in Tx /\ Standing(tx) = handed[tx]
  BY DEF DeliveryOK, StreamsOK, SendersOK, Standing, Tx
<1>2. \A i \in rel : i \in DOMAIN batch.members /\ Releases(batch.members[i], tx)
  BY DEF Releases
<1>3. Cardinality(rel) > 0 /\ Orderly(tx)
  BY <1>1 DEF DeliveryOK
<1> HIDE DEF rel
<1>4. rel # {}
  BY <1>1, <1>3, CountMembers
<1> QED
  BY <1>1, <1>2, <1>3, <1>4 DEF Orderly

LEMMA SettleFailedKeepsDelivery == ASSUME DeliveryOK, StreamsOK', SettleFailed PROVE DeliveryOK'
<1>1. /\ flight' = NoBatch /\ open' = NoBatch /\ tables' = before
      /\ UNCHANGED <<now, disk, before, delivered, excused, late>>
  BY DEF SettleFailed, DeliveryOK, StreamsOK, SendersOK, Journal, FailsClosed
<1>2. \A tx \in Relayed : \/ handed'[tx] = handed[tx]
                          \/ /\ handed'[tx] = "Unreleased"
                             /\ \E batch \in {open, flight} : Cardinality({i \in DOMAIN batch.members :
                                    batch.members[i].op = "release" /\ batch.members[i].item = tx}) > 0
  BY DEF SettleFailed, Some, Members
<1>3. ASSUME NEW tx \in Tx PROVE Orderly(tx)' /\ (late'[tx] = 0 => Counted(tx)') /\ Tally(tx)'
  <2> DEFINE r == tx.stream
  <2>1. /\ Orderly(tx) /\ Tally(tx) /\ (late[tx] = 0 => Counted(tx))
        /\ Waiting(flight.members, tx) \in Nat /\ Waiting(open.members, tx) \in Nat
        /\ delivered[tx] \in Nat /\ Forgiven(tx) \in Nat /\ late[tx] \in Nat
    BY DeliveryFacts
  <2>2. Standing(tx)' = Standing(tx) \/ (Standing(tx)' = "Unreleased" /\ Standing(tx) = "Releasing")
    <3>1. CASE Standing(tx)' = Standing(tx)
      BY <3>1
    <3>2. CASE Standing(tx)' # Standing(tx)
      <4>1. tx \in Relayed /\ Standing(tx)' = handed'[tx] /\ Standing(tx) = handed[tx]
        BY <3>2 DEF Standing
      <4> QED
        BY <1>2, <3>2, <4>1, ReleasePending
    <3> QED BY <3>1, <3>2
  <2>3. /\ Forgiven(tx)' = Forgiven(tx) /\ delivered'[tx] = delivered[tx]
        /\ late'[tx] = late[tx] /\ Spent(tx)' = Spent(tx)
        /\ \A x : Knows(x, tx)' = Knows(x, tx) /\ Blocks(x, tx)' = Blocks(x, tx)
    BY <1>1 DEF Forgiven, Knows, Blocks, Spent
  <2>4. /\ Pending(flight.members, Base[r], tx)' /\ Pending(open.members, tables[r], tx)'
        /\ DOMAIN flight'.members = {} /\ DOMAIN open'.members = {}
        /\ Waiting(flight'.members, tx) = 0 /\ Waiting(open'.members, tx) = 0
    BY <1>1, NothingPending DEF Pending
  <2>5. Counted(tx) => Counted(tx)'
    BY <1>1, <2>2, <2>3, <2>4 DEF Counted
  <2>6. Orderly(tx)'
    BY <2>1, <2>3, <2>4 DEF Orderly
  <2>7. Tally(tx)'
    BY <2>1, <2>2, <2>3, <2>4 DEF Tally
  <2> QED BY <2>1, <2>3, <2>5, <2>6, <2>7
<1> QED
  BY <1>1, <1>3 DEF DeliveryOK

LEMMA DeliveryInit == Init => DeliveryOK
<1> SUFFICES ASSUME Init PROVE DeliveryOK
  OBVIOUS
<1>1. /\ open = NoBatch /\ flight = NoBatch /\ handed = [tx \in Relayed |-> "Unknown"]
      /\ delivered = [tx \in Tx |-> 0] /\ excused = [tx \in Relayed |-> 0]
      /\ late = [tx \in Tx |-> 0]
  BY DEF Init
<1>2. ASSUME NEW tx \in Tx PROVE Orderly(tx) /\ Counted(tx) /\ Tally(tx)
  <2>1. delivered[tx] = 0 /\ Forgiven(tx) = 0 /\ Standing(tx) = "Unknown" /\ late[tx] = 0
    BY <1>1 DEF Forgiven, Standing
  <2>2. /\ Pending(flight.members, Base[tx.stream], tx)
        /\ Pending(open.members, tables[tx.stream], tx)
        /\ DOMAIN flight.members = {} /\ DOMAIN open.members = {}
        /\ Waiting(flight.members, tx) = 0 /\ Waiting(open.members, tx) = 0
    BY <1>1, NothingPending
  <2> QED
    BY <2>1, <2>2 DEF Counted, Orderly, Tally
<1> QED
  BY <1>1, <1>2, StreamsInit DEF DeliveryOK

\* Every step keeps count of what the application got.
LEMMA DeliveryStep == DeliveryOK /\ [Next]_vars => DeliveryOK'
<1> SUFFICES ASSUME DeliveryOK, [Next]_vars PROVE DeliveryOK'
  OBVIOUS
<1>1. StreamsOK /\ StreamsOK'
  BY StreamsStep DEF DeliveryOK
<1>2. ASSUME \E t, records, m : Transition(t, records, m) /\ \A tx \in Tx : Effect(t, m, tx)
      PROVE  DeliveryOK'
  BY <1>1, <1>2, TransitionKeepsDelivery
<1>3. ASSUME NEW s \in Senders, NEW count \in Counts, Reserve(s, count) PROVE DeliveryOK'
  BY <1>1, <1>2, <1>3, ReserveTransition
<1>4. ASSUME NEW tx \in Live, NEW principal \in Introducer, Admit(tx, principal) PROVE DeliveryOK'
  BY <1>1, <1>2, <1>4, AdmitActionTransition
<1>5. ASSUME NEW tx \in Relayed, Offer(tx) \/ Release(tx) PROVE DeliveryOK'
  BY <1>1, <1>2, <1>5, OfferTransition, ReleaseTransition
<1>6. ASSUME UNCHANGED <<tables, disk, open, flight, flusher, before, taken, handed, delivered,
                         excused, late>>,
             now' = now \/ now' = now + 1
      PROVE  DeliveryOK'
  <2>1. Base' = Base /\ now' \in Nat /\ now <= now'
    BY <1>1, <1>6 DEF Base, Writing, StreamsOK
  <2> QED
    BY <1>1, <1>6, <2>1, QuietKeepsDelivery
<1>7. CASE Tick \/ UNCHANGED vars \/ EndPass \/ \E tx \in Relayed : Hold(tx)
  BY <1>6, <1>7 DEF Tick, vars, Hold, EndPass, Unreplayed
<1>8. ASSUME NEW tx \in Relayed, TakeMail(tx) PROVE DeliveryOK'
  BY <1>1, <1>8, TakeMailKeepsDelivery
<1>9. CASE BeginPass \/ \E tx \in Relayed : Discard(tx) \/ Poll(tx)
  BY <1>1, <1>9, HandingKeepsDelivery
<1>10. CASE CutPass \/ Take \/ Write \/ SettleDurable \/ SettleFailed \/ Crash
  BY <1>1, <1>10, CutPassKeepsDelivery, TakeKeepsDelivery, WriteKeepsDelivery,
     SettleDurableKeepsDelivery, SettleFailedKeepsDelivery, CrashKeepsDelivery
<1> QED
  BY <1>3, <1>4, <1>5, <1>7, <1>8, <1>9, <1>10 DEF Next

\* The application gets a transaction once, live or out of the relay inbox; once
\* more for a crash between its take and its release (the duplicate-window law
\* of replay/custody.rs), and once more for an admission that waited, after its
\* expiry was checked, past the clock tolerance.  It holds for any wait, window,
\* horizon and tolerance, any forks, reorderings and damaged records, any parts
\* of failed batches on disk, and however passes are cut.
THEOREM DeliveredOnceAlways == Spec => []DeliveredOnce
<1>1. DeliveryOK => DeliveredOnce
  <2> SUFFICES ASSUME DeliveryOK, NEW tx \in Tx
               PROVE  delivered[tx] <= 1 + (IF tx \in Relayed THEN excused[tx] ELSE 0) + late[tx]
    BY DEF DeliveredOnce
  <2>1. /\ Waiting(flight.members, tx) \in Nat /\ Waiting(open.members, tx) \in Nat
        /\ delivered[tx] \in Nat /\ Forgiven(tx) \in Nat /\ late[tx] \in Nat /\ Tally(tx)
    BY DeliveryFacts
  <2>2. delivered[tx] <= 1 + Forgiven(tx) + late[tx]
    BY <2>1 DEF Tally
  <2> QED BY <2>2 DEF Forgiven
<1> QED
  BY <1>1, DeliveryInit, DeliveryStep, PTL DEF Spec

-----------------------------------------------------------------------------
(* Mail of the relay inbox alone.                                          *)

LEMMA TransitionKeepsMail ==
    ASSUME StreamsOK, NEW t, NEW records, NEW m, Transition(t, records, m),
           NEW tx \in Relayed \ Live, Effect(t, m, tx), Kept(tx)
    PROVE  Kept(tx)'
<1>1. /\ tables' = t /\ open'.members = Append(open.members, m)
      /\ UNCHANGED <<now, disk, flight, before, taken, delivered>> /\ Base' = Base
  BY DEF Transition, Join, Base, Writing
<1>2. m \in MemberRecord /\ open.members \in Seq(MemberRecord)
  BY DEF Transition, StreamsOK, SendersOK
<1>3. /\ \A i \in DOMAIN Append(open.members, m) :
            \/ i \in DOMAIN open.members /\ Append(open.members, m)[i] = open.members[i]
            \/ Append(open.members, m)[i] = m
  BY <1>2, AppendFacts
<1>4. Settled(tx)' = Settled(tx)
  BY <1>1 DEF Settled, Spent
<1>5. /\ Taken(before[tx.stream], tx) /\ Taken(Base[tx.stream], tx) /\ Taken(tables[tx.stream], tx)
      /\ disk[tx.stream] # Damaged => Taken(disk[tx.stream], tx)
      /\ handed[tx] \in Gone => delivered[tx] > 0
      /\ \A i \in DOMAIN flight.members : Replays(flight.members[i], tx) => Settled(tx)
      /\ \A i \in DOMAIN open.members : Replays(open.members[i], tx) => Settled(tx)
      /\ pass # None /\ tx \in DOMAIN pass.done /\ pass.done[tx] # "Refused" => Settled(tx)
  BY DEF Kept
<1>6. Taken(t[tx.stream], tx)
  <2>1. handed[tx] = "Taken" => Settled(tx)
    BY <1>5 DEF Gone, Settled
  <2> QED
    BY <1>5, <2>1 DEF Effect, Taken
<1>7. Replays(m, tx) => Settled(tx)
  BY <1>5 DEF Effect, Taken, Settled
<1>8. handed'[tx] \in Gone => delivered'[tx] > 0
  <2>1. handed'[tx] = IF Releases(m, tx) THEN "Releasing" ELSE handed[tx]
    BY DEF Transition
  <2>2. Releases(m, tx) => handed[tx] = "Taken"
    BY DEF Effect, Standing
  <2> QED BY <1>1, <1>5, <2>1, <2>2 DEF Gone
<1>9. /\ \A i \in DOMAIN flight'.members : Replays(flight'.members[i], tx) => Settled(tx)
      /\ \A i \in DOMAIN open'.members : Replays(open'.members[i], tx) => Settled(tx)
  BY <1>1, <1>3, <1>5, <1>7
<1>10. /\ Taken(before[tx.stream], tx)' /\ Taken(Base[tx.stream], tx)'
       /\ Taken(tables[tx.stream], tx)'
       /\ disk'[tx.stream] # Damaged => Taken(disk[tx.stream], tx)'
  BY <1>1, <1>4, <1>5, <1>6 DEF Taken
<1>11. pass' # None => pass # None /\ pass'.done = pass.done
  BY PassKept DEF Transition, StreamsOK
<1> QED
  BY <1>1, <1>4, <1>5, <1>8, <1>9, <1>10, <1>11 DEF Kept, Replays

\* A state that the stream has already, or none.
Known(x, r) == x \in {None, before[r], Base[r], tables[r]} \/ (disk[r] # Damaged /\ x = disk[r])

\* Whatever else happens: the states of a stream are taken over from one
\* another, deliveries only add up, and only what was delivered is released.
LEMMA OtherKeepsMail ==
    ASSUME StreamsOK, StreamsOK', NEW tx \in Relayed \ Live, Kept(tx), now <= now',
           delivered[tx] > 0 => delivered'[tx] > 0,
           Known(before'[tx.stream], tx.stream), Known(Base'[tx.stream], tx.stream),
           Known(tables'[tx.stream], tx.stream),
           disk'[tx.stream] # Damaged => Known(disk'[tx.stream], tx.stream),
           handed'[tx] \in Gone => delivered'[tx] > 0,
           \A i \in DOMAIN flight'.members : Replays(flight'.members[i], tx) =>
               \/ \E j \in DOMAIN flight.members : Replays(flight.members[j], tx)
               \/ \E j \in DOMAIN open.members : Replays(open.members[j], tx),
           \A i \in DOMAIN open'.members : Replays(open'.members[i], tx) =>
               \E j \in DOMAIN open.members : Replays(open.members[j], tx),
           pass' # None /\ tx \in DOMAIN pass'.done /\ pass'.done[tx] # "Refused" => Settled(tx)
    PROVE  Kept(tx)'
<1>1. tx \in Tx /\ now \in Nat /\ now' \in Nat
  BY DEF Tx, StreamsOK
<1>2. SpentAt(tx) \in Nat
  BY <1>1, TxFacts
<1>3. /\ Taken(before[tx.stream], tx) /\ Taken(Base[tx.stream], tx) /\ Taken(tables[tx.stream], tx)
      /\ disk[tx.stream] # Damaged => Taken(disk[tx.stream], tx)
      /\ \A i \in DOMAIN flight.members : Replays(flight.members[i], tx) => Settled(tx)
      /\ \A i \in DOMAIN open.members : Replays(open.members[i], tx) => Settled(tx)
  BY DEF Kept
<1>4. /\ Taken(before'[tx.stream], tx) /\ Taken(Base'[tx.stream], tx) /\ Taken(tables'[tx.stream], tx)
      /\ disk'[tx.stream] # Damaged => Taken(disk'[tx.stream], tx)
  BY <1>3 DEF Taken, Known
<1>5. Settled(tx) => Settled(tx)'
  BY <1>1, <1>2 DEF Settled, Spent
<1>6. /\ Taken(before[tx.stream], tx)' /\ Taken(Base[tx.stream], tx)'
      /\ Taken(tables[tx.stream], tx)'
      /\ disk'[tx.stream] # Damaged => Taken(disk[tx.stream], tx)'
  BY <1>4, <1>5 DEF Taken
<1>7. /\ \A i \in DOMAIN flight'.members : Replays(flight'.members[i], tx) => Settled(tx)'
      /\ \A i \in DOMAIN open'.members : Replays(open'.members[i], tx) => Settled(tx)'
  BY <1>3, <1>5
<1> QED
  BY <1>5, <1>6, <1>7 DEF Kept, Replays

LEMMA SettleDurableKeepsMail ==
    ASSUME MailOK, StreamsOK', SettleDurable, NEW tx \in Relayed \ Live PROVE Kept(tx)'
<1>1. /\ flight' = NoBatch /\ before' = Base /\ Base' = Base
      /\ UNCHANGED <<now, tables, disk, open>>
  BY DEF SettleDurable, Writing, Base
<1>2. /\ delivered'[tx] = delivered[tx] + Cardinality({i \in DOMAIN flight.members :
            flight.members[i].op = "admit" /\ flight.members[i].item = tx
            /\ flight.members[i].outcome = "Ok"})
  BY DEF SettleDurable, Members, Tx
<1>3. \/ handed'[tx] \in {"Untaken", handed[tx]}
      \/ /\ handed'[tx] = "Released"
         /\ Cardinality({i \in DOMAIN flight.members :
                flight.members[i].op = "release" /\ flight.members[i].item = tx}) > 0
  BY DEF SettleDurable, Some, Members
<1>4. DeliveryOK /\ StreamsOK /\ Kept(tx) /\ tx \in Tx /\ now \in Nat
      /\ delivered[tx] \in Nat
  BY DeliveryFacts DEF MailOK, DeliveryOK, StreamsOK, Tx
<1>5. handed'[tx] \in Gone => delivered[tx] > 0
  <2>1. handed'[tx] \in {"Untaken", handed[tx]} \/ handed[tx] = "Releasing"
    BY <1>3, <1>4, ReleasePending
  <2> QED
    BY <1>4, <2>1 DEF Kept, Gone
<1>6. delivered[tx] > 0 => delivered'[tx] > 0
  <2> DEFINE adm == {i \in DOMAIN flight.members : flight.members[i].op = "admit"
                        /\ flight.members[i].item = tx /\ flight.members[i].outcome = "Ok"}
  <2>1. flight.members \in Seq(MemberRecord) /\ adm \in SUBSET DOMAIN flight.members
    BY <1>4 DEF StreamsOK, SendersOK
  <2>2. Cardinality(adm) \in Nat
    BY <2>1, CountMembers
  <2>3. delivered'[tx] = delivered[tx] + Cardinality(adm) /\ delivered[tx] \in Nat
    BY <1>2, <1>4
  <2> HIDE DEF adm
  <2> QED BY <2>2, <2>3
<1>7. DOMAIN flight'.members = {}
  BY <1>1 DEF NoBatch
<1>8. /\ Known(before'[tx.stream], tx.stream) /\ Known(Base'[tx.stream], tx.stream)
      /\ Known(tables'[tx.stream], tx.stream) /\ now <= now'
      /\ disk'[tx.stream] # Damaged => Known(disk'[tx.stream], tx.stream)
  BY <1>1, <1>4, <1>5, <1>6, <1>7 DEF Known
<1>9. pass' # None /\ tx \in DOMAIN pass'.done /\ pass'.done[tx] # "Refused" => Settled(tx)
  <2> SUFFICES ASSUME pass' # None, tx \in DOMAIN pass'.done, pass'.done[tx] # "Refused"
               PROVE  Settled(tx)
    OBVIOUS
  <2>1. PICK refused : pass' = IF pass = None THEN None ELSE Passed(refused)
    BY DEF SettleDurable
  <2> DEFINE drops == {ty \in Relayed : Some(flight, LAMBDA m : Drops(m, ty))}
             again == {i \in DOMAIN flight.members : Drops(flight.members[i], tx)
                                                    /\ flight.members[i].outcome = "Replay"}
  <2>2. pass # None /\ pass' = Passed(refused) /\ PassRecord(pass)
    BY <1>4, <2>1 DEF StreamsOK
  <2>3. /\ tx \in refused \cup drops \cup DOMAIN pass.done
        /\ pass'.done[tx] = IF tx \in refused \cup drops
                            THEN IF tx \notin refused /\ Cardinality(again) > 0
                                 THEN "Replay" ELSE "Refused"
                            ELSE pass.done[tx]
    BY <2>2, PassedFacts DEF Some, Members
  <2>4. again \in SUBSET DOMAIN flight.members /\ flight.members \in Seq(MemberRecord)
    BY <1>4 DEF StreamsOK, SendersOK
  <2>5. again # {} => Settled(tx)
    BY <1>4 DEF Kept, Drops, Replays
  <2> HIDE DEF drops, again
  <2>6. Cardinality(again) > 0 => again # {}
    BY <2>4, CountMembers
  <2>7. CASE tx \in refused \cup drops
    BY <2>3, <2>5, <2>6, <2>7
  <2>8. CASE tx \notin refused \cup drops
    BY <1>4, <2>2, <2>3, <2>8 DEF Kept
  <2> QED BY <2>7, <2>8
<1> QED
  BY <1>1, <1>4, <1>5, <1>6, <1>7, <1>8, <1>9, OtherKeepsMail

LEMMA SettleFailedKeepsMail ==
    ASSUME MailOK, StreamsOK', SettleFailed, NEW tx \in Relayed \ Live PROVE Kept(tx)'
<1>1. DeliveryOK /\ StreamsOK /\ Kept(tx) /\ now \in Nat
  BY DEF MailOK, DeliveryOK, StreamsOK
<1>2. /\ flight' = NoBatch /\ open' = NoBatch /\ tables' = before /\ Base' = before
      /\ UNCHANGED <<now, disk, before, delivered>>
  BY <1>1 DEF SettleFailed, StreamsOK, SendersOK, Journal, FailsClosed, Writing, Base
<1>3. \/ handed'[tx] = handed[tx]
      \/ \E batch \in {open, flight} : Cardinality({i \in DOMAIN batch.members :
             batch.members[i].op = "release" /\ batch.members[i].item = tx}) > 0
  BY DEF SettleFailed, Some, Members
<1>4. handed'[tx] = handed[tx] \/ handed[tx] = "Releasing"
  BY <1>1, <1>3, ReleasePending
<1>5. handed'[tx] \in Gone => delivered'[tx] > 0
  BY <1>1, <1>2, <1>4 DEF Kept, Gone
<1>6. DOMAIN flight'.members = {} /\ DOMAIN open'.members = {}
  BY <1>2 DEF NoBatch
<1>7. /\ Known(before'[tx.stream], tx.stream) /\ Known(Base'[tx.stream], tx.stream)
      /\ Known(tables'[tx.stream], tx.stream) /\ now <= now'
      /\ disk'[tx.stream] # Damaged => Known(disk'[tx.stream], tx.stream)
  BY <1>1, <1>2, <1>5, <1>6 DEF Known
<1>8. pass' # None => pass # None /\ pass'.done = pass.done
  BY <1>1, SettleFailedGoesOn, PassKept DEF StreamsOK
<1>9. pass' # None /\ tx \in DOMAIN pass'.done /\ pass'.done[tx] # "Refused" => Settled(tx)
  BY <1>1, <1>8 DEF Kept
<1> QED
  BY <1>1, <1>2, <1>5, <1>6, <1>7, <1>9, OtherKeepsMail

LEMMA CrashKeepsMail ==
    ASSUME MailOK, StreamsOK', Crash, NEW tx \in Relayed \ Live PROVE Kept(tx)'
<1>1. StreamsOK /\ Kept(tx) /\ now \in Nat /\ tx.stream \in Key /\ tx.stream \notin Senders
  BY TxFacts, KeyAssumption DEF MailOK, DeliveryOK, StreamsOK, Tx, Key
<1>2. /\ tables' = Restore(disk') /\ before' = tables' /\ Base' = tables'
      /\ open' = NoBatch /\ flight' = NoBatch /\ UNCHANGED <<now, delivered>>
      /\ handed'[tx] = "Unknown" /\ handed'[tx] \notin Gone /\ pass' = None
  BY DEF Crash, Writing, Base, Gone
<1>3. disk'[tx.stream] \in {Damaged, disk[tx.stream]}
  BY <1>1 DEF Crash
<1>4. disk[tx.stream] = Damaged => disk'[tx.stream] = Damaged
  BY <1>3
<1>5. tables'[tx.stream] = IF disk'[tx.stream] \in {None, Damaged} THEN None ELSE disk'[tx.stream]
  BY <1>1, <1>2 DEF Restore
<1>6. DOMAIN flight'.members = {} /\ DOMAIN open'.members = {}
  BY <1>2 DEF NoBatch
<1>7. /\ Known(before'[tx.stream], tx.stream) /\ Known(Base'[tx.stream], tx.stream)
      /\ Known(tables'[tx.stream], tx.stream) /\ now <= now'
      /\ disk'[tx.stream] # Damaged => Known(disk'[tx.stream], tx.stream)
  BY <1>1, <1>2, <1>3, <1>4, <1>5, <1>6 DEF Known
<1> QED
  BY <1>1, <1>2, <1>3, <1>4, <1>5, <1>6, <1>7, OtherKeepsMail

LEMMA WriteKeepsMail ==
    ASSUME MailOK, StreamsOK', Write, NEW tx \in Relayed \ Live PROVE Kept(tx)'
<1>1. StreamsOK /\ Kept(tx) /\ now \in Nat /\ Chain(tx.stream) /\ tx.stream \in DOMAIN disk
  BY TxFacts DEF MailOK, DeliveryOK, StreamsOK, Tx, Key
<1>2. UNCHANGED <<now, open, flight, tables, before, handed, pass, delivered>> /\ Base' = Base
  BY DEF Write, Writing, Base
<1>3. PICK landed \in SUBSET DOMAIN flight.records :
          disk' = Over([k \in landed |-> flight.records[k]], disk)
  BY DEF Write, Over
<1>4. disk'[tx.stream] = IF tx.stream \in landed THEN flight.records[tx.stream] ELSE disk[tx.stream]
  BY <1>1, <1>3 DEF Over
<1>5. disk'[tx.stream] \in {Base[tx.stream], disk[tx.stream]}
  BY <1>1, <1>4 DEF Chain, Recorded
<1>6. handed'[tx] \in Gone => delivered'[tx] > 0
  BY <1>1, <1>2 DEF Kept
<1>7. /\ Known(before'[tx.stream], tx.stream) /\ Known(Base'[tx.stream], tx.stream)
      /\ Known(tables'[tx.stream], tx.stream) /\ now <= now'
      /\ disk'[tx.stream] # Damaged => Known(disk'[tx.stream], tx.stream)
  BY <1>1, <1>2, <1>5, <1>6 DEF Known
<1>8. pass' # None /\ tx \in DOMAIN pass'.done /\ pass'.done[tx] # "Refused" => Settled(tx)
  BY <1>1, <1>2 DEF Kept
<1> QED
  BY <1>1, <1>2, <1>5, <1>6, <1>7, <1>8, OtherKeepsMail

LEMMA CutPassKeepsMail ==
    ASSUME MailOK, StreamsOK', CutPass, NEW tx \in Relayed \ Live PROVE Kept(tx)'
<1>1. /\ StreamsOK /\ Kept(tx) /\ now \in Nat
      /\ open.members \in Seq(MemberRecord) /\ flight.members \in Seq(MemberRecord)
  BY DEF MailOK, DeliveryOK, StreamsOK, SendersOK
<1> DEFINE leave(m) == IF m.op = "relay" THEN Unread ELSE m
           cut(members) == [i \in DOMAIN members |-> leave(members[i])]
<1>2. /\ UNCHANGED <<now, tables, disk, before, handed, delivered>> /\ Base' = Base /\ pass' = None
      /\ open'.members = cut(open.members) /\ flight'.members = cut(flight.members)
  BY <1>1 DEF CutPass, Unreplayed, Writing, Base, StreamsOK, SendersOK, Journal, Batch
<1>3. ASSUME NEW members \in Seq(MemberRecord), NEW i \in DOMAIN cut(members),
             Replays(cut(members)[i], tx)
      PROVE  i \in DOMAIN members /\ Replays(members[i], tx)
  <2>1. i \in DOMAIN members /\ cut(members)[i] = leave(members[i]) /\ Unread.op = "unread"
    BY UnreadIsRecord
  <2> QED BY <1>3, <2>1 DEF Replays
<1>4. handed'[tx] \in Gone => delivered'[tx] > 0
  BY <1>1, <1>2 DEF Kept
<1> HIDE DEF leave, cut
<1>5. /\ Known(before'[tx.stream], tx.stream) /\ Known(Base'[tx.stream], tx.stream)
      /\ Known(tables'[tx.stream], tx.stream) /\ now <= now'
      /\ disk'[tx.stream] # Damaged => Known(disk'[tx.stream], tx.stream)
  BY <1>1, <1>2, <1>3, <1>4 DEF Known
<1> QED
  BY <1>1, <1>2, <1>3, <1>4, <1>5, OtherKeepsMail

LEMMA TakeKeepsMail ==
    ASSUME MailOK, StreamsOK', Take, NEW tx \in Relayed \ Live PROVE Kept(tx)'
<1>1. StreamsOK /\ Kept(tx) /\ now \in Nat
  BY DEF MailOK, DeliveryOK, StreamsOK
<1>2. UNCHANGED <<now, tables, disk, before, handed, pass, delivered>> /\ Base = before
  BY DEF Take, Writing, Base
<1>3. \/ UNCHANGED <<open, flight>> /\ Base' = before
      \/ flight' = open /\ open' = NoBatch /\ Base' = tables
  BY DEF Take, Writing, Base
<1>4. handed'[tx] \in Gone => delivered'[tx] > 0
  BY <1>1, <1>2 DEF Kept
<1>5. DOMAIN NoBatch.members = {}
  BY DEF NoBatch
<1>6. /\ Known(before'[tx.stream], tx.stream) /\ Known(Base'[tx.stream], tx.stream)
      /\ Known(tables'[tx.stream], tx.stream) /\ now <= now'
      /\ disk'[tx.stream] # Damaged => Known(disk'[tx.stream], tx.stream)
  BY <1>1, <1>2, <1>3, <1>4, <1>5 DEF Known
<1>7. pass' # None /\ tx \in DOMAIN pass'.done /\ pass'.done[tx] # "Refused" => Settled(tx)
  BY <1>1, <1>2 DEF Kept
<1> QED
  BY <1>1, <1>2, <1>3, <1>4, <1>5, <1>6, <1>7, OtherKeepsMail

\* The pass, the application and the clock move mail on without touching a
\* stream; whoever takes it counts it as delivered.
LEMMA HandingKeepsMail ==
    ASSUME MailOK, StreamsOK', NEW tx \in Relayed \ Live,
           \/ \E ty \in Relayed : Hold(ty) \/ TakeMail(ty) \/ Discard(ty) \/ Poll(ty)
           \/ BeginPass \/ EndPass \/ Tick \/ UNCHANGED vars
    PROVE  Kept(tx)'
<1>1. /\ StreamsOK /\ Kept(tx) /\ now \in Nat /\ tx \in Tx /\ tx \in Relayed
      /\ handed \in [Relayed -> Place] /\ delivered = [t \in Tx |-> delivered[t]]
      /\ delivered[tx] \in Nat /\ PassRecord(pass)
  BY DeliveryFacts DEF MailOK, DeliveryOK, StreamsOK, Tx
<1>2. /\ UNCHANGED <<tables, disk, open, flight, flusher, before, taken>>
      /\ now' \in {now, now + 1} /\ now <= now'
  <2>1. ASSUME NEW ty \in Relayed, Hold(ty) \/ TakeMail(ty) \/ Discard(ty) \/ Poll(ty)
        PROVE  UNCHANGED <<now, tables, disk, open, flight, flusher, before, taken>>
    BY <2>1 DEF Hold, TakeMail, Discard, Poll, Unreplayed
  <2>2. CASE BeginPass \/ EndPass
    BY <1>1, <2>2 DEF BeginPass, EndPass, Unreplayed
  <2>3. CASE Tick \/ UNCHANGED vars
    BY <1>1, <2>3 DEF Tick, vars
  <2> QED BY <1>1, <2>1, <2>2, <2>3
<1>3. Base' = Base
  BY <1>2 DEF Base, Writing
<1>4. /\ delivered'[tx] = delivered[tx] \/ delivered'[tx] = delivered[tx] + 1
      /\ \/ handed'[tx] \in {handed[tx], "Unknown", "Discarded"}
         \/ handed'[tx] = "Consumed" /\ handed[tx] \in {"Released", "Consumed"}
         \/ handed'[tx] = "Taken" /\ delivered'[tx] = delivered[tx] + 1
  BY <1>1 DEF Hold, TakeMail, Discard, Poll, BeginPass, EndPass, Tick, Unreplayed, vars
<1>5. delivered[tx] > 0 => delivered'[tx] > 0
  BY <1>1, <1>4
<1>6. handed[tx] \in Gone => delivered[tx] > 0
  BY <1>1 DEF Kept
<1>7. handed'[tx] \in Gone => delivered'[tx] > 0
  BY <1>1, <1>4, <1>5, <1>6 DEF Gone
<1>8. pass' # None /\ tx \in DOMAIN pass'.done /\ pass'.done[tx] # "Refused" => Settled(tx)
  <2>1. CASE pass' = pass
    BY <1>1, <2>1 DEF Kept
  <2>2. CASE BeginPass
    <3>1. PICK report : pass' = [at |-> now, left |-> report, done |-> Empty]
      BY <2>2 DEF BeginPass
    <3>2. DOMAIN pass'.done = {}
      BY <3>1 DEF Empty
    <3> QED BY <3>2
  <2>3. ASSUME NEW ty \in Relayed, Poll(ty)
        PROVE  tx \in DOMAIN pass'.done /\ pass'.done[tx] # "Refused" => Settled(tx)
    <3>1. /\ pass # None /\ DOMAIN pass'.done = {ty} \cup DOMAIN pass.done
          /\ \A tz \in DOMAIN pass'.done :
                 pass'.done[tz] = IF tz = ty THEN "Consumed" ELSE pass.done[tz]
      BY <1>1, <2>3, PolledFacts
    <3>2. handed[ty] \in Gone
      BY <2>3 DEF Poll, Gone
    <3>3. CASE tx = ty
      BY <1>6, <3>2, <3>3 DEF Settled
    <3>4. CASE tx # ty
      BY <1>1, <3>1, <3>4 DEF Kept
    <3> QED BY <3>3, <3>4
  <2>4. CASE EndPass
    BY <2>4 DEF EndPass
  <2> QED
    BY <2>1, <2>2, <2>3, <2>4 DEF Hold, TakeMail, Discard, Tick, vars
<1>9. /\ Known(before'[tx.stream], tx.stream) /\ Known(Base'[tx.stream], tx.stream)
      /\ Known(tables'[tx.stream], tx.stream) /\ now <= now'
      /\ disk'[tx.stream] # Damaged => Known(disk'[tx.stream], tx.stream)
  BY <1>1, <1>2, <1>3 DEF Known
<1> QED
  BY <1>1, <1>2, <1>3, <1>5, <1>7, <1>8, <1>9, OtherKeepsMail

LEMMA MailInit == Init => MailOK
<1> SUFFICES ASSUME Init, NEW tx \in Relayed \ Live PROVE Kept(tx)
  BY DeliveryInit DEF MailOK
<1>1. /\ tables = [k \in Key |-> None] /\ before = tables /\ disk = [k \in Key |-> None]
      /\ open = NoBatch /\ flight = NoBatch /\ Base = tables /\ pass = None
      /\ handed[tx] \notin Gone
  BY DEF Init, Writing, Base, Gone
<1>2. tx.stream \in Key
  BY TxFacts DEF Tx, Key
<1>3. tables[tx.stream] = None /\ before[tx.stream] = None /\ Base[tx.stream] = None
      /\ disk[tx.stream] = None /\ DOMAIN flight.members = {} /\ DOMAIN open.members = {}
  BY <1>1, <1>2 DEF NoBatch
<1> QED
  BY <1>1, <1>3 DEF Kept, Taken

\* Every step keeps mail that was not taken in the custody of its stream.
LEMMA MailStep == MailOK /\ [Next]_vars => MailOK'
<1> SUFFICES ASSUME MailOK, [Next]_vars PROVE MailOK'
  OBVIOUS
<1>1. StreamsOK /\ StreamsOK' /\ DeliveryOK'
  BY StreamsStep, DeliveryStep DEF DeliveryOK, MailOK
<1> SUFFICES ASSUME NEW tx \in Relayed \ Live PROVE Kept(tx)'
  BY <1>1 DEF MailOK
<1>2. Kept(tx) /\ tx \in Tx
  BY DEF MailOK, Tx
<1>3. ASSUME \E t, records, m : Transition(t, records, m) /\ \A ty \in Tx : Effect(t, m, ty)
      PROVE  Kept(tx)'
  BY <1>1, <1>2, <1>3, TransitionKeepsMail
<1>4. ASSUME NEW s \in Senders, NEW count \in Counts, Reserve(s, count) PROVE Kept(tx)'
  BY <1>1, <1>3, <1>4, ReserveTransition
<1>5. ASSUME NEW ty \in Live, NEW principal \in Introducer, Admit(ty, principal) PROVE Kept(tx)'
  BY <1>1, <1>3, <1>5, AdmitActionTransition
<1>6. ASSUME NEW ty \in Relayed, Offer(ty) \/ Release(ty) PROVE Kept(tx)'
  BY <1>1, <1>3, <1>6, OfferTransition, ReleaseTransition
<1>7. CASE \/ \E ty \in Relayed : Hold(ty) \/ TakeMail(ty) \/ Discard(ty) \/ Poll(ty)
           \/ BeginPass \/ EndPass \/ Tick \/ UNCHANGED vars
  BY <1>1, <1>7, HandingKeepsMail
<1>8. CASE CutPass \/ Take \/ Write \/ SettleDurable \/ SettleFailed \/ Crash
  BY <1>1, <1>8, CutPassKeepsMail, TakeKeepsMail, WriteKeepsMail,
     SettleDurableKeepsMail, SettleFailedKeepsMail, CrashKeepsMail
<1> QED
  BY <1>4, <1>5, <1>6, <1>7, <1>8 DEF Next

\* Mail of the relay inbox alone leaves it only once the application took it,
\* on a refusal of core that drops live messages too, or past its retention and
\* the clock tolerance (the at-least-once law of swarm/inbox.rs): however long a
\* pass lasts, and whatever fails, crashes or is cut in between.
THEOREM MailKeptAlways == Spec => MailKept
<1>1. ASSUME MailOK, [Next]_vars, NEW tx \in Relayed \ Live, tx \in carrier, tx \notin carrier'
      PROVE  delivered[tx] > 0 \/ Past(tx) \/ pass.done[tx] = "Refused"
  <2>1. CASE EndPass
    <3>1. pass # None /\ tx \in DOMAIN pass.done
      BY <1>1, <2>1 DEF EndPass
    <3>2. pass.done[tx] # "Refused" => Settled(tx)
      BY <1>1, <3>1 DEF MailOK, Kept
    <3> QED
      BY <3>2 DEF Settled, Spent, SpentAt, Past
  <2>2. CASE ~EndPass
    <3>1. carrier \subseteq carrier'
      BY <1>1, <2>2 DEF Next, vars, Reserve, Admit, AdmitInto, Offer, Release, Refuse, Join, Hold,
         TakeMail, Discard, Poll, BeginPass, CutPass, Take, Write, SettleDurable, SettleFailed,
         Tick, Crash
    <3> QED BY <1>1, <3>1
  <2> QED BY <2>1, <2>2
<1>2. MailOK /\ [Next]_vars =>
        [\A tx \in Relayed \ Live : tx \in carrier /\ tx \notin carrier' =>
            delivered[tx] > 0 \/ Past(tx) \/ pass.done[tx] = "Refused"]_vars
  BY <1>1
<1> QED
  BY <1>2, MailInit, MailStep, PTL DEF Spec, MailKept

=============================================================================
