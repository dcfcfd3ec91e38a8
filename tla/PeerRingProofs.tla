--------------------------- MODULE PeerRingProofs ---------------------------
(***************************************************************************)
(* The safety of one node's ring state, for every ring width, table size,  *)
(* successor capacity, set of peers and pacing constants.                  *)
(*                                                                         *)
(* Inv, the inductive invariant, is the conjunction of the type invariant, *)
(* the ledger law Ledger, the properties PeerRing states, and the fact     *)
(* that nothing counts as overtaken while no lookup is live.  Every        *)
(* transition but a few ends in Commit, so the preservation of the ring    *)
(* part of Inv is proved once, from what the committed values satisfy      *)
(* (Committable), and each action only shows that its values do.           *)
(*                                                                         *)
(* The last sections relate the list algorithms of RingLists, as the code  *)
(* writes them, to the set-level operators the state machine uses, and     *)
(* those to the specification operators of a converged ring.               *)
(***************************************************************************)
EXTENDS RingLists, TLAPS, WellFoundedInduction, NaturalsInduction, FiniteSetTheorems

-----------------------------------------------------------------------------
(* Facts about the ring operators of RingGeometry, for every ring width,   *)
(* table size and successor capacity.                                      *)

\* Every non-empty set of naturals has a least element.  This replaces the
\* inductions below: a least counterexample is excluded instead.
LEMMA LeastNumber ==
    ASSUME NEW T \in SUBSET Nat, T # {}
    PROVE  \E x \in T : \A y \in T : x <= y
<1> DEFINE R == {ss \in Nat \X Nat : ss[1] < ss[2]}
<1>1. IsWellFoundedOn(R, Nat)
  BY NatLessThanWellFounded, Zenon DEF OpToRel
<1>2. \A x, y \in Nat : <<y, x>> \notin R => x <= y
  OBVIOUS
<1> HIDE DEF R
<1>3. PICK x \in T : \A y \in T : ~(<<y, x>> \in R)
  BY <1>1, WFMin, Zenon
<1>4. \A y \in T : x <= y
  BY <1>2, <1>3, Zenon
<1> QED BY <1>4, Zenon

\* A least element under any natural-valued measure.
LEMMA LeastMeasure ==
    ASSUME NEW S, S # {}, NEW m \in [S -> Nat]
    PROVE  \E p \in S : \A q \in S : m[p] <= m[q]
<1> DEFINE T == {m[p] : p \in S}
<1>1. T \in SUBSET Nat /\ T # {}
  OBVIOUS
<1> HIDE DEF T
<1>2. PICK x \in T : \A y \in T : x <= y
  BY <1>1, LeastNumber, Zenon
<1> USE DEF T
<1>3. PICK p \in S : x = m[p]
  BY <1>2
<1> QED BY <1>2, <1>3

LEMMA RingSizeType == RingSize \in Nat \ {0}
BY GeometryAssumption, PowersAssumption DEF RingSize

LEMMA NoneIsNoDid == None \notin Did
BY GeometryAssumption, RingSizeType DEF Did

\* Clockwise distances are naturals below the ring size, zero only to oneself,
\* and distinct for distinct targets.
LEMMA DistType ==
    ASSUME NEW a \in Did, NEW b \in Did
    PROVE  /\ dist(a, b) \in Nat /\ dist(a, b) < RingSize
           /\ dist(a, b) = 0 <=> a = b
           /\ \A c \in Did : dist(a, b) = dist(a, c) => b = c
<1> DEFINE N == RingSize
<1>1. N \in Nat \ {0} /\ Did = 0 .. N - 1
  BY RingSizeType DEF Did
<1>2. \A c \in Did : dist(a, c) = IF a <= c THEN c - a ELSE c - a + N
  BY DEF dist
<1> HIDE DEF N
<1>3. /\ dist(a, b) \in Nat /\ dist(a, b) < N
      /\ dist(a, b) = 0 <=> a = b
      /\ \A c \in Did : dist(a, b) = dist(a, c) => b = c
  BY <1>1, <1>2
<1> QED BY <1>3 DEF N

\* Nearest picks a member, and no member is nearer.
LEMMA NearestIsLeast ==
    ASSUME NEW local \in Did, NEW S \in SUBSET Did, S # {}
    PROVE  /\ Nearest(local, S) \in S
           /\ \A q \in S : dist(local, Nearest(local, S)) <= dist(local, q)
<1>1. \A p \in S : dist(local, p) \in Nat
  BY DistType
<1>2. \E p \in S : \A q \in S : dist(local, p) <= dist(local, q)
  <2> DEFINE m == [p \in S |-> dist(local, p)]
  <2>1. m \in [S -> Nat] /\ \A p \in S : m[p] = dist(local, p)
    BY <1>1
  <2> HIDE DEF m
  <2>2. \E p \in S : \A q \in S : m[p] <= m[q]
    BY <2>1, LeastMeasure
  <2> QED BY <2>1, <2>2
<1> DEFINE P(p) == \A q \in S : dist(local, p) <= dist(local, q)
<1>3. \E p \in S : P(p)
  BY <1>2
<1>4. Nearest(local, S) = CHOOSE p \in S : P(p)
  BY DEF Nearest
<1> HIDE DEF P
<1>5. Nearest(local, S) \in S /\ P(Nearest(local, S))
  BY <1>3, <1>4, Zenon
<1> QED BY <1>5 DEF P

\* A nearest member is None exactly for the empty set.
LEMMA NearestType ==
    ASSUME NEW local \in Did, NEW S \in SUBSET Did
    PROVE  /\ Nearest(local, S) \in S \cup {None}
           /\ Nearest(local, S) = None <=> S = {}
<1>1. None \notin Did
  BY NoneIsNoDid
<1>2. CASE S = {}
  BY <1>1, <1>2 DEF Nearest
<1>3. CASE S # {}
  BY <1>1, <1>3, NearestIsLeast
<1> QED BY <1>2, <1>3

\* The least and the greatest element of a non-empty set of slots.
LEMMA SlotBounds ==
    ASSUME NEW S \in SUBSET Slot, S # {}
    PROVE  /\ \E i \in S : \A j \in S : i <= j
           /\ \E i \in S : \A j \in S : j <= i
<1>1. Slots \in Nat /\ S \subseteq Nat /\ \A i \in S : i <= Slots - 1
  BY GeometryAssumption DEF Slot
<1>2. \E i \in S : \A j \in S : i <= j
  BY <1>1, LeastNumber
<1> DEFINE m == [i \in S |-> Slots - 1 - i]
<1>3. m \in [S -> Nat] /\ \A i \in S : m[i] = Slots - 1 - i
  BY <1>1
<1> HIDE DEF m
<1>4. \E i \in S : \A j \in S : m[i] <= m[j]
  BY <1>3, LeastMeasure
<1>5. \E i \in S : \A j \in S : j <= i
  BY <1>1, <1>3, <1>4
<1> QED BY <1>2, <1>5

\* Offsets of slots: positive, and ascending with the slot.
LEMMA Offsets ==
    ASSUME NEW i \in Slot, NEW j \in Slot
    PROVE  2^i \in Nat \ {0} /\ (i <= j => 2^i <= 2^j)
BY GeometryAssumption, PowersAssumption DEF Slot

\* Selection keeps only candidates, and never the node itself.
LEMMA SortedSuccessorsSubset ==
    ASSUME NEW local, NEW S
    PROVE  sorted_successors(local, S) \subseteq S \ {local}
BY DEF sorted_successors

\* The head of a successor set.
LEMMA HeadType ==
    ASSUME NEW local \in Did, NEW S \in SUBSET Did
    PROVE  /\ successor_head(local, S) \in (S \ {local}) \cup {None}
           /\ successor_head(local, S) = None <=> S \subseteq {local}
BY NearestType DEF successor_head

\* A finger join writes offered peers only, each at or beyond the offset of
\* the slot it is written to, and keeps every other hint.
LEMMA FingerJoinWrites ==
    ASSUME NEW local \in Did, NEW fing, NEW S \in SUBSET Did, NEW i \in Slot
    PROVE  LET new == finger_join(local, fing, S)[i]
           IN  new = fing[i] \/ (new \in S \ {local} /\ dist(local, new) >= 2^i)
<1> DEFINE R == {p \in S \ {local} : dist(local, p) >= 2^i}
<1>1. R \in SUBSET Did
  OBVIOUS
<1>2. Nearest(local, R) \in R \cup {None}
  BY <1>1, NearestType
<1>3. finger_join(local, fing, S)[i] \in {fing[i], Nearest(local, R)}
  BY DEF finger_join
<1>4. Nearest(local, R) = None => finger_join(local, fing, S)[i] = fing[i]
  BY DEF finger_join
<1> QED BY <1>2, <1>3, <1>4

\* Vacating a peer leaves it in no slot, and moves hints down only: what a
\* slot holds afterwards it held before, or a slot above it did.
LEMMA RemoveFingerPeerMoves ==
    ASSUME NEW fing, NEW p, p # None, NEW i \in Slot
    PROVE  LET new == remove_finger_peer(fing, p)[i]
           IN  new # p /\ (new = None \/ \E j \in Slot : i <= j /\ new = fing[j])
<1> DEFINE follows == {j \in i .. Slots - 1 :
                            /\ fing[j] # p
                            /\ \A k \in i .. j - 1 : fing[k] = p}
           new == remove_finger_peer(fing, p)[i]
<1>1. new = IF fing[i] # p THEN fing[i]
            ELSE IF follows = {} THEN None
            ELSE fing[CHOOSE j \in follows : TRUE]
  BY DEF remove_finger_peer
<1>2. \A j \in follows : j \in Slot /\ i <= j /\ fing[j] # p
  BY GeometryAssumption DEF Slot
<1>3. follows # {} => (CHOOSE j \in follows : TRUE) \in follows
  OBVIOUS
<1>4. i <= i
  BY DEF Slot
<1> HIDE DEF follows
<1> QED BY <1>1, <1>2, <1>3, <1>4

\* What a proof end says of the successor that answered.
LEMMA ProofEndReaches ==
    ASSUME NEW local, NEW s, NEW start \in Slot
    PROVE  LET end == finger_proof_end(local, s, start)
           IN  \/ end = None
               \/ /\ end \in Slot /\ start <= end
                  /\ s # local => 2^end <= dist(local, s)
<1> DEFINE ends == {e \in start .. Slots - 1 :
                    IF s = local
                    THEN e = Slots - 1
                    ELSE /\ 2^e <= dist(local, s)
                         /\ e = Slots - 1 \/ dist(local, s) < 2^(e + 1)}
           end == finger_proof_end(local, s, start)
<1>1. end = IF ends = {} THEN None ELSE CHOOSE e \in ends : TRUE
  BY DEF finger_proof_end
<1>2. \A e \in ends : /\ e \in Slot /\ start <= e
                      /\ s # local => 2^e <= dist(local, s)
  BY GeometryAssumption DEF Slot
<1>3. ends # {} => (CHOOSE e \in ends : TRUE) \in ends
  OBVIOUS
<1> HIDE DEF ends
<1> QED BY <1>1, <1>2, <1>3

\* A forwarded lookup goes strictly clockwise and short of its target: the
\* postcondition of find_successor, for every table and successor list.
THEOREM RoutingProgress ==
    ASSUME NEW local \in Did, NEW S \in SUBSET Did,
           NEW fing \in [Slot -> Did \cup {None}], NEW did \in Did
    PROVE  LET hop == find_successor(local, S, fing, did)
           IN  ~hop.local =>
                  /\ hop.peer \in (S \cup {fing[i] : i \in Slot}) \ {None, local}
                  /\ dist(local, hop.peer) < dist(local, did)
<1> DEFINE nearest   == successor_head(local, S)
           target == dist(local, did)
           C      == {i \in Slot : fing[i] # None /\ precedes(local, fing[i], target)}
           hop    == closest_preceding_finger(local, fing, target)
           result == find_successor(local, S, fing, did)
<1>1. None \notin Did
  BY NoneIsNoDid
<1>2. SUFFICES ASSUME ~result.local
               PROVE  /\ result.peer \in (S \cup {fing[i] : i \in Slot}) \ {None, local}
                      /\ dist(local, result.peer) < target
  OBVIOUS
<1>3. /\ nearest # None /\ ~(target <= dist(local, nearest))
      /\ result.peer = IF hop = None THEN nearest ELSE hop
  BY <1>2 DEF find_successor
<1>4. nearest \in S \ {local}
  BY <1>3, HeadType
<1>5. target \in Nat /\ dist(local, nearest) \in Nat
  BY <1>4, DistType
<1>6. C # {} => \E i \in C : \A j \in C : j <= i
  BY SlotBounds
<1>7. hop = None \/ \E i \in C : hop = fing[i]
  <2>1. hop = IF C = {} THEN None
              ELSE fing[CHOOSE i \in C : \A j \in C : j <= i]
    BY DEF closest_preceding_finger
  <2> HIDE DEF C, hop
  <2> QED BY <1>6, <2>1
<1>8. CASE hop = None
  BY <1>1, <1>3, <1>4, <1>5, <1>8
<1>9. CASE hop # None
  BY <1>1, <1>3, <1>7, <1>9 DEF precedes
<1> QED BY <1>8, <1>9

\* Range lemma: if a membership answers the lookup of slot `start` with s, then
\* s is its finger for every slot up to the proof end, so one lookup may write
\* the whole range; an answer with the node itself proves the rest of the
\* table empty.
THEOREM ProofRangeLaw ==
    ASSUME NEW local \in Did, NEW all \in SUBSET Did, NEW start \in Slot,
           NEW s, s = (IF finger(all, local, start) = None THEN local
                       ELSE finger(all, local, start)),
           NEW j \in Slot, start <= j,
           finger_proof_end(local, s, start) # None,
           j <= finger_proof_end(local, s, start)
    PROVE  finger(all, local, j) = finger(all, local, start)
<1> DEFINE R(i) == {p \in all \ {local} : dist(local, p) >= 2^i}
<1>1. \A i \in Slot : R(i) \in SUBSET Did /\ finger(all, local, i) = Nearest(local, R(i))
  BY DEF finger
<1>2. \A p \in Did : dist(local, p) \in Nat
  BY DistType
<1>3. R(j) \subseteq R(start)
  BY <1>2, Offsets
<1>4. CASE finger(all, local, start) = None
  <2>1. R(start) = {}
    BY <1>1, <1>4, NearestType
  <2> QED BY <1>1, <1>3, <1>4, <2>1, NearestType
<1>5. CASE finger(all, local, start) # None
  <2>1. s \in R(start) /\ \A q \in R(start) : dist(local, s) <= dist(local, q)
    <3>1. s = Nearest(local, R(start)) /\ R(start) \in SUBSET Did
      BY <1>1, <1>5
    <3>2. R(start) # {}
      BY <1>1, <1>5, NearestType
    <3> HIDE DEF R
    <3> QED BY <3>1, <3>2, NearestIsLeast
  <2>2. 2^finger_proof_end(local, s, start) <= dist(local, s)
        /\ finger_proof_end(local, s, start) \in Slot
    BY <2>1, ProofEndReaches
  <2>3. s \in R(j)
    BY <1>2, <2>1, <2>2, Offsets
  <2>4. Nearest(local, R(j)) \in R(j)
        /\ dist(local, Nearest(local, R(j))) <= dist(local, s)
    BY <1>1, <2>3, NearestIsLeast
  <2>5. dist(local, Nearest(local, R(j))) = dist(local, s)
    BY <1>2, <1>3, <2>1, <2>4
  <2> QED BY <1>1, <1>5, <2>1, <2>4, <2>5, DistType
<1> QED BY <1>4, <1>5

-----------------------------------------------------------------------------
(* The laws of the ring state.                                             *)

\* What the ledger operators rely on and preserve.
Ledger(c) ==
    LET a == c.attempt
    IN  /\ c \in Convergence
        /\ \A i \in Slot : c.changedAt[i] <= c.epoch
        /\ a.phase # "Idle" =>
              /\ a.request \in Request
              /\ a.epoch <= c.epoch
              /\ c.changedAt[a.request.slot] <= a.epoch
        /\ a.phase = "AwaitingAdmission" =>
              /\ a.successor \in Peers
              /\ a.end \in Slot /\ a.request.slot <= a.end
              /\ 2^a.end <= dist(Local, a.successor)

\* A finger table whose hints reach their slots.
Table(f) ==
    /\ f \in [Slot -> Option(Peers)]
    /\ \A i \in Slot : f[i] # None => dist(Local, f[i]) >= 2^i

LEMMA Constants ==
    /\ Local \in Did /\ Peers \subseteq Did /\ Local \notin Peers
    /\ None \notin Slot /\ None \notin Did /\ None \notin Peers /\ None # Local
    /\ Slots \in Nat /\ Slot \subseteq Nat
    /\ \A i \in Slot : i < Slots
    /\ MinInterval \in Nat /\ MaxBackoff \in Nat /\ MaxStreak \in Nat
    /\ MaxEpoch \in Nat /\ LookupTimeout \in Nat /\ AdmissionTimeout \in Nat
BY PeersAssumption, GeometryAssumption, ConvergenceAssumption, NoneIsNoDid DEF Slot

LEMMA NextSlot == \A i \in Slot : i \in Int /\ i + 1 \in 0 .. Slots
BY GeometryAssumption DEF Slot

-----------------------------------------------------------------------------
(* The ledger operators preserve Ledger. *)

LEMMA IdleType == Idle \in Attempt /\ Idle.phase = "Idle"
BY Constants DEF Idle, Attempt, Option

LEMMA NewLedger == Ledger(NewConvergence)
BY IdleType, Constants DEF NewConvergence, Ledger, Convergence, Idle

\* A ledger that keeps its dates and keeps or drops its attempt.
Updates(d, c) ==
    /\ d \in Convergence
    /\ d.epoch = c.epoch /\ d.changedAt = c.changedAt
    /\ d.attempt \in {Idle, c.attempt}

LEMMA UpdatesKeepLedger ==
    ASSUME NEW c, NEW d, Ledger(c), Updates(d, c)
    PROVE  Ledger(d)
BY IdleType DEF Ledger, Updates

LEMMA UpdatesTransitive ==
    ASSUME NEW c, NEW d, NEW e, Updates(d, c), Updates(e, d)
    PROVE  Updates(e, c)
BY DEF Updates

LEMMA BackoffType ==
    ASSUME NEW streak \in Nat PROVE BackoffAfter(streak) \in 0 .. MaxBackoff
<1>1. AtMost(streak, MaxExponent) \in 0 .. Bits
  BY ConvergenceAssumption, GeometryAssumption DEF AtMost
<1>2. 2^AtMost(streak, MaxExponent) \in Nat
  BY <1>1, PowersAssumption
<1> DEFINE x == 2^AtMost(streak, MaxExponent)
<1>3. MinInterval * x \in Nat
  <2> HIDE DEF x
  <2> QED BY <1>2, Constants DEF x
<1> HIDE DEF x
<1>4. BackoffAfter(streak) = AtMost(MinInterval * x, MaxBackoff)
  BY DEF BackoffAfter, x
<1> QED BY <1>3, <1>4, Constants DEF AtMost

LEMMA FailureUpdates ==
    ASSUME NEW c \in Convergence
    PROVE  Updates(RecordFailure(c), c) /\ RecordFailure(c).attempt = c.attempt
<1>1. c.streak \in 0 .. MaxStreak
  BY DEF Convergence
<1>2. AtMost(c.streak + 1, MaxStreak) \in 0 .. MaxStreak
  BY <1>1, Constants DEF AtMost
<1>3. BackoffAfter(AtMost(c.streak + 1, MaxStreak)) \in 0 .. MaxBackoff
  BY <1>2, BackoffType
<1> QED BY <1>2, <1>3 DEF RecordFailure, Updates, Convergence

LEMMA ProgressUpdates ==
    ASSUME NEW c \in Convergence
    PROVE  Updates(RecordProgress(c), c) /\ RecordProgress(c).attempt = c.attempt
<1>1. 0 \in 0 .. MaxStreak /\ 0 \in 0 .. MaxBackoff
  BY Constants
<1> QED BY <1>1 DEF RecordProgress, Updates, Convergence

\* The end of a run of hints lies in the table.
LEMMA RunEndType ==
    ASSUME NEW f, NEW slot \in Slot
    PROVE  hint_run_end(f, slot) \in Slot /\ slot <= hint_run_end(f, slot)
<1> DEFINE Stop == {e \in slot .. Slots - 1 : e = Slots - 1 \/ f[e + 1] # f[slot]}
           Run(e) == /\ \A k \in slot .. e : f[k] = f[slot]
                     /\ e = Slots - 1 \/ f[e + 1] # f[slot]
<1>1. Stop \in SUBSET Slot /\ Stop # {}
  <2>1. Slots - 1 \in Stop
    BY Constants DEF Slot
  <2>2. \A e \in Stop : e \in Slot
    BY Constants DEF Slot
  <2> QED BY <2>1, <2>2
<1>2. PICK e \in Stop : \A d \in Stop : e <= d
  BY <1>1, SlotBounds
<1>3. \A k \in slot .. e : f[k] = f[slot]
  <2> SUFFICES ASSUME NEW k \in slot .. e, f[k] # f[slot] PROVE FALSE
    OBVIOUS
  <2>1. k # slot /\ k \in Int /\ slot \in Int /\ e \in Int /\ e <= Slots - 1
    BY Constants DEF Slot
  <2>2. k - 1 \in slot .. Slots - 1 /\ (k - 1) + 1 = k
    BY <2>1, Constants
  <2>3. k - 1 \in Stop
    BY <2>2
  <2> QED BY <1>2, <2>1, <2>3
<1>4. e \in slot .. Slots - 1 /\ Run(e)
  BY <1>2, <1>3
<1>5. hint_run_end(f, slot) = CHOOSE d \in slot .. Slots - 1 : Run(d)
  BY DEF hint_run_end
<1> HIDE DEF Run
<1>6. hint_run_end(f, slot) \in slot .. Slots - 1
  BY <1>4, <1>5
<1> QED BY <1>6, Constants DEF Slot

LEMMA FailAttemptUpdates ==
    ASSUME NEW c \in Convergence, NEW f, NEW slot \in Slot
    PROVE  /\ Updates(fail_attempt(c, f, slot), c)
           /\ fail_attempt(c, f, slot).attempt = Idle
<1> DEFINE e == hint_run_end(f, slot) + 1
           d == [c EXCEPT !.attempt = Idle, !.cursor = e]
<1>1. e \in 0 .. Slots
  <2>1. hint_run_end(f, slot) \in Slot
    BY RunEndType
  <2> QED BY <2>1, NextSlot
<1> HIDE DEF e
<1>2. Updates(d, c) /\ d.attempt = Idle
  BY <1>1, IdleType DEF Updates, Convergence
<1>3. fail_attempt(c, f, slot) = RecordFailure(d)
  BY DEF fail_attempt, e
<1>4. d \in Convergence
  BY <1>2 DEF Updates
<1> HIDE DEF d
<1> QED BY <1>2, <1>3, <1>4, FailureUpdates, UpdatesTransitive

LEMMA CancelUpdates ==
    ASSUME NEW c, Ledger(c), NEW f, NEW req
    PROVE  Updates(cancel(c, f, req), c)
<1>1. c \in Convergence /\ Updates(c, c)
  BY DEF Ledger, Updates
<1>2. Owns(c, req) => req \in Request
  BY DEF Ledger, Owns
<1>3. Owns(c, req) => req.slot \in Slot
  BY <1>2 DEF Request
<1> QED BY <1>1, <1>3, FailAttemptUpdates DEF cancel

\* What a valid verdict says of the proof's range.
LEMMA ValidProof ==
    ASSUME NEW c, Ledger(c), NEW req, req.slot \in Slot, NEW s \in Peers \cup {Local},
           validated_proof(Local, c, req, s) = "Valid"
    PROVE  /\ can_consume(c, req, s) /\ c.attempt.phase # "Idle" /\ c.attempt.request = req
           /\ ProofEnd(Local, c, req, s) \in Slot
           /\ s # Local => 2^ProofEnd(Local, c, req, s) <= dist(Local, s)
<1>1. can_consume(c, req, s) /\ c.attempt.phase # "Idle" /\ c.attempt.request = req
  BY DEF validated_proof, can_consume
<1>2. CASE c.attempt.phase = "AwaitingAdmission"
  BY <1>1, <1>2 DEF Ledger, ProofEnd, can_consume
<1>3. CASE c.attempt.phase # "AwaitingAdmission"
  <2>1. finger_proof_end(Local, s, req.slot) # None
    BY <1>1, <1>3 DEF validated_proof
  <2> QED BY <1>1, <1>3, <2>1, ProofEndReaches DEF ProofEnd
<1> QED BY <1>1, <1>2, <1>3

LEMMA RejectionUpdates ==
    ASSUME NEW c, Ledger(c), NEW f, NEW req, req.slot \in Slot, NEW s, NEW verdict
    PROVE  Updates(retire_rejected_current(c, f, req, s, verdict), c)
<1>1. c \in Convergence /\ Updates(c, c)
  BY DEF Ledger, Updates
<1>2. Updates([c EXCEPT !.attempt = Idle], c)
  BY <1>1, IdleType DEF Updates, Convergence
<1> QED BY <1>1, <1>2, FailAttemptUpdates DEF retire_rejected_current

\* Applying a report keeps the table law, writes only the reported peer, and
\* ends the attempt whenever it changes a hint.
LEMMA ApplyResult ==
    ASSUME NEW c, Ledger(c), NEW f, Table(f), NEW req, req.slot \in Slot,
           NEW s \in Peers \cup {Local}
    PROVE  LET r == apply_result(Local, c, f, req, s)
           IN  /\ Updates(r.c, c)
               /\ Table(r.fingers)
               /\ \A i \in Slot : r.fingers[i] = f[i]
                                  \/ r.fingers[i] = (IF s = Local THEN None ELSE s)
               /\ r.c.attempt.phase # "Idle" => r.fingers = f
<1> DEFINE verdict == validated_proof(Local, c, req, s)
           end     == ProofEnd(Local, c, req, s)
           written == {i \in req.slot .. end : Admits(c, i)}
           hint    == IF s = Local THEN None ELSE s
           r       == apply_result(Local, c, f, req, s)
<1>1. CASE verdict # "Valid"
  <2>1. r = [c |-> retire_rejected_current(c, f, req, s, verdict), fingers |-> f]
    BY <1>1 DEF apply_result
  <2> QED BY <2>1, RejectionUpdates
<1>2. CASE verdict = "Valid"
  <2> DEFINE v == [i \in Slot |-> i \in written \/ c.verified[i]]
             d == [c EXCEPT !.attempt = Idle, !.verified = v, !.cursor = end + 1]
             g == [i \in Slot |-> IF i \in written THEN hint ELSE f[i]]
  <2>1. r = [c |-> RecordProgress(d), fingers |-> g]
    BY <1>2 DEF apply_result
  <2>2. end \in Slot /\ (s # Local => 2^end <= dist(Local, s))
    BY <1>2, ValidProof
  <2>3. c \in Convergence
    BY DEF Ledger
  <2>4. end + 1 \in 0 .. Slots /\ v \in [Slot -> BOOLEAN]
    <3>1. end + 1 \in 0 .. Slots
      BY <2>2, NextSlot
    <3>2. v \in [Slot -> BOOLEAN]
      BY <2>3 DEF Convergence
    <3> QED BY <3>1, <3>2
  <2>5. Updates(d, c) /\ d.attempt = Idle /\ d \in Convergence
    <3> HIDE DEF v, end
    <3> QED BY <2>3, <2>4, IdleType DEF Updates, Convergence
  <2>6. Updates(r.c, c) /\ r.c.attempt.phase = "Idle"
    <3> HIDE DEF d, g
    <3> QED BY <2>1, <2>5, ProgressUpdates, UpdatesTransitive, IdleType
  <2>7. ASSUME NEW i \in Slot
        PROVE  /\ g[i] = f[i] \/ g[i] = hint
               /\ g[i] \in Option(Peers)
               /\ g[i] # None => dist(Local, g[i]) >= 2^i
    <3>1. CASE i \notin written
      BY <3>1 DEF Table
    <3>2. CASE i \in written /\ s = Local
      BY <3>2 DEF Option
    <3>3. CASE i \in written /\ s # Local
      <4>1. g[i] = s /\ i <= end /\ s \in Peers
        BY <3>3, <2>2, Constants
      <4>2. 2^i \in Nat /\ 2^end \in Nat /\ 2^i <= 2^end
        BY <2>2, <4>1, Offsets
      <4>3. dist(Local, s) \in Nat
        BY <4>1, Constants, DistType
      <4> QED BY <2>2, <3>3, <4>1, <4>2, <4>3 DEF Option
    <3> QED BY <3>1, <3>2, <3>3
  <2>8. g \in [Slot -> Option(Peers)]
    BY <2>7
  <2> HIDE DEF g, d, hint
  <2> QED BY <2>1, <2>6, <2>7, <2>8 DEF Table, hint
<1> QED BY <1>1, <1>2

\* Retaining a report for admission keeps the ledger law and the dates.
DeferKeepsDate(c, d) ==
    /\ d.changedAt = c.changedAt
    /\ d.attempt.phase # "Idle" => /\ c.attempt.phase # "Idle"
                                   /\ d.attempt.epoch = c.attempt.epoch

LEMMA DeferResult ==
    ASSUME NEW c, Ledger(c), NEW f, NEW req, req \in Request, NEW s \in Peers
    PROVE  LET d == defer_result(Local, c, f, req, s)
           IN  Ledger(d) /\ DeferKeepsDate(c, d)
<1> USE DEF DeferKeepsDate
<1> DEFINE verdict == validated_proof(Local, c, req, s)
           d == defer_result(Local, c, f, req, s)
           end == finger_proof_end(Local, s, req.slot)
           a == AwaitingAdmission(req, c.attempt.epoch, s, end)
<1>1. req.slot \in Slot /\ c \in Convergence /\ s # Local
  BY Constants DEF Request, Ledger
<1>2. CASE verdict # "Valid"
  <2>1. Updates(d, c)
    BY <1>1, <1>2, RejectionUpdates DEF defer_result
  <2> QED BY <2>1, UpdatesKeepLedger, IdleType DEF Updates
<1>3. CASE verdict = "Valid" /\ c.attempt.phase = "AwaitingAdmission"
  BY <1>3 DEF defer_result
<1>4. CASE verdict = "Valid" /\ c.attempt.phase # "AwaitingAdmission"
  <2>1. d = [c EXCEPT !.attempt = a]
    BY <1>4 DEF defer_result
  <2>2. c.attempt.phase # "Idle" /\ c.attempt.request = req
    BY <1>1, <1>4, ValidProof
  <2>3. end \in Slot /\ req.slot <= end /\ 2^end <= dist(Local, s)
    <3>1. end # None
      BY <1>4, <2>2 DEF validated_proof
    <3> QED BY <1>1, <3>1, ProofEndReaches
  <2>4. c.attempt.epoch \in 0 .. MaxEpoch /\ AdmissionTimeout \in Nat
    BY <1>1, Constants DEF Convergence, Attempt
  <2>5. a \in Attempt
    <3> HIDE DEF end
    <3> QED BY <2>3, <2>4 DEF AwaitingAdmission, Attempt, Option
  <2>6. /\ a.phase = "AwaitingAdmission" /\ a.request = req
        /\ a.epoch = c.attempt.epoch /\ a.successor = s /\ a.end = end
    BY DEF AwaitingAdmission
  <2> HIDE DEF a, end, d
  <2>7. /\ d \in Convergence /\ d.attempt = a
        /\ d.epoch = c.epoch /\ d.changedAt = c.changedAt
    BY <1>1, <2>1, <2>5 DEF Convergence
  <2>8. Ledger(d)
    BY <2>2, <2>3, <2>6, <2>7 DEF Ledger
  <2> QED BY <2>2, <2>6, <2>7, <2>8 DEF d
<1> QED BY <1>2, <1>3, <1>4

LEMMA RetireResult ==
    ASSUME NEW c, Ledger(c), NEW f, NEW req, req.slot \in Slot, NEW s \in Peers
    PROVE  Updates(retire_result(Local, c, f, req, s), c)
<1> DEFINE e == ProofEnd(Local, c, req, s) + 1
           d == [c EXCEPT !.attempt = Idle, !.cursor = e]
<1>1. CASE validated_proof(Local, c, req, s) # "Valid"
  BY <1>1, RejectionUpdates DEF retire_result
<1>2. CASE validated_proof(Local, c, req, s) = "Valid"
  <2>1. retire_result(Local, c, f, req, s) = RecordFailure(d)
    BY <1>2 DEF retire_result
  <2>2. e \in 0 .. Slots /\ c \in Convergence
    BY <1>2, ValidProof, NextSlot DEF Ledger
  <2> HIDE DEF e
  <2>3. Updates(d, c) /\ d \in Convergence
    BY <2>2, IdleType DEF Updates, Convergence
  <2> HIDE DEF d
  <2> QED BY <2>1, <2>3, FailureUpdates, UpdatesTransitive
<1> QED BY <1>1, <1>2

LEMMA ConfirmRange ==
    ASSUME NEW c, Ledger(c), NEW end \in Slot
    PROVE  Updates(confirm_range(c, end), c)
<1> DEFINE superseded == c.attempt.phase # "Idle" /\ c.attempt.request.slot <= end
           v == [i \in Slot |-> i <= end \/ c.verified[i]]
           d == [c EXCEPT !.verified = v,
                          !.attempt = IF superseded THEN Idle ELSE c.attempt,
                          !.cursor = IF superseded THEN end + 1 ELSE c.cursor]
<1>1. c \in Convergence /\ end + 1 \in 0 .. Slots
  BY NextSlot DEF Ledger
<1>2. v \in [Slot -> BOOLEAN]
  BY <1>1 DEF Convergence
<1>3. Updates(d, c) /\ d \in Convergence
  <2> HIDE DEF v, superseded
  <2> QED BY <1>1, <1>2, IdleType DEF Updates, Convergence
<1>4. confirm_range(c, end) \in {d, RecordProgress(d)}
  BY DEF confirm_range
<1> HIDE DEF d
<1> QED BY <1>3, <1>4, ProgressUpdates, UpdatesTransitive

LEMMA BeginRevalidationUpdates ==
    ASSUME NEW c, Ledger(c), NEW f, NEW first
    PROVE  Updates(begin_revalidation(c, f, first), c)
<1> DEFINE start == IF c.cursor = Slots THEN 0 ELSE c.cursor
           v == [i \in Slot |-> i \notin start .. hint_run_end(f, start) /\ c.verified[i]]
<1>1. c \in Convergence
  BY DEF Ledger
<1>2. v \in [Slot -> BOOLEAN]
  BY <1>1 DEF Convergence
<1>3. begin_revalidation(c, f, first) \in {c, [c EXCEPT !.verified = v]}
  BY DEF begin_revalidation
<1> HIDE DEF v
<1> QED BY <1>1, <1>2, <1>3 DEF Updates, Convergence

\* Re-hinting keeps the ledger law.  It keeps or drops the attempt; an attempt
\* it keeps is older than the date of every slot that changed.
LEMMA HintChanges ==
    ASSUME NEW c, Ledger(c), NEW before, NEW after
    PROVE  LET d == rehint(c, before, after)
           IN  /\ Ledger(d)
               /\ d.attempt \in {Idle, c.attempt}
               /\ d.attempt.phase # "Idle" =>
                    \A i \in Slot :
                        /\ before[i] # after[i] => d.attempt.epoch < d.changedAt[i]
                        /\ c.changedAt[i] <= d.changedAt[i]
<1> DEFINE changed   == {i \in Slot : before[i] # after[i]}
           exhausted == changed # {} /\ c.epoch = MaxEpoch
           lost      == c.attempt.phase # "Idle" /\ c.attempt.request.slot \in changed
           ep == IF exhausted THEN c.epoch ELSE c.epoch + 1
           ca == [i \in Slot |-> IF i \in changed /\ ~exhausted
                                 THEN c.epoch + 1 ELSE c.changedAt[i]]
           v  == [i \in Slot |-> ~exhausted /\ i \notin changed /\ c.verified[i]]
           at == IF lost \/ exhausted THEN Idle ELSE c.attempt
           d  == rehint(c, before, after)
<1>1. c \in Convergence /\ c.epoch \in 0 .. MaxEpoch /\ MaxEpoch \in Nat
  BY Constants DEF Ledger, Convergence
<1>2. c.attempt.phase # "Idle" => c.attempt.request.slot \in Slot
  BY DEF Ledger, Request
<1>3. CASE changed = {}
  <2>1. d = c
    BY <1>3 DEF rehint, invalidate_hint_changes
  <2>2. \A i \in Slot : c.changedAt[i] <= c.changedAt[i]
    BY <1>1 DEF Convergence
  <2> QED BY <1>3, <2>1, <2>2
<1>4. CASE changed # {}
  <2>1. d = [c EXCEPT !.epoch = ep, !.changedAt = ca, !.verified = v, !.attempt = at]
    BY <1>4 DEF rehint, invalidate_hint_changes
  <2>2. ep \in 0 .. MaxEpoch
    BY <1>1, <1>4
  <2>3. ca \in [Slot -> 0 .. MaxEpoch] /\ \A i \in Slot : ca[i] <= ep
    BY <1>1, <1>4 DEF Ledger, Convergence
  <2>4. v \in [Slot -> BOOLEAN]
    BY <1>1 DEF Convergence
  <2>5. at \in Attempt /\ at \in {Idle, c.attempt}
    BY <1>1, IdleType DEF Convergence
  <2>6. at.phase # "Idle" =>
          /\ at = c.attempt /\ ~exhausted /\ at.request.slot \in Slot
          /\ ca[at.request.slot] = c.changedAt[at.request.slot]
    BY <1>2, IdleType
  <2>7. ~exhausted => /\ ep = c.epoch + 1
                      /\ \A i \in Slot : /\ before[i] # after[i] => ca[i] = c.epoch + 1
                                         /\ c.changedAt[i] <= ca[i]
    BY <1>1 DEF Ledger, Convergence
  <2> HIDE DEF ep, ca, v, at, d, exhausted
  <2>8. /\ d \in Convergence /\ d.epoch = ep /\ d.changedAt = ca /\ d.attempt = at
    BY <1>1, <2>1, <2>2, <2>3, <2>4, <2>5 DEF Convergence
  <2>9. at.phase # "Idle" =>
          /\ at.request \in Request /\ at.epoch <= ep
          /\ ca[at.request.slot] <= at.epoch
    <3>1. at.phase # "Idle" => at.epoch <= c.epoch /\ at.epoch \in Int
      BY <1>1, <2>5, <2>6 DEF Ledger, Attempt
    <3> QED BY <1>1, <2>6, <2>7, <3>1 DEF Ledger
  <2>10. at.phase = "AwaitingAdmission" => at = c.attempt
    BY <2>6
  <2>11. Ledger(d)
    BY <2>3, <2>8, <2>9, <2>10 DEF Ledger
  <2>12. at.phase # "Idle" => \A i \in Slot : before[i] # after[i] => at.epoch < ca[i]
    <3>1. at.phase # "Idle" => at.epoch <= c.epoch /\ at.epoch \in Int
      BY <1>1, <2>5, <2>6 DEF Ledger, Attempt
    <3> QED BY <1>1, <2>6, <2>7, <3>1
  <2> QED BY <2>5, <2>6, <2>7, <2>8, <2>11, <2>12 DEF d
<1> QED BY <1>3, <1>4

LEMMA InvalidateAll ==
    ASSUME NEW c, Ledger(c)
    PROVE  LET d == invalidate_all_evidence(c)
           IN  Ledger(d) /\ (d.attempt.phase # "Idle" => d = c)
<1> DEFINE ep == AtMost(c.epoch + 1, MaxEpoch)
           ca == IF c.epoch = MaxEpoch THEN c.changedAt ELSE [i \in Slot |-> c.epoch + 1]
           v  == [i \in Slot |-> FALSE]
           d  == [c EXCEPT !.epoch = ep, !.changedAt = ca, !.verified = v, !.attempt = Idle]
<1>1. c \in Convergence /\ c.epoch \in 0 .. MaxEpoch /\ MaxEpoch \in Nat
  BY Constants DEF Ledger, Convergence
<1>2. ep \in 0 .. MaxEpoch /\ (c.epoch = MaxEpoch => ep = c.epoch)
      /\ (c.epoch # MaxEpoch => ep = c.epoch + 1)
  BY <1>1 DEF AtMost
<1> HIDE DEF ep
<1>3. ca \in [Slot -> 0 .. MaxEpoch] /\ \A i \in Slot : ca[i] <= ep
  BY <1>1, <1>2 DEF Ledger, Convergence
<1>4. v \in [Slot -> BOOLEAN]
  OBVIOUS
<1>5. invalidate_all_evidence(c) \in {c, d}
  BY DEF invalidate_all_evidence, ep
<1> HIDE DEF ca, v
<1>6. d \in Convergence /\ d.epoch = ep /\ d.changedAt = ca /\ d.attempt = Idle
  BY <1>1, <1>2, <1>3, <1>4, IdleType DEF Convergence
<1> HIDE DEF d
<1>7. Ledger(d)
  BY <1>3, <1>6, IdleType DEF Ledger
<1> QED BY <1>5, <1>6, <1>7, IdleType

\* Time ages the attempt and changes nothing else about it.
LEMMA ElapseLedger ==
    ASSUME NEW c, Ledger(c)
    PROVE  /\ Ledger(Elapse(c))
           /\ Elapse(c).attempt.phase = c.attempt.phase
           /\ Elapse(c).attempt.epoch = c.attempt.epoch
           /\ Elapse(c).changedAt = c.changedAt
<1> DEFINE si == AtMost(c.since + 1, MinInterval)
           bo == IF c.backoff = 0 THEN 0 ELSE c.backoff - 1
           le == IF c.attempt.left = 0 THEN 0 ELSE c.attempt.left - 1
           at == [c.attempt EXCEPT !.left = le]
           d  == [c EXCEPT !.since = si, !.backoff = bo, !.attempt = at]
<1>1. c \in Convergence /\ c.attempt \in Attempt /\ c.since \in 0 .. MinInterval
      /\ c.backoff \in 0 .. MaxBackoff /\ c.attempt.left \in Nat
  BY DEF Ledger, Convergence, Attempt
<1>2. si \in 0 .. MinInterval /\ bo \in 0 .. MaxBackoff /\ le \in Nat
  BY <1>1, Constants DEF AtMost
<1>3. Elapse(c) = d
  BY <1>1 DEF Elapse, Convergence
<1> HIDE DEF si, bo, le
<1>4. /\ at \in Attempt /\ at.phase = c.attempt.phase /\ at.request = c.attempt.request
      /\ at.epoch = c.attempt.epoch /\ at.successor = c.attempt.successor
      /\ at.end = c.attempt.end
  BY <1>1, <1>2 DEF Attempt
<1> HIDE DEF at
<1>5. d \in Convergence /\ d.epoch = c.epoch /\ d.changedAt = c.changedAt /\ d.attempt = at
  BY <1>1, <1>2, <1>4 DEF Convergence
<1> HIDE DEF d
<1>6. Ledger(d)
  BY <1>4, <1>5 DEF Ledger
<1> QED BY <1>3, <1>4, <1>5, <1>6

-----------------------------------------------------------------------------
(* The inductive invariant. *)

\* The variables Commit writes.
RingOK ==
    /\ successors_ \in SUBSET Peers
    /\ Table(fingers)
    /\ Ledger(convergence)
    /\ pending \in Option(Token) /\ PendingTracksHead
    /\ sync \in [Peers -> Option(SyncToken)] /\ SyncTracksSuccessors
    /\ overtaken \in SUBSET Slot
    /\ IF convergence.attempt.phase = "Idle" THEN overtaken = {}
       ELSE \A i \in overtaken : convergence.attempt.epoch < convergence.changedAt[i]

\* The other variables.
LinksOK ==
    /\ predecessor_ \in Option(Peers)
    /\ lifecycle \in [Peers -> {"absent", "pending", "active"}]
    /\ ready \in SUBSET Peers
    /\ queued \in [Peers -> Option(Request)]
    /\ sent \in SUBSET (Query \cup Lookup)
    /\ claimed \in SUBSET Id

\* Who is referenced, relative to a set of peers.
References(succ, pred, fing, A) ==
    /\ succ \subseteq A
    /\ pred \in A \cup {None}
    /\ \A i \in Slot : fing[i] \in A \cup {None}

Inv == RingOK /\ LinksOK /\ References(successors_, predecessor_, fingers, Active)

\* Values a transition may commit.
Committable(succ, fing, conv, pend) ==
    /\ succ \in SUBSET Peers
    /\ Table(fing)
    /\ Ledger(conv)
    /\ pend \in {pending, None}
    /\ conv.attempt.phase # "Idle" =>
          \A i \in Slot : fing[i] # fingers[i] \/ i \in overtaken
                            => conv.attempt.epoch < conv.changedAt[i]

LEMMA InvImplies ==
    Inv => /\ TypeOK /\ ReferencesAdmitted /\ FingersReachSlot /\ PendingTracksHead
           /\ SyncTracksSuccessors /\ AttemptIsCurrent
<1> SUFFICES ASSUME Inv PROVE /\ TypeOK /\ ReferencesAdmitted /\ FingersReachSlot
                              /\ PendingTracksHead /\ SyncTracksSuccessors
                              /\ AttemptIsCurrent
  OBVIOUS
<1>1. TypeOK
  BY DEF Inv, RingOK, LinksOK, TypeOK, Table, Ledger
<1>2. ReferencesAdmitted
  BY DEF Inv, References, ReferencesAdmitted, Referenced
<1>3. FingersReachSlot /\ PendingTracksHead /\ SyncTracksSuccessors
  BY DEF Inv, RingOK, Table, FingersReachSlot
<1>4. AttemptIsCurrent
  <2> SUFFICES ASSUME convergence.attempt.phase # "Idle"
               PROVE  /\ convergence.changedAt[convergence.attempt.request.slot]
                            <= convergence.attempt.epoch
                      /\ convergence.attempt.request.slot \notin overtaken
    BY DEF AttemptIsCurrent
  <2>1. /\ convergence \in Convergence /\ convergence.attempt.request \in Request
        /\ convergence.changedAt[convergence.attempt.request.slot]
              <= convergence.attempt.epoch
    BY DEF Inv, RingOK, Ledger
  <2>2. /\ convergence.changedAt[convergence.attempt.request.slot] \in Int
        /\ convergence.attempt.epoch \in Int
    BY <2>1 DEF Convergence, Attempt, Request
  <2> QED BY <2>1, <2>2 DEF Inv, RingOK
<1> QED BY <1>1, <1>2, <1>3, <1>4

LEMMA InitInv == Init => Inv
<1> SUFFICES ASSUME Init PROVE Inv
  OBVIOUS
<1>1. Table(fingers)
  BY DEF Init, Table, Option
<1>2. Ledger(convergence) /\ convergence.attempt = Idle
  BY NewLedger DEF Init, NewConvergence
<1>3. RingOK
  BY <1>1, <1>2, IdleType
  DEF Init, RingOK, Option, PendingTracksHead, SyncTracksSuccessors
<1>4. LinksOK
  BY DEF Init, LinksOK, Option
<1>5. References(successors_, predecessor_, fingers, Active)
  BY DEF Init, References
<1> QED BY <1>3, <1>4, <1>5 DEF Inv

LEMMA CommitKeeps ==
    ASSUME Inv, NEW succ, NEW fing, NEW conv, NEW pend,
           Committable(succ, fing, conv, pend), Commit(succ, fing, conv, pend)
    PROVE  RingOK'
<1> USE DEF Inv, RingOK, Committable, Commit
<1>1. (successors_ \in SUBSET Peers /\ Table(fingers) /\ Ledger(convergence))'
  BY DEF Table, Ledger
<1>2. (pending \in Option(Token) /\ PendingTracksHead)'
  BY DEF Option, PendingTracksHead, head
<1>3. (sync \in [Peers -> Option(SyncToken)] /\ SyncTracksSuccessors)'
  BY DEF Option, SyncTracksSuccessors
<1>4. overtaken' \in SUBSET Slot
  OBVIOUS
<1>5. (IF convergence.attempt.phase = "Idle" THEN overtaken = {}
       ELSE \A i \in overtaken : convergence.attempt.epoch < convergence.changedAt[i])'
  OBVIOUS
<1> QED BY <1>1, <1>2, <1>3, <1>4, <1>5

\* An attempt that survives into a later ledger stays older than the slots
\* that overtook it.
LEMMA OlderStays ==
    ASSUME Inv, NEW conv, Ledger(conv), conv.attempt = convergence.attempt,
           conv.attempt.phase # "Idle",
           \A i \in Slot : convergence.changedAt[i] <= conv.changedAt[i]
    PROVE  \A i \in overtaken : conv.attempt.epoch < conv.changedAt[i]
<1> SUFFICES ASSUME NEW i \in overtaken PROVE conv.attempt.epoch < conv.changedAt[i]
  OBVIOUS
<1>1. /\ i \in Slot /\ convergence.attempt.epoch < convergence.changedAt[i]
      /\ convergence \in Convergence /\ conv \in Convergence
  BY DEF Inv, RingOK, Ledger
<1>2. /\ convergence.changedAt[i] \in Int /\ conv.changedAt[i] \in Int
      /\ convergence.attempt.epoch \in Int
  BY <1>1 DEF Convergence, Attempt
<1> QED BY <1>1, <1>2

\* A step that leaves the ring variables alone.
LEMMA RingUnchanged ==
    ASSUME Inv, UNCHANGED <<successors_, fingers, convergence, pending, sync, overtaken>>
    PROVE  RingOK'
BY DEF Inv, RingOK, Table, Ledger, PendingTracksHead, head, SyncTracksSuccessors

\* The ledger alone is replaced, keeping or dropping the attempt's request.
LEMMA StepLedgerKeeps ==
    ASSUME Inv, NEW conv, Ledger(conv), StepLedger(conv),
           conv.attempt.phase # "Idle" =>
                \A i \in overtaken : conv.attempt.epoch < conv.changedAt[i]
    PROVE  /\ RingOK'
           /\ UNCHANGED <<successors_, predecessor_, fingers>>
<1>1. Committable(successors_, fingers, conv, pending)
  BY DEF Inv, RingOK, Committable
<1>2. Commit(successors_, fingers, conv, pending)
  BY DEF StepLedger
<1> QED BY <1>1, <1>2, CommitKeeps DEF StepLedger, Commit

LEMMA UpdatedLedgerKeeps ==
    ASSUME Inv, NEW conv, Updates(conv, convergence), StepLedger(conv)
    PROVE  /\ RingOK'
           /\ UNCHANGED <<successors_, predecessor_, fingers>>
<1>1. Ledger(conv)
  BY UpdatesKeepLedger DEF Inv, RingOK
<1>2. conv.attempt.phase # "Idle" =>
        \A i \in overtaken : conv.attempt.epoch < conv.changedAt[i]
  BY IdleType DEF Inv, RingOK, Updates
<1> QED BY <1>1, <1>2, StepLedgerKeeps

-----------------------------------------------------------------------------
(* The topology steps. *)

LEMMA JoinTable ==
    ASSUME NEW f, Table(f), NEW S \in SUBSET Peers
    PROVE  /\ Table(finger_join(Local, f, S))
           /\ \A i \in Slot : finger_join(Local, f, S)[i] \in {f[i]} \cup S
<1> DEFINE g == finger_join(Local, f, S)
<1>1. \A i \in Slot : g[i] = f[i] \/ (g[i] \in S \ {Local} /\ dist(Local, g[i]) >= 2^i)
  BY Constants, FingerJoinWrites
<1>2. g \in [Slot -> Option(Peers)]
  <2>1. g = [i \in Slot |-> g[i]]
    BY DEF finger_join
  <2>2. \A i \in Slot : g[i] \in Option(Peers)
    BY <1>1 DEF Table, Option
  <2> HIDE DEF g
  <2> QED BY <2>1, <2>2
<1> HIDE DEF g
<1>3. Table(g)
  BY <1>1, <1>2 DEF Table
<1> QED BY <1>1, <1>3 DEF g

LEMMA RemoveTable ==
    ASSUME NEW f, Table(f), NEW p \in Peers
    PROVE  /\ Table(remove_finger_peer(f, p))
           /\ \A i \in Slot : /\ remove_finger_peer(f, p)[i] # p
                              /\ \/ remove_finger_peer(f, p)[i] = None
                                 \/ \E j \in Slot : remove_finger_peer(f, p)[i] = f[j]
<1> DEFINE g == remove_finger_peer(f, p)
<1>1. p # None
  BY Constants
<1>2. \A i \in Slot : g[i] # p /\ (g[i] = None \/ \E j \in Slot : i <= j /\ g[i] = f[j])
  BY <1>1, RemoveFingerPeerMoves
<1>3. g = [i \in Slot |-> g[i]]
  BY DEF remove_finger_peer
<1> HIDE DEF g
<1>4. ASSUME NEW i \in Slot
      PROVE  g[i] \in Option(Peers) /\ (g[i] # None => dist(Local, g[i]) >= 2^i)
  <2>1. CASE g[i] = None
    BY <2>1 DEF Option
  <2>2. CASE g[i] # None
    <3>1. PICK j \in Slot : i <= j /\ g[i] = f[j]
      BY <1>2, <2>2
    <3>2. f[j] \in Peers /\ dist(Local, f[j]) >= 2^j
      BY <2>2, <3>1 DEF Table, Option
    <3>3. dist(Local, f[j]) \in Nat
      BY <3>2, Constants, DistType
    <3>4. 2^i \in Nat /\ 2^j \in Nat /\ 2^i <= 2^j
      BY <3>1, Offsets
    <3> QED BY <3>1, <3>2, <3>3, <3>4 DEF Option
  <2> QED BY <2>1, <2>2
<1>5. Table(g)
  BY <1>3, <1>4 DEF Table
<1> QED BY <1>2, <1>5 DEF g

LEMMA SelectionType ==
    ASSUME NEW S, S \subseteq Peers \cup {Local}
    PROVE  sorted_successors(Local, S) \in SUBSET Peers
BY SortedSuccessorsSubset

LEMMA StepAdmitKeeps ==
    ASSUME Inv, NEW p \in Peers, NEW proof \in Option(Request), StepAdmit(p, proof)
    PROVE  /\ RingOK'
           /\ successors_' \subseteq successors_ \cup {p}
           /\ predecessor_' = predecessor_
           /\ \A i \in Slot : fingers'[i] \in {fingers[i], p}
<1> DEFINE applied == IF proof = None THEN [c |-> convergence, fingers |-> fingers]
                      ELSE apply_result(Local, convergence, fingers, proof, p)
           joined  == finger_join(Local, applied.fingers, {p})
           succ    == sorted_successors(Local, successors_ \cup {p})
           conv    == rehint(applied.c, applied.fingers, joined)
<1>1. Commit(succ, joined, conv, pending) /\ predecessor_' = predecessor_
  BY DEF StepAdmit
<1>2. Ledger(convergence) /\ Table(fingers) /\ successors_ \in SUBSET Peers
  BY DEF Inv, RingOK
<1>3. p # Local /\ p # None
  BY Constants
<1>4. /\ Updates(applied.c, convergence)
      /\ Table(applied.fingers)
      /\ \A i \in Slot : applied.fingers[i] \in {fingers[i], p}
      /\ applied.c.attempt.phase # "Idle" => applied.fingers = fingers
  <2>1. CASE proof = None
    BY <1>2, <2>1 DEF Updates, Ledger
  <2>2. CASE proof # None
    <3>1. proof.slot \in Slot
      BY <2>2 DEF Option, Request
    <3>2. applied = apply_result(Local, convergence, fingers, proof, p)
      BY <2>2
    <3> HIDE DEF applied
    <3> QED BY <1>2, <1>3, <3>1, <3>2, ApplyResult
  <2> QED BY <2>1, <2>2
<1>5. Ledger(applied.c)
  BY <1>2, <1>4, UpdatesKeepLedger
<1> HIDE DEF applied
<1>6. Table(joined) /\ \A i \in Slot : joined[i] \in {applied.fingers[i], p}
  BY <1>4, JoinTable
<1>7. /\ Ledger(conv) /\ conv.attempt \in {Idle, applied.c.attempt}
      /\ conv.attempt.phase # "Idle" =>
            \A i \in Slot :
                /\ applied.fingers[i] # joined[i] => conv.attempt.epoch < conv.changedAt[i]
                /\ applied.c.changedAt[i] <= conv.changedAt[i]
  BY <1>5, HintChanges
<1>8. succ \in SUBSET Peers /\ succ \subseteq successors_ \cup {p}
  BY <1>2, SelectionType, SortedSuccessorsSubset
<1> HIDE DEF joined, conv, succ
<1>9. conv.attempt.phase # "Idle" =>
        \A i \in Slot : joined[i] # fingers[i] \/ i \in overtaken
                            => conv.attempt.epoch < conv.changedAt[i]
  <2> SUFFICES ASSUME conv.attempt.phase # "Idle"
               PROVE  \A i \in Slot : joined[i] # fingers[i] \/ i \in overtaken
                            => conv.attempt.epoch < conv.changedAt[i]
    OBVIOUS
  <2>1. conv.attempt = convergence.attempt /\ applied.c.changedAt = convergence.changedAt
    BY <1>4, <1>7, IdleType DEF Updates
  <2>2. applied.fingers = fingers
    BY <1>4, <1>7, IdleType
  <2>3. \A i \in overtaken : conv.attempt.epoch < conv.changedAt[i]
    BY <1>7, <2>1, OlderStays
  <2> QED BY <1>7, <2>2, <2>3
<1>10. Committable(succ, joined, conv, pending)
  BY <1>6, <1>7, <1>8, <1>9 DEF Committable
<1>11. RingOK'
  BY <1>1, <1>10, CommitKeeps
<1>12. successors_' = succ /\ fingers' = joined
  BY <1>1 DEF Commit
<1> QED BY <1>1, <1>4, <1>6, <1>8, <1>11, <1>12

LEMMA StepRemoveKeeps ==
    ASSUME Inv, NEW p \in Peers, NEW replacement,
           replacement = None \/ replacement \in SUBSET Peers,
           StepRemove(p, replacement)
    PROVE  /\ RingOK'
           /\ p \notin successors_' /\ predecessor_' # p
           /\ \/ successors_' \subseteq successors_
              \/ replacement # None /\ successors_' \subseteq replacement
           /\ predecessor_' \in {predecessor_, None}
           /\ \A i \in Slot : /\ fingers'[i] # p
                              /\ fingers'[i] = None \/ \E j \in Slot : fingers'[i] = fingers[j]
<1> DEFINE kept  == IF p = head /\ replacement # None
                    THEN sorted_successors(Local, replacement \ {p})
                    ELSE successors_ \ {p}
           hints == remove_finger_peer(fingers, p)
           conv  == rehint(convergence, fingers, hints)
           last  == IF kept = {} THEN invalidate_all_evidence(conv) ELSE conv
<1>1. Commit(kept, hints, last, pending)
  BY DEF StepRemove
<1>2. predecessor_' = IF predecessor_ = p THEN None ELSE predecessor_
  BY DEF StepRemove
<1>3. Ledger(convergence) /\ Table(fingers) /\ successors_ \in SUBSET Peers
  BY DEF Inv, RingOK
<1>4. /\ kept \in SUBSET Peers /\ p \notin kept
      /\ \/ kept \subseteq successors_
         \/ replacement # None /\ kept \subseteq replacement
  <2>1. CASE p = head /\ replacement # None
    <3>1. sorted_successors(Local, replacement \ {p}) \subseteq (replacement \ {p}) \ {Local}
      BY SortedSuccessorsSubset
    <3> QED BY <2>1, <3>1
  <2>2. CASE ~(p = head /\ replacement # None)
    BY <1>3, <2>2
  <2> QED BY <2>1, <2>2
<1>5. /\ Table(hints)
      /\ \A i \in Slot : /\ hints[i] # p
                         /\ hints[i] = None \/ \E j \in Slot : hints[i] = fingers[j]
  BY <1>3, RemoveTable
<1>6. /\ Ledger(conv) /\ conv.attempt \in {Idle, convergence.attempt}
      /\ conv.attempt.phase # "Idle" =>
            \A i \in Slot :
                /\ fingers[i] # hints[i] => conv.attempt.epoch < conv.changedAt[i]
                /\ convergence.changedAt[i] <= conv.changedAt[i]
  BY <1>3, HintChanges
<1> HIDE DEF kept, hints, conv
<1>7. Ledger(last) /\ (last.attempt.phase # "Idle" => last = conv)
  BY <1>6, InvalidateAll
<1> HIDE DEF last
<1>8. last.attempt.phase # "Idle" =>
        \A i \in Slot : hints[i] # fingers[i] \/ i \in overtaken
                            => last.attempt.epoch < last.changedAt[i]
  BY <1>6, <1>7, IdleType, OlderStays
<1>9. Committable(kept, hints, last, pending)
  BY <1>4, <1>5, <1>7, <1>8 DEF Committable
<1>10. RingOK'
  BY <1>1, <1>9, CommitKeeps
<1>11. successors_' = kept /\ fingers' = hints
  BY <1>1 DEF Commit
<1>12. p # None
  BY Constants
<1> QED BY <1>2, <1>4, <1>5, <1>10, <1>11, <1>12

-----------------------------------------------------------------------------
(* Every action preserves Inv. *)

\* The connection actions.
LEMMA ConnectionsInv ==
    ASSUME Inv, NEW p \in Peers
    PROVE  /\ Reserve(p) => Inv'
           /\ TransportChange(p) => Inv'
           /\ AdmitPending(p) => Inv'
           /\ \A next \in {"absent", "pending"} : ReleasePending(p, next) => Inv'
           /\ JoinRoutable(p) => Inv'
           /\ Disconnect(p) => Inv'
           /\ DisconnectUnavailable(p) => Inv'
           /\ EvictUnreferenced(p) => Inv'
           /\ PruneDisconnected(p) => Inv'
<1> USE DEF Inv
<1>0. /\ LinksOK /\ References(successors_, predecessor_, fingers, Active)
      /\ Active \subseteq Peers
  BY DEF Active
<1>1. ASSUME Reserve(p) PROVE Inv'
  <2>1. RingOK'
    BY <1>1, RingUnchanged DEF Reserve, topology
  <2>2. Active' = Active
    BY <1>0, <1>1 DEF Reserve, LinksOK, Active
  <2>3. LinksOK'
    BY <1>0, <1>1 DEF Reserve, LinksOK, topology, rounds
  <2>4. UNCHANGED <<successors_, predecessor_, fingers>>
    BY <1>1 DEF Reserve, topology
  <2> QED BY <1>0, <2>1, <2>2, <2>3, <2>4 DEF References
<1>2. ASSUME TransportChange(p) PROVE Inv'
  <2>1. RingOK'
    BY <1>2, RingUnchanged DEF TransportChange, topology
  <2>2. Active' = Active
    BY <1>2 DEF TransportChange, Active
  <2>3. LinksOK'
    BY <1>0, <1>2 DEF TransportChange, LinksOK, topology, rounds
  <2>4. UNCHANGED <<successors_, predecessor_, fingers>>
    BY <1>2 DEF TransportChange, topology
  <2> QED BY <1>0, <2>1, <2>2, <2>3, <2>4 DEF References
<1>3. ASSUME AdmitPending(p) PROVE Inv'
  <2>1. StepAdmit(p, queued[p]) /\ queued[p] \in Option(Request)
    BY <1>0, <1>3 DEF AdmitPending, LinksOK
  <2>2. /\ RingOK' /\ successors_' \subseteq successors_ \cup {p}
        /\ predecessor_' = predecessor_
        /\ \A i \in Slot : fingers'[i] \in {fingers[i], p}
    BY <2>1, StepAdmitKeeps
  <2>3. Active' = Active \cup {p}
    BY <1>0, <1>3 DEF AdmitPending, LinksOK, Active
  <2>4. LinksOK'
    BY <1>0, <1>3, <2>2 DEF AdmitPending, LinksOK, rounds, Option
  <2>5. References(successors_', predecessor_', fingers', Active')
    BY <1>0, <2>2, <2>3 DEF References
  <2> QED BY <2>2, <2>4, <2>5
<1>4. ASSUME NEW next \in {"absent", "pending"}, ReleasePending(p, next) PROVE Inv'
  <2>1. RingOK' /\ UNCHANGED <<successors_, predecessor_, fingers>>
    <3>1. CASE queued[p] = None
      BY <1>4, <3>1, RingUnchanged DEF ReleasePending, topology
    <3>2. CASE queued[p] # None
      <4>1. StepLedger(cancel(convergence, fingers, queued[p]))
        BY <1>4, <3>2 DEF ReleasePending
      <4>2. Updates(cancel(convergence, fingers, queued[p]), convergence)
        BY CancelUpdates DEF RingOK
      <4> QED BY <4>1, <4>2, UpdatedLedgerKeeps
    <3> QED BY <3>1, <3>2
  <2>2. Active' = Active
    BY <1>0, <1>4 DEF ReleasePending, LinksOK, Active
  <2>3. LinksOK'
    BY <1>0, <1>4, <2>1 DEF ReleasePending, LinksOK, rounds, Option
  <2> QED BY <1>0, <2>1, <2>2, <2>3 DEF References
<1>5. ASSUME JoinRoutable(p) PROVE Inv'
  <2>1. StepAdmit(p, None) /\ None \in Option(Request) /\ p \in Active
    BY <1>5 DEF JoinRoutable, Option, Routable
  <2>2. /\ RingOK' /\ successors_' \subseteq successors_ \cup {p}
        /\ predecessor_' = predecessor_
        /\ \A i \in Slot : fingers'[i] \in {fingers[i], p}
    BY <2>1, StepAdmitKeeps
  <2>3. Active' = Active
    BY <1>5 DEF JoinRoutable, links, Active
  <2>4. LinksOK'
    BY <1>0, <1>5, <2>2 DEF JoinRoutable, LinksOK, links, rounds
  <2>5. References(successors_', predecessor_', fingers', Active')
    BY <1>0, <2>1, <2>2, <2>3 DEF References
  <2> QED BY <2>2, <2>4, <2>5
<1>6. ASSUME NEW replacement, replacement = None \/ replacement \in SUBSET Active,
             Retire(p, replacement)
      PROVE  Inv'
  <2>1. StepRemove(p, replacement) /\ (replacement = None \/ replacement \in SUBSET Peers)
    BY <1>0, <1>6 DEF Retire
  <2>2. /\ RingOK'
        /\ p \notin successors_' /\ predecessor_' # p
        /\ \/ successors_' \subseteq successors_
           \/ replacement # None /\ successors_' \subseteq replacement
        /\ predecessor_' \in {predecessor_, None}
        /\ \A i \in Slot : /\ fingers'[i] # p
                           /\ fingers'[i] = None \/ \E j \in Slot : fingers'[i] = fingers[j]
    BY <2>1, StepRemoveKeeps
  <2>3. Active' = Active \ {p}
    BY <1>0, <1>6 DEF Retire, LinksOK, Active
  <2>4. LinksOK'
    BY <1>0, <1>6, <2>2 DEF Retire, LinksOK, rounds, Option
  <2>5. References(successors_', predecessor_', fingers', Active')
    BY <1>0, <1>6, <2>2, <2>3 DEF References
  <2> QED BY <2>2, <2>4, <2>5
<1>7. LiveReplacements(p) \in SUBSET Active
  <2>1. sorted_successors(Local, Routable \ {p}) \subseteq (Routable \ {p}) \ {Local}
    BY SortedSuccessorsSubset
  <2> QED BY <2>1 DEF LiveReplacements, Routable
<1>8. ASSUME PruneDisconnected(p) PROVE Inv'
  <2>1. StepRemove(p, LiveReplacements(p)) /\ LiveReplacements(p) \in SUBSET Peers
    BY <1>0, <1>7, <1>8 DEF PruneDisconnected
  <2>2. /\ RingOK'
        /\ \/ successors_' \subseteq successors_
           \/ successors_' \subseteq LiveReplacements(p)
        /\ predecessor_' \in {predecessor_, None}
        /\ \A i \in Slot : fingers'[i] = None \/ \E j \in Slot : fingers'[i] = fingers[j]
    BY <2>1, StepRemoveKeeps
  <2>3. Active' = Active
    BY <1>8 DEF PruneDisconnected, links, Active
  <2>4. LinksOK'
    BY <1>0, <1>8, <2>2 DEF PruneDisconnected, LinksOK, links, rounds, Option
  <2>5. References(successors_', predecessor_', fingers', Active')
    BY <1>0, <1>7, <2>2, <2>3 DEF References
  <2> QED BY <2>2, <2>4, <2>5
<1>9. /\ Disconnect(p) => Inv'
      /\ DisconnectUnavailable(p) => Inv'
      /\ EvictUnreferenced(p) => Inv'
  BY <1>6, <1>7 DEF Disconnect, DisconnectUnavailable, EvictUnreferenced
<1> QED BY <1>1, <1>2, <1>3, <1>4, <1>5, <1>8, <1>9

\* The stabilization actions.  A report refines the successor list and the
\* fingers with routable peers only.
LEMMA StabilizeCommits ==
    ASSUME Inv, NEW q \in sent, NEW reported \in SUBSET Peers,
           NEW reportedPred \in Peers \cup {Local, None},
           Stabilize(q, reported, reportedPred)
    PROVE  /\ RingOK'
           /\ successors_' \subseteq successors_ \cup Routable
           /\ \A i \in Slot : fingers'[i] \in {fingers[i]} \cup successors_ \cup Routable
<1> DEFINE confirmed == reported \cap Routable
           pred == IF reportedPred \in Routable \cup {Local} THEN reportedPred ELSE None
           known == successors_ \cup confirmed \cup ({pred} \ {None})
           succ == stabilize_successors(Local, successors_, confirmed, pred)
           end  == stabilized_successor_proof_end(q.to, succ, pred)
           join == finger_join(Local, fingers, succ)
           hint == [i \in Slot |-> IF end # None /\ i <= end THEN q.to ELSE join[i]]
           conv == rehint(convergence, fingers, hint)
           last == IF end = None THEN conv ELSE confirm_range(conv, end)
<1>1. Commit(succ, hint, last, None) /\ q.to \in Routable
  BY DEF Stabilize
<1>2. Ledger(convergence) /\ Table(fingers) /\ successors_ \in SUBSET Peers
  BY DEF Inv, RingOK
<1>3. Routable \subseteq Peers
  BY DEF Routable, Active
<1>4. succ \in SUBSET Peers /\ succ \subseteq successors_ \cup Routable
  <2>1. known \subseteq successors_ \cup Routable \cup {Local}
    OBVIOUS
  <2>2. known \subseteq Peers \cup {Local}
    BY <1>2, <1>3, <2>1
  <2>3. succ = sorted_successors(Local, known)
    BY DEF stabilize_successors, successors
  <2> HIDE DEF known, succ
  <2> QED BY <2>1, <2>2, <2>3, SelectionType, SortedSuccessorsSubset
<1> HIDE DEF succ
<1>5. Table(join) /\ \A i \in Slot : join[i] \in {fingers[i]} \cup succ
  BY <1>2, <1>4, JoinTable
<1>6. end # None => end \in Slot /\ 2^end <= dist(Local, q.to)
  <2> SUFFICES ASSUME end # None PROVE end \in Slot /\ 2^end <= dist(Local, q.to)
    OBVIOUS
  <2>1. end = finger_proof_end(Local, q.to, 0)
    BY DEF stabilized_successor_proof_end
  <2>2. q.to \in Did /\ q.to # Local
    BY <1>1, <1>3, Constants
  <2>3. CASE 0 \in Slot
    BY <2>1, <2>2, <2>3, ProofEndReaches, Constants
  <2>4. CASE 0 \notin Slot
    <3>1. Slots = 0
      BY <2>4, Constants DEF Slot
    <3>2. end = None
      BY <2>1, <3>1 DEF finger_proof_end
    <3> QED BY <3>2
  <2> QED BY <2>3, <2>4
<1> HIDE DEF end, join
<1>7. \A i \in Slot : hint[i] \in {q.to, join[i]} /\ (hint[i] # join[i] => i <= end /\ end # None)
  OBVIOUS
<1>8. Table(hint)
  <2>1. ASSUME NEW i \in Slot
        PROVE  hint[i] \in Option(Peers) /\ (hint[i] # None => dist(Local, hint[i]) >= 2^i)
    <3>1. CASE hint[i] = join[i]
      BY <1>5, <3>1 DEF Table
    <3>2. CASE hint[i] # join[i]
      <4>1. hint[i] = q.to /\ i <= end /\ end \in Slot /\ 2^end <= dist(Local, q.to)
        BY <1>6, <1>7, <3>2
      <4>2. 2^i \in Nat /\ 2^end \in Nat /\ 2^i <= 2^end
        BY <4>1, Offsets
      <4>3. q.to \in Peers /\ dist(Local, q.to) \in Nat
        BY <1>1, <1>3, Constants, DistType
      <4> QED BY <4>1, <4>2, <4>3 DEF Option
    <3> QED BY <3>1, <3>2
  <2>2. hint \in [Slot -> Option(Peers)]
    BY <2>1
  <2> QED BY <2>1, <2>2 DEF Table
<1> HIDE DEF hint
<1>9. /\ Ledger(conv) /\ conv.attempt \in {Idle, convergence.attempt}
      /\ conv.attempt.phase # "Idle" =>
            \A i \in Slot :
                /\ fingers[i] # hint[i] => conv.attempt.epoch < conv.changedAt[i]
                /\ convergence.changedAt[i] <= conv.changedAt[i]
  BY <1>2, HintChanges
<1> HIDE DEF conv
<1>10. Updates(last, conv)
  <2>1. Updates(conv, conv)
    BY <1>9 DEF Updates, Ledger
  <2> QED BY <1>6, <1>9, <2>1, ConfirmRange
<1>11. Ledger(last)
  BY <1>9, <1>10, UpdatesKeepLedger
<1> HIDE DEF last
<1>12. last.attempt.phase # "Idle" =>
        \A i \in Slot : hint[i] # fingers[i] \/ i \in overtaken
                            => last.attempt.epoch < last.changedAt[i]
  <2> SUFFICES ASSUME last.attempt.phase # "Idle"
               PROVE  \A i \in Slot : hint[i] # fingers[i] \/ i \in overtaken
                            => last.attempt.epoch < last.changedAt[i]
    OBVIOUS
  <2>1. last.attempt = conv.attempt /\ last.changedAt = conv.changedAt
    BY <1>10, IdleType DEF Updates
  <2>2. conv.attempt = convergence.attempt /\ conv.attempt.phase # "Idle"
    BY <1>9, <2>1, IdleType
  <2>3. \A i \in overtaken : conv.attempt.epoch < conv.changedAt[i]
    BY <1>9, <2>2, OlderStays
  <2> QED BY <1>9, <2>1, <2>2, <2>3
<1>13. Committable(succ, hint, last, None)
  BY <1>4, <1>8, <1>11, <1>12 DEF Committable
<1>14. RingOK'
  BY <1>1, <1>13, CommitKeeps
<1>15. successors_' = succ /\ fingers' = hint
  BY <1>1 DEF Commit
<1> QED BY <1>1, <1>4, <1>5, <1>7, <1>14, <1>15

\* Sent queries name a peer and an identity, lookups a slot and an identity.
LEMMA SentType ==
    ASSUME LinksOK, NEW q \in sent
    PROVE  /\ q.id \in Id
           /\ q.kind \in {"stabilize", "sync"} => q.to \in Peers
           /\ q.kind = "finger" => q.to \in Slot
BY DEF LinksOK, Query, Lookup

LEMMA StabilizationInv ==
    ASSUME Inv
    PROVE  /\ \A p \in Peers : Notify(p) => Inv'
           /\ \A id \in Id : BeginStabilize(id) => Inv'
           /\ \A q \in sent :
                /\ ClaimStabilize(q) => Inv'
                /\ CancelStabilize(q) => Inv'
                /\ \A reported \in SUBSET Peers, pred \in Peers \cup {Local, None} :
                        Stabilize(q, reported, pred) => Inv'
<1> USE DEF Inv
<1>0. /\ LinksOK /\ References(successors_, predecessor_, fingers, Active)
      /\ Active \subseteq Peers /\ Routable \subseteq Active
  BY DEF Active, Routable
<1>1. ASSUME NEW p \in Peers, Notify(p) PROVE Inv'
  <2>1. RingOK'
    BY <1>1, RingUnchanged DEF Notify
  <2>2. predecessor_' \in {predecessor_, p} /\ p \in Active
    BY <1>0, <1>1 DEF Notify, rectify_predecessor
  <2>3. LinksOK'
    BY <1>0, <1>1, <2>2 DEF Notify, LinksOK, links, rounds, Option
  <2>4. Active' = Active /\ UNCHANGED <<successors_, fingers>>
    BY <1>1 DEF Notify, links, Active
  <2>5. References(successors_', predecessor_', fingers', Active')
    BY <1>0, <2>2, <2>4 DEF References
  <2> QED BY <2>1, <2>3, <2>5
<1>2. ASSUME UNCHANGED <<successors_, predecessor_, fingers, convergence, sync, links, overtaken>>,
             pending' \in Option(Token), pending' # None => pending'.reporter = head,
             sent' \in SUBSET (Query \cup Lookup), claimed' \in SUBSET Id
      PROVE  Inv'
  <2>1. RingOK'
    BY <1>2 DEF RingOK, Table, Ledger, PendingTracksHead, head, SyncTracksSuccessors
  <2>2. LinksOK'
    BY <1>0, <1>2 DEF LinksOK, links
  <2>3. Active' = Active
    BY <1>2 DEF links, Active
  <2> QED BY <1>0, <1>2, <2>1, <2>2, <2>3 DEF References
<1>3. ASSUME NEW id \in Id, BeginStabilize(id) PROVE Inv'
  <2>1. head \in Peers
    <3>1. head # None /\ successors_ \in SUBSET Peers
      BY <1>3 DEF BeginStabilize, RingOK
    <3>2. successors_ \in SUBSET Did
      BY <3>1, Constants
    <3> QED BY <3>1, <3>2, HeadType, Constants DEF head
  <2>2. pending' \in Option(Token) /\ pending'.reporter = head
    BY <1>3, <2>1 DEF BeginStabilize, Option, Token
  <2>3. sent' \in SUBSET (Query \cup Lookup) /\ claimed' \in SUBSET Id
    BY <1>0, <1>3, <2>1 DEF BeginStabilize, LinksOK, Query
  <2> QED BY <1>2, <1>3, <2>2, <2>3 DEF BeginStabilize
<1>4. ASSUME NEW q \in sent, ClaimStabilize(q) PROVE Inv'
  <2>1. /\ pending = [reporter |-> q.to, id |-> q.id, phase |-> "Requested"]
        /\ pending' = [pending EXCEPT !.phase = "Processing"]
        /\ q.kind = "stabilize"
    BY <1>4 DEF ClaimStabilize
  <2>2. q.to \in Peers /\ q.id \in Id
    BY <1>0, <2>1, SentType
  <2>3. pending' \in Option(Token) /\ pending'.reporter = q.to
    BY <2>1, <2>2 DEF Option, Token
  <2>4. q.to = head
    <3>1. pending # None
      BY <2>1, <2>2, TokensAssumption DEF Token
    <3> QED BY <2>1, <3>1 DEF RingOK, PendingTracksHead
  <2>5. sent' \in SUBSET (Query \cup Lookup) /\ claimed' \in SUBSET Id
    BY <1>0, <1>4, <2>2 DEF ClaimStabilize, LinksOK
  <2> QED BY <1>2, <1>4, <2>3, <2>4, <2>5 DEF ClaimStabilize
<1>5. ASSUME NEW q \in sent, CancelStabilize(q) PROVE Inv'
  BY <1>0, <1>2, <1>5 DEF CancelStabilize, rounds, LinksOK, Option
<1>6. ASSUME NEW q \in sent, NEW reported \in SUBSET Peers,
             NEW pred \in Peers \cup {Local, None}, Stabilize(q, reported, pred)
      PROVE  Inv'
  <2>1. /\ RingOK'
        /\ successors_' \subseteq successors_ \cup Routable
        /\ \A i \in Slot : fingers'[i] \in {fingers[i]} \cup successors_ \cup Routable
    BY <1>6, StabilizeCommits
  <2>2. LinksOK'
    BY <1>0, <1>6 DEF Stabilize, LinksOK, links, rounds
  <2>3. Active' = Active /\ predecessor_' = predecessor_
    BY <1>6 DEF Stabilize, links, Active
  <2>4. References(successors_', predecessor_', fingers', Active')
    BY <1>0, <2>1, <2>3 DEF References
  <2> QED BY <2>1, <2>2, <2>4
<1> QED BY <1>1, <1>3, <1>4, <1>5, <1>6

\* The successor-synchronization actions.
LEMMA SynchronizationInv ==
    ASSUME Inv
    PROVE  /\ \A p \in Peers, id \in Id : BeginSync(p, id) => Inv'
           /\ \A q \in sent : (ClaimSync(q) \/ CancelSync(q)) => Inv'
<1> USE DEF Inv
<1>0. LinksOK /\ References(successors_, predecessor_, fingers, Active)
  OBVIOUS
<1>1. ASSUME UNCHANGED <<topology, links, overtaken>>,
             sync' \in [Peers -> Option(SyncToken)],
             \A p \in Peers : sync'[p] # None => p \in successors_,
             sent' \in SUBSET (Query \cup Lookup), claimed' \in SUBSET Id
      PROVE  Inv'
  <2>1. UNCHANGED <<successors_, predecessor_, fingers, convergence, pending, overtaken>>
    BY <1>1 DEF topology
  <2>2. RingOK'
    BY <1>1, <2>1 DEF RingOK, Table, Ledger, PendingTracksHead, head, SyncTracksSuccessors
  <2>3. LinksOK'
    BY <1>0, <1>1, <2>1 DEF LinksOK, links
  <2>4. Active' = Active
    BY <1>1 DEF links, Active
  <2> QED BY <1>0, <2>1, <2>2, <2>3, <2>4 DEF References
<1>2. ASSUME NEW p \in Peers, NEW id \in Id, BeginSync(p, id) PROVE Inv'
  <2>1. sync' \in [Peers -> Option(SyncToken)]
    BY <1>2 DEF BeginSync, RingOK, Option, SyncToken
  <2>2. \A r \in Peers : sync'[r] # None => r \in successors_
    BY <1>2 DEF BeginSync, RingOK, SyncTracksSuccessors
  <2>3. sent' \in SUBSET (Query \cup Lookup) /\ claimed' \in SUBSET Id
    BY <1>0, <1>2 DEF BeginSync, LinksOK, Query
  <2> QED BY <1>1, <1>2, <2>1, <2>2, <2>3 DEF BeginSync
<1>3. ASSUME NEW q \in sent, ClaimSync(q) PROVE Inv'
  <2>1. /\ sync[q.to] = [id |-> q.id, phase |-> "Requested"]
        /\ sync' = [sync EXCEPT ![q.to] = [sync[q.to] EXCEPT !.phase = "Processing"]]
        /\ q.kind = "sync"
    BY <1>3 DEF ClaimSync
  <2>2. q.to \in Peers /\ q.id \in Id
    BY <1>0, <2>1, SentType
  <2>3. sync[q.to] # None
    BY <2>1, <2>2, TokensAssumption DEF SyncToken
  <2>4. [sync[q.to] EXCEPT !.phase = "Processing"] \in SyncToken
    BY <2>1, <2>2 DEF SyncToken
  <2>5. sync' \in [Peers -> Option(SyncToken)]
    BY <2>1, <2>2, <2>4 DEF RingOK, Option
  <2>6. \A r \in Peers : sync'[r] # None => r \in successors_
    BY <2>1, <2>2, <2>3 DEF RingOK, SyncTracksSuccessors
  <2>7. sent' \in SUBSET (Query \cup Lookup) /\ claimed' \in SUBSET Id
    BY <1>0, <1>3, <2>2 DEF ClaimSync, LinksOK
  <2> QED BY <1>1, <1>3, <2>5, <2>6, <2>7 DEF ClaimSync
<1>4. ASSUME NEW q \in sent, CancelSync(q) PROVE Inv'
  <2>1. sync' = [sync EXCEPT ![q.to] = None]
    BY <1>4 DEF CancelSync
  <2>2. sync' \in [Peers -> Option(SyncToken)]
    BY <2>1 DEF RingOK, Option
  <2>3. \A r \in Peers : sync'[r] # None => r \in successors_
    BY <2>1 DEF RingOK, SyncTracksSuccessors
  <2> QED BY <1>0, <1>1, <1>4, <2>2, <2>3 DEF CancelSync, rounds, LinksOK
<1> QED BY <1>2, <1>3, <1>4

\* The slot chosen for the next lookup.
LEMMA NextLookupType ==
    ASSUME NEW c, NEW first
    PROVE  next_unverified_cyclic(c, first) \in Slot \cup {None}
<1>1. ASSUME NEW S \in SUBSET Slot PROVE Least(S) \in Slot \cup {None}
  <2>1. CASE S = {}
    BY <2>1 DEF Least
  <2>2. CASE S # {}
    <3>1. \E i \in S : \A j \in S : i <= j
      BY <2>2, SlotBounds
    <3>2. Least(S) = CHOOSE i \in S : \A j \in S : i <= j
      BY <2>2 DEF Least
    <3>3. Least(S) \in S
      BY <3>1, <3>2
    <3> QED BY <3>3
  <2> QED BY <2>1, <2>2
<1>2. {i \in Slot : i >= first /\ ~c.verified[i]} \in SUBSET Slot
  OBVIOUS
<1>3. {i \in {k \in Slot : k >= first /\ ~c.verified[k]} : i >= c.cursor} \in SUBSET Slot
  OBVIOUS
<1> QED BY <1>1, <1>2, <1>3 DEF next_unverified_cyclic

\* A new lookup is dated with the current epoch, so no hint is younger.
LEMMA IssuedLedger ==
    ASSUME NEW c, Ledger(c), NEW req \in Request
    PROVE  LET d == [c EXCEPT !.attempt = AwaitingReport(req, c.epoch), !.since = 0]
           IN  /\ Ledger(d) /\ d.epoch = c.epoch /\ d.changedAt = c.changedAt
               /\ d.attempt.request = req
<1> DEFINE a == AwaitingReport(req, c.epoch)
           d == [c EXCEPT !.attempt = a, !.since = 0]
<1>1. c \in Convergence /\ c.epoch \in 0 .. MaxEpoch /\ 0 \in 0 .. MinInterval
      /\ LookupTimeout \in Nat
  BY Constants DEF Ledger, Convergence
<1>2. a \in Attempt /\ a.phase = "AwaitingReport" /\ a.request = req /\ a.epoch = c.epoch
  BY <1>1 DEF AwaitingReport, Attempt, Option
<1> HIDE DEF a
<1>3. d \in Convergence /\ d.epoch = c.epoch /\ d.changedAt = c.changedAt /\ d.attempt = a
  BY <1>1, <1>2 DEF Convergence
<1> HIDE DEF d
<1>4. Ledger(d)
  BY <1>1, <1>2, <1>3 DEF Ledger, Request
<1> QED BY <1>2, <1>3, <1>4 DEF d, a

\* A local answer names the successor head or this node.
LEMMA LocalAnswer ==
    ASSUME Inv, NEW did,
           find_successor(Local, successors_, fingers, did).local
    PROVE  find_successor(Local, successors_, fingers, did).peer \in successors_ \cup {Local}
<1>1. successors_ \in SUBSET Did /\ successors_ \in SUBSET Peers
  BY Constants DEF Inv, RingOK
<1>2. successor_head(Local, successors_) \in successors_ \cup {None}
  BY <1>1, Constants, HeadType
<1> QED BY <1>2 DEF find_successor

\* A report applied to the ring writes fingers of admitted peers only.
LEMMA ApplyCommits ==
    ASSUME Inv, NEW c, Ledger(c), NEW req, req.slot \in Slot, NEW s \in Peers \cup {Local},
           c.changedAt = convergence.changedAt,
           c.attempt.epoch = convergence.attempt.epoch \/ overtaken = {},
           LET r == apply_result(Local, c, fingers, req, s)
           IN  Commit(successors_, r.fingers, r.c, pending)
    PROVE  /\ RingOK' /\ successors_' = successors_
           /\ \A i \in Slot : fingers'[i] \in {fingers[i], None} \cup ({s} \ {Local})
<1> DEFINE r == apply_result(Local, c, fingers, req, s)
<1>1. Table(fingers) /\ Ledger(convergence) /\ successors_ \in SUBSET Peers
  BY DEF Inv, RingOK
<1>2. /\ Updates(r.c, c)
      /\ Table(r.fingers)
      /\ \A i \in Slot : r.fingers[i] = fingers[i]
                         \/ r.fingers[i] = (IF s = Local THEN None ELSE s)
      /\ r.c.attempt.phase # "Idle" => r.fingers = fingers
  BY <1>1, ApplyResult
<1>3. Commit(successors_, r.fingers, r.c, pending)
  OBVIOUS
<1> HIDE DEF r
<1>4. Ledger(r.c)
  BY <1>2, UpdatesKeepLedger
<1>5. r.c.attempt.phase # "Idle" =>
        \A i \in Slot : r.fingers[i] # fingers[i] \/ i \in overtaken
                            => r.c.attempt.epoch < r.c.changedAt[i]
  <2> SUFFICES ASSUME r.c.attempt.phase # "Idle", NEW i \in overtaken
               PROVE  r.c.attempt.epoch < r.c.changedAt[i]
    BY <1>2
  <2>1. r.c.attempt = c.attempt /\ r.c.changedAt = convergence.changedAt
    BY <1>2, IdleType DEF Updates
  <2> QED BY <2>1 DEF Inv, RingOK
<1>6. Committable(successors_, r.fingers, r.c, pending)
  BY <1>1, <1>2, <1>4, <1>5 DEF Committable
<1>7. RingOK'
  BY <1>3, <1>6, CommitKeeps
<1>8. successors_' = successors_ /\ fingers' = r.fingers
  BY <1>3 DEF Commit
<1> QED BY <1>2, <1>7, <1>8

LEMMA FingersInv ==
    ASSUME Inv
    PROVE  /\ BeginRevalidation => Inv'
           /\ AdvanceExpired => Inv'
           /\ \A id \in Id : AdvanceIssue(id) => Inv'
           /\ \A q \in sent : /\ \A s \in Peers \cup {Local} : FingerReport(q, s) => Inv'
                              /\ CancelFinger(q) => Inv'
           /\ Tick => Inv'
<1> USE DEF Inv
<1>0. /\ LinksOK /\ References(successors_, predecessor_, fingers, Active)
      /\ Ledger(convergence) /\ Active \subseteq Peers /\ Routable \subseteq Active
  BY DEF RingOK, Active, Routable
<1>1. ASSUME NEW conv, Updates(conv, convergence), StepLedger(conv),
             UNCHANGED <<lifecycle, ready>>, queued' \in [Peers -> Option(Request)],
             sent' \in SUBSET (Query \cup Lookup), claimed' = claimed
      PROVE  Inv'
  <2>1. RingOK' /\ UNCHANGED <<successors_, predecessor_, fingers>>
    BY <1>1, UpdatedLedgerKeeps
  <2>2. LinksOK'
    BY <1>0, <1>1, <2>1 DEF LinksOK
  <2>3. Active' = Active
    BY <1>1 DEF Active
  <2> QED BY <1>0, <2>1, <2>2, <2>3 DEF References
<1>2. ASSUME BeginRevalidation PROVE Inv'
  BY <1>0, <1>1, <1>2, BeginRevalidationUpdates DEF BeginRevalidation, links, rounds, LinksOK
<1>3. ASSUME AdvanceExpired PROVE Inv'
  <2>1. convergence.attempt.request.slot \in Slot /\ convergence \in Convergence
    BY <1>0, <1>3 DEF AdvanceExpired, Expired, Ledger, Request
  <2>2. Updates(fail_attempt(convergence, fingers, convergence.attempt.request.slot), convergence)
    BY <2>1, FailAttemptUpdates
  <2> QED BY <1>0, <1>1, <1>3, <2>2 DEF AdvanceExpired, links, rounds, LinksOK
<1>4. ASSUME NEW id \in Id, AdvanceIssue(id) PROVE Inv'
  <2> DEFINE slot   == next_unverified_cyclic(convergence, first_remote_slot)
             req    == [slot |-> slot, id |-> id]
             issued == [convergence EXCEPT !.attempt = AwaitingReport(req, convergence.epoch),
                                           !.since = 0]
             answer == find_successor(Local, successors_, fingers, SlotTarget(Local, slot))
             result == apply_result(Local, issued, fingers, req, answer.peer)
  <2>1. slot \in Slot /\ convergence.attempt.phase = "Idle" /\ UNCHANGED links
    BY <1>4, NextLookupType DEF AdvanceIssue
  <2>2. overtaken = {} /\ req \in Request /\ req.slot = slot
    BY <2>1 DEF RingOK, Request
  <2>3. /\ Ledger(issued) /\ issued.epoch = convergence.epoch
        /\ issued.changedAt = convergence.changedAt /\ issued.attempt.request = req
    BY <1>0, <2>2, IssuedLedger
  <2>4. CASE answer.local
    <3>1. /\ Commit(successors_, result.fingers, result.c, pending)
          /\ UNCHANGED <<predecessor_, rounds>>
      BY <1>4, <2>4 DEF AdvanceIssue
    <3>2. answer.peer \in successors_ \cup {Local}
      BY <2>4, LocalAnswer
    <3>3. answer.peer \in Peers \cup {Local}
      BY <3>2 DEF RingOK
    <3>4. /\ RingOK' /\ successors_' = successors_
          /\ \A i \in Slot : fingers'[i] \in {fingers[i], None} \cup ({answer.peer} \ {Local})
      <4> HIDE DEF answer, issued, req, slot
      <4> QED BY <2>1, <2>2, <2>3, <3>1, <3>3, ApplyCommits
    <3>5. LinksOK'
      BY <1>0, <2>1, <3>1 DEF LinksOK, links, rounds
    <3>6. Active' = Active
      BY <2>1 DEF links, Active
    <3> HIDE DEF answer
    <3>7. References(successors_', predecessor_', fingers', Active')
      BY <1>0, <3>1, <3>2, <3>4, <3>6 DEF References
    <3> QED BY <3>4, <3>5, <3>7
  <2>5. CASE ~answer.local
    <3>1. /\ StepLedger(issued)
          /\ sent' = sent \cup {[kind |-> "finger", to |-> slot, id |-> id]}
          /\ UNCHANGED claimed
      BY <1>4, <2>5 DEF AdvanceIssue
    <3>2. RingOK' /\ UNCHANGED <<successors_, predecessor_, fingers>>
      BY <2>2, <2>3, <3>1, StepLedgerKeeps
    <3>3. LinksOK'
      BY <1>0, <2>1, <3>1, <3>2 DEF LinksOK, links, Lookup
    <3>4. Active' = Active
      BY <2>1 DEF links, Active
    <3> QED BY <1>0, <3>2, <3>3, <3>4 DEF References
  <2> QED BY <2>4, <2>5
<1>5. ASSUME NEW q \in sent, NEW s \in Peers \cup {Local}, FingerReport(q, s) PROVE Inv'
  <2> DEFINE req == [slot |-> q.to, id |-> q.id]
             r   == apply_result(Local, convergence, fingers, req, s)
  <2>1. q.kind = "finger" /\ UNCHANGED <<lifecycle, ready, rounds>>
    BY <1>5 DEF FingerReport
  <2>2. req \in Request /\ req.slot \in Slot
    BY <1>0, <2>1, SentType DEF Request
  <2>3. sent' \in SUBSET (Query \cup Lookup) /\ claimed' = claimed /\ Active' = Active
    BY <1>0, <2>1 DEF LinksOK, rounds, Active
  <2>4. CASE s = Local \/ s \in Routable
    <3>1. /\ Commit(successors_, r.fingers, r.c, pending)
          /\ UNCHANGED <<predecessor_, queued>>
      BY <1>5, <2>4 DEF FingerReport
    <3>2. /\ RingOK' /\ successors_' = successors_
          /\ \A i \in Slot : fingers'[i] \in {fingers[i], None} \cup ({s} \ {Local})
      BY <1>0, <2>2, <3>1, ApplyCommits
    <3>3. LinksOK'
      BY <1>0, <2>1, <2>3, <3>1 DEF LinksOK
    <3>4. References(successors_', predecessor_', fingers', Active')
      BY <1>0, <2>3, <2>4, <3>1, <3>2 DEF References
    <3> QED BY <3>2, <3>3, <3>4
  <2>5. CASE ~(s = Local \/ s \in Routable) /\ s \in Active
    <3>1. StepLedger(retire_result(Local, convergence, fingers, req, s)) /\ queued' = queued
      BY <1>5, <2>5 DEF FingerReport
    <3>2. Updates(retire_result(Local, convergence, fingers, req, s), convergence)
      BY <1>0, <2>2, <2>5, RetireResult
    <3> QED BY <1>0, <1>1, <2>1, <2>3, <3>1, <3>2 DEF LinksOK
  <2>6. CASE ~(s = Local \/ s \in Routable) /\ s \notin Active
    <3> DEFINE d == defer_result(Local, convergence, fingers, req, s)
    <3>1. /\ StepLedger(d)
          /\ queued' = queued \/ queued' = [queued EXCEPT ![s] = req]
      BY <1>5, <2>6 DEF FingerReport
    <3>2. s \in Peers
      BY <2>6
    <3>3. Ledger(d) /\ DeferKeepsDate(convergence, d)
      BY <1>0, <2>2, <3>2, DeferResult
    <3> HIDE DEF d
    <3>4. RingOK' /\ UNCHANGED <<successors_, predecessor_, fingers>>
      BY <3>1, <3>3, StepLedgerKeeps DEF RingOK, DeferKeepsDate
    <3>5. LinksOK'
      BY <1>0, <2>1, <2>2, <2>3, <3>1, <3>4 DEF LinksOK, Option
    <3> QED BY <1>0, <2>3, <3>4, <3>5 DEF References
  <2> QED BY <2>4, <2>5, <2>6
<1>6. ASSUME NEW q \in sent, CancelFinger(q) PROVE Inv'
  <2>1. Updates(cancel(convergence, fingers, [slot |-> q.to, id |-> q.id]), convergence)
    BY <1>0, CancelUpdates
  <2> QED BY <1>0, <1>1, <1>6, <2>1 DEF CancelFinger, links, rounds, LinksOK
<1>7. ASSUME Tick PROVE Inv'
  <2>1. /\ convergence' = Elapse(convergence)
        /\ UNCHANGED <<successors_, predecessor_, fingers, pending, sync, links, rounds, overtaken>>
    BY <1>7 DEF Tick
  <2>2. /\ Ledger(convergence')
        /\ convergence'.attempt.phase = convergence.attempt.phase
        /\ convergence'.attempt.epoch = convergence.attempt.epoch
        /\ convergence'.changedAt = convergence.changedAt
    BY <1>0, <2>1, ElapseLedger
  <2>3. RingOK'
    BY <2>1, <2>2 DEF RingOK, Table, Ledger, PendingTracksHead, head, SyncTracksSuccessors
  <2>4. LinksOK'
    BY <1>0, <2>1 DEF LinksOK, links, rounds
  <2>5. Active' = Active
    BY <2>1 DEF links, Active
  <2> QED BY <1>0, <2>1, <2>3, <2>4, <2>5 DEF References
<1> QED BY <1>2, <1>3, <1>4, <1>5, <1>6, <1>7

\* Losing a query.
LEMMA NetworkInv ==
    ASSUME Inv, NEW q \in sent, Forget(q)
    PROVE  Inv'
<1>1. UNCHANGED <<successors_, predecessor_, fingers, convergence, pending, sync, overtaken>>
      /\ UNCHANGED <<lifecycle, ready, queued>>
  BY DEF Forget, topology, links
<1>2. RingOK'
  BY <1>1, RingUnchanged
<1>3. LinksOK'
  BY <1>1 DEF Inv, LinksOK, Forget
<1>4. Active' = Active
  BY <1>1 DEF Active
<1> QED BY <1>1, <1>2, <1>3, <1>4 DEF Inv, References

LEMMA StepInv == Inv /\ [Next]_vars => Inv'
<1> SUFFICES ASSUME Inv, [Next]_vars PROVE Inv'
  OBVIOUS
<1>1. CASE Connections
  <2>1. PICK p \in Peers :
            \/ Reserve(p) \/ TransportChange(p) \/ AdmitPending(p)
            \/ \E next \in {"absent", "pending"} : ReleasePending(p, next)
            \/ JoinRoutable(p) \/ Disconnect(p) \/ DisconnectUnavailable(p)
            \/ EvictUnreferenced(p) \/ PruneDisconnected(p)
    BY <1>1 DEF Connections
  <2> QED BY <2>1, ConnectionsInv
<1>2. CASE Stabilization
  BY <1>2, StabilizationInv DEF Stabilization
<1>3. CASE Synchronization
  BY <1>3, SynchronizationInv DEF Synchronization
<1>4. CASE Fingers
  BY <1>4, FingersInv DEF Fingers
<1>5. CASE Network
  BY <1>5, NetworkInv DEF Network
<1>6. CASE UNCHANGED vars
  <2>1. UNCHANGED <<successors_, predecessor_, fingers, convergence, pending, sync, overtaken>>
        /\ UNCHANGED <<lifecycle, ready, queued, sent, claimed>>
    BY <1>6 DEF vars, topology, links, rounds
  <2>2. RingOK'
    BY <2>1, RingUnchanged
  <2>3. LinksOK'
    BY <2>1 DEF Inv, LinksOK
  <2>4. Active' = Active
    BY <2>1 DEF Active
  <2> QED BY <2>1, <2>2, <2>3, <2>4 DEF Inv, References
<1> QED BY <1>1, <1>2, <1>3, <1>4, <1>5, <1>6 DEF Next

LEMMA Invariance == Spec => []Inv
BY InitInv, StepInv, PTL DEF Spec

-----------------------------------------------------------------------------
(* The theorems. *)

\* Every reachable ring state of a node is well typed.
THEOREM TypeCorrect == Spec => []TypeOK
<1>1. Inv => TypeOK
  BY InvImplies
<1> QED BY <1>1, Invariance, PTL

\* A retired peer never stays, or gets back, in the routing state: at any
\* time every successor, predecessor and finger is an admitted connection.
THEOREM RetiredStaysOut == Spec => []ReferencesAdmitted
<1>1. Inv => ReferencesAdmitted
  BY InvImplies
<1> QED BY <1>1, Invariance, PTL

\* No finger is nearer than the offset of its slot.
THEOREM FingersNeverWrap == Spec => []FingersReachSlot
<1>1. Inv => FingersReachSlot
  BY InvImplies
<1> QED BY <1>1, Invariance, PTL

\* A live stabilization token names the current successor head.
THEOREM TokenFollowsHead == Spec => []PendingTracksHead
<1>1. Inv => PendingTracksHead
  BY InvImplies
<1> QED BY <1>1, Invariance, PTL

\* A live successor-sync token belongs to a current successor.
THEOREM TokensFollowSuccessors == Spec => []SyncTracksSuccessors
<1>1. Inv => SyncTracksSuccessors
  BY InvImplies
<1> QED BY <1>1, Invariance, PTL

\* The slot a live lookup was issued for is unchanged since the lookup began.
THEOREM AttemptStaysCurrent == Spec => []AttemptIsCurrent
<1>1. Inv => AttemptIsCurrent
  BY InvImplies
<1> QED BY <1>1, Invariance, PTL

\* Every lookup this node forwards makes clockwise progress toward its target
\* without passing it, in every reachable state.
THEOREM ForwardingProgress == Spec => []RoutesClockwise
<1>1. Inv => RoutesClockwise
  <2> SUFFICES ASSUME Inv, NEW did \in Did,
                      ~find_successor(Local, successors_, fingers, did).local
               PROVE  LET hop == find_successor(Local, successors_, fingers, did)
                      IN  hop.peer \in Peers /\ dist(Local, hop.peer) < dist(Local, did)
    BY DEF RoutesClockwise
  <2>1. successors_ \in SUBSET Peers /\ fingers \in [Slot -> Option(Peers)]
    BY DEF Inv, RingOK, Table
  <2>2. successors_ \in SUBSET Did /\ fingers \in [Slot -> Did \cup {None}]
    BY <2>1, Constants DEF Option
  <2>3. (successors_ \cup {fingers[i] : i \in Slot}) \ {None, Local} \subseteq Peers
    BY <2>1 DEF Option
  <2> QED BY <2>2, <2>3, Constants, RoutingProgress
<1> QED BY <1>1, Invariance, PTL

\* Applying a report leaves the proof state of an overtaken slot alone.
LEMMA OvertakenUnproved ==
    ASSUME Inv, NEW req, req.slot \in Slot, NEW s \in Peers \cup {Local},
           NEW i \in overtaken,
           apply_result(Local, convergence, fingers, req, s).c.verified[i]
    PROVE  convergence.verified[i]
<1> DEFINE c == convergence
           verdict == validated_proof(Local, c, req, s)
           end     == ProofEnd(Local, c, req, s)
           written == {k \in req.slot .. end : Admits(c, k)}
           r       == apply_result(Local, c, fingers, req, s)
<1>1. /\ c \in Convergence /\ Ledger(c) /\ i \in Slot
      /\ c.attempt.phase # "Idle" /\ c.attempt.epoch < c.changedAt[i]
  BY DEF Inv, RingOK, Ledger
<1>2. CASE verdict # "Valid"
  <2>1. r.c = retire_rejected_current(c, fingers, req, s, verdict)
    BY <1>2 DEF apply_result
  <2>2. r.c.verified = c.verified
    <3> HIDE DEF c, verdict, r
    <3> QED BY <1>1, <2>1 DEF retire_rejected_current, fail_attempt, RecordFailure, Convergence
  <2> QED BY <2>2
<1>3. CASE verdict = "Valid"
  <2> DEFINE v == [k \in Slot |-> k \in written \/ c.verified[k]]
             d == [c EXCEPT !.attempt = Idle, !.verified = v, !.cursor = end + 1]
  <2>1. r.c = RecordProgress(d)
    BY <1>3 DEF apply_result
  <2>2. r.c.verified = v
    <3> HIDE DEF c, v, end, r
    <3> QED BY <1>1, <2>1 DEF RecordProgress, Convergence
  <2>3. i \notin written
    <3>1. c.changedAt[i] \in Int /\ c.attempt.epoch \in Int
      BY <1>1 DEF Convergence, Attempt
    <3> QED BY <1>1, <3>1 DEF Admits
  <2> QED BY <1>1, <2>2, <2>3
<1> QED BY <1>2, <1>3

\* A lookup answer proves no slot whose hint was replaced while it travelled
\* or waited for its successor's handshake.
THEOREM NoStaleProof == Spec => NoOvertakenProof
<1>1. ASSUME Inv, NEW p \in Peers, AdmitPending(p), NEW i \in overtaken,
             convergence'.verified[i]
      PROVE  convergence.verified[i]
  <2> DEFINE proof   == queued[p]
             applied == IF proof = None THEN [c |-> convergence, fingers |-> fingers]
                        ELSE apply_result(Local, convergence, fingers, proof, p)
             joined  == finger_join(Local, applied.fingers, {p})
  <2>1. convergence' = rehint(applied.c, applied.fingers, joined)
    BY <1>1 DEF AdmitPending, StepAdmit, Commit
  <2>2. Ledger(applied.c)
    <3>1. Ledger(convergence) /\ Table(fingers) /\ proof \in Option(Request)
      BY <1>1 DEF Inv, RingOK, LinksOK
    <3>2. CASE proof = None
      BY <3>1, <3>2
    <3>3. CASE proof # None
      <4>1. proof.slot \in Slot
        BY <3>1, <3>3 DEF Option, Request
      <4>2. Updates(apply_result(Local, convergence, fingers, proof, p).c, convergence)
        BY <3>1, <4>1, ApplyResult
      <4> QED BY <3>1, <3>3, <4>2, UpdatesKeepLedger
    <3> QED BY <3>2, <3>3
  <2>3. i \in Slot
    BY <1>1 DEF Inv, RingOK
  <2>4. applied.c.verified[i]
    <3> DEFINE a == applied.c
               b == applied.fingers
    <3> HIDE DEF applied, joined
    <3>1. rehint(a, b, joined).verified[i] => a.verified[i]
      BY <2>2, <2>3 DEF rehint, invalidate_hint_changes, Ledger, Convergence
    <3> QED BY <1>1, <2>1, <3>1
  <2>5. CASE proof = None
    BY <2>4, <2>5
  <2>6. CASE proof # None
    <3>1. proof.slot \in Slot
      BY <1>1, <2>6 DEF Inv, LinksOK, Option, Request
    <3> QED BY <1>1, <2>4, <2>6, <3>1, OvertakenUnproved
  <2> QED BY <2>5, <2>6
<1>2. ASSUME Inv, NEW q \in sent, NEW s \in Peers \cup {Local}, FingerReport(q, s),
             NEW i \in overtaken, convergence'.verified[i]
      PROVE  convergence.verified[i]
  <2> DEFINE req == [slot |-> q.to, id |-> q.id]
  <2>1. req.slot \in Slot /\ i \in Slot /\ Ledger(convergence) /\ convergence \in Convergence
    BY <1>2, SentType DEF FingerReport, Inv, RingOK, Ledger
  <2>2. CASE s = Local \/ s \in Routable
    <3>1. convergence' = apply_result(Local, convergence, fingers, req, s).c
      BY <1>2, <2>2 DEF FingerReport, Commit
    <3> QED BY <1>2, <2>1, <3>1, OvertakenUnproved
  <2>3. CASE ~(s = Local \/ s \in Routable)
    <3>1. \/ convergence' = retire_result(Local, convergence, fingers, req, s)
          \/ convergence' = defer_result(Local, convergence, fingers, req, s)
      BY <1>2, <2>3 DEF FingerReport, StepLedger, Commit
    <3>2. convergence'.verified = convergence.verified
      <4> HIDE DEF req
      <4> QED BY <2>1, <3>1
          DEF retire_result, defer_result, retire_rejected_current, fail_attempt,
              RecordFailure, Convergence
    <3> QED BY <1>2, <3>2
  <2> QED BY <2>2, <2>3
<1>3. Inv /\ [Next]_vars =>
        [\A i \in overtaken : convergence'.verified[i] /\ ~convergence.verified[i] =>
            /\ \A p \in Peers : ~AdmitPending(p)
            /\ \A q \in sent, s \in Peers \cup {Local} : ~FingerReport(q, s)]_vars
  BY <1>1, <1>2
<1> QED BY <1>3, Invariance, PTL DEF Spec, NoOvertakenProof

-----------------------------------------------------------------------------
(* Report rounds are claimed once. *)

\* Tokens carry different identities, an unclaimed token's identity is on no
\* report claimed so far, and a claimed identity is still on a sent query.
Fresh ==
    /\ claimed \subseteq {q.id : q \in sent}
    /\ pending # None /\ pending.phase = "Requested" => pending.id \notin claimed
    /\ \A p \in Peers : sync[p] # None =>
            /\ sync[p].phase = "Requested" => sync[p].id \notin claimed
            /\ pending # None => pending.id # sync[p].id
            /\ \A r \in Peers \ {p} : sync[r] # None => sync[r].id # sync[p].id

\* A step that at most drops tokens and sends queries.
DropsTokens ==
    /\ pending' \in {pending, None}
    /\ \A p \in Peers : sync'[p] \in {sync[p], None}
    /\ claimed' = claimed
    /\ sent \subseteq sent'

LEMMA DroppingKeepsFresh ==
    ASSUME Fresh, DropsTokens
    PROVE  Fresh'
<1>1. (claimed \subseteq {q.id : q \in sent})'
  BY DEF Fresh, DropsTokens
<1>2. (pending # None /\ pending.phase = "Requested" => pending.id \notin claimed)'
  BY DEF Fresh, DropsTokens
<1>3. ASSUME NEW p \in Peers, sync'[p] # None
      PROVE  /\ sync'[p].phase = "Requested" => sync'[p].id \notin claimed'
             /\ pending' # None => pending'.id # sync'[p].id
             /\ \A r \in Peers \ {p} : sync'[r] # None => sync'[r].id # sync'[p].id
  BY <1>3 DEF Fresh, DropsTokens
<1> QED BY <1>1, <1>2, <1>3 DEF Fresh

\* A committed transition drops tokens at most.
LEMMA CommitDropsTokens ==
    ASSUME Inv, NEW succ, NEW fing, NEW conv, NEW pend, pend \in {pending, None},
           Commit(succ, fing, conv, pend), claimed' = claimed, sent \subseteq sent'
    PROVE  DropsTokens
BY DEF Inv, RingOK, Commit, DropsTokens

\* An identity outside InUse is on no query and no token.
LEMMA UnusedIsNew ==
    ASSUME Inv, NEW id, id \notin InUse
    PROVE  /\ \A q \in sent : q.id # id
           /\ pending # None => pending.id # id
           /\ \A p \in Peers : sync[p] # None => sync[p].id # id
BY DEF InUse

LEMMA ConnectionsFresh ==
    ASSUME Inv, NEW p \in Peers,
           \/ Reserve(p) \/ TransportChange(p) \/ AdmitPending(p)
           \/ \E next \in {"absent", "pending"} : ReleasePending(p, next)
           \/ JoinRoutable(p) \/ Disconnect(p) \/ DisconnectUnavailable(p)
           \/ EvictUnreferenced(p) \/ PruneDisconnected(p)
    PROVE  DropsTokens
<1>1. ASSUME UNCHANGED <<topology, sync, rounds>> PROVE DropsTokens
  BY <1>1 DEF topology, rounds, DropsTokens
<1>2. ASSUME NEW proof, StepAdmit(p, proof), UNCHANGED rounds PROVE DropsTokens
  BY <1>2, CommitDropsTokens DEF StepAdmit, rounds
<1>3. ASSUME NEW replacement, StepRemove(p, replacement), UNCHANGED rounds PROVE DropsTokens
  BY <1>3, CommitDropsTokens DEF StepRemove, rounds
<1>4. ASSUME NEW conv, StepLedger(conv), UNCHANGED rounds PROVE DropsTokens
  BY <1>4, CommitDropsTokens DEF StepLedger, rounds
<1>5. CASE Reserve(p) \/ TransportChange(p)
  BY <1>1, <1>5 DEF Reserve, TransportChange
<1>6. CASE AdmitPending(p) \/ JoinRoutable(p)
  BY <1>2, <1>6 DEF AdmitPending, JoinRoutable
<1>7. CASE \E next \in {"absent", "pending"} : ReleasePending(p, next)
  BY <1>1, <1>4, <1>7 DEF ReleasePending
<1>8. CASE Disconnect(p) \/ DisconnectUnavailable(p) \/ EvictUnreferenced(p)
  BY <1>3, <1>8 DEF Disconnect, DisconnectUnavailable, EvictUnreferenced, Retire
<1>9. CASE PruneDisconnected(p)
  BY <1>3, <1>9 DEF PruneDisconnected
<1> QED BY <1>5, <1>6, <1>7, <1>8, <1>9

LEMMA FingersFresh ==
    ASSUME Inv, Fingers
    PROVE  DropsTokens
<1>1. ASSUME NEW conv, StepLedger(conv), claimed' = claimed, sent \subseteq sent'
      PROVE  DropsTokens
  BY <1>1, CommitDropsTokens DEF StepLedger
<1>2. CASE BeginRevalidation \/ AdvanceExpired \/ \E q \in sent : CancelFinger(q)
  BY <1>1, <1>2 DEF BeginRevalidation, AdvanceExpired, CancelFinger, rounds
<1>3. ASSUME NEW id \in Id, AdvanceIssue(id) PROVE DropsTokens
  BY <1>1, <1>3, CommitDropsTokens DEF AdvanceIssue, rounds
<1>4. ASSUME NEW q \in sent, NEW s \in Peers \cup {Local}, FingerReport(q, s)
      PROVE  DropsTokens
  BY <1>1, <1>4, CommitDropsTokens DEF FingerReport, rounds
<1>5. CASE Tick
  BY <1>5 DEF Tick, rounds, DropsTokens
<1> QED BY <1>2, <1>3, <1>4, <1>5 DEF Fingers

LEMMA StabilizationFresh ==
    ASSUME Inv, Fresh, Stabilization
    PROVE  Fresh'
<1>1. ASSUME NEW p \in Peers, Notify(p) PROVE Fresh'
  BY <1>1, DroppingKeepsFresh DEF Notify, rounds, DropsTokens
<1>2. ASSUME NEW id \in Id, BeginStabilize(id) PROVE Fresh'
  <2>1. /\ pending' = [reporter |-> head, id |-> id, phase |-> "Requested"]
        /\ sent \subseteq sent' /\ UNCHANGED <<sync, claimed>>
    BY <1>2 DEF BeginStabilize
  <2>2. /\ \A q \in sent : q.id # id
        /\ \A p \in Peers : sync[p] # None => sync[p].id # id
    BY <1>2, UnusedIsNew DEF BeginStabilize
  <2>3. pending'.id = id /\ id \notin claimed
    BY <2>1, <2>2 DEF Fresh
  <2> QED BY <2>1, <2>2, <2>3 DEF Fresh
<1>3. ASSUME NEW q \in sent, ClaimStabilize(q) PROVE Fresh'
  <2>1. /\ pending = [reporter |-> q.to, id |-> q.id, phase |-> "Requested"]
        /\ pending' = [pending EXCEPT !.phase = "Processing"]
        /\ claimed' = claimed \cup {q.id} /\ UNCHANGED <<sync, sent>>
        /\ q.kind = "stabilize"
    BY <1>3 DEF ClaimStabilize
  <2>2. pending \in Token
    BY <2>1, SentType DEF Inv, Token
  <2>3. pending # None /\ pending.id = q.id
    BY <2>1, <2>2, TokensAssumption
  <2>4. pending'.id = q.id /\ pending'.phase = "Processing"
    BY <2>1, <2>2 DEF Token
  <2> QED BY <2>1, <2>3, <2>4 DEF Fresh
<1>4. ASSUME NEW q \in sent, CancelStabilize(q) PROVE Fresh'
  BY <1>4, DroppingKeepsFresh DEF CancelStabilize, rounds, DropsTokens
<1>5. ASSUME NEW q \in sent, NEW reported \in SUBSET Peers,
             NEW pred \in Peers \cup {Local, None}, Stabilize(q, reported, pred)
      PROVE  Fresh'
  BY <1>5, CommitDropsTokens, DroppingKeepsFresh DEF Stabilize, rounds
<1> QED BY <1>1, <1>2, <1>3, <1>4, <1>5 DEF Stabilization

LEMMA SynchronizationFresh ==
    ASSUME Inv, Fresh, Synchronization
    PROVE  Fresh'
<1>0. sync \in [Peers -> Option(SyncToken)] /\ LinksOK
  BY DEF Inv, RingOK
<1>1. ASSUME NEW p \in Peers, NEW id \in Id, BeginSync(p, id) PROVE Fresh'
  <2>1. /\ sync' = [sync EXCEPT ![p] = [id |-> id, phase |-> "Requested"]]
        /\ sent \subseteq sent' /\ UNCHANGED <<pending, claimed>>
    BY <1>1 DEF BeginSync, topology
  <2>2. /\ \A q \in sent : q.id # id
        /\ pending # None => pending.id # id
        /\ \A r \in Peers : sync[r] # None => sync[r].id # id
    BY <1>1, UnusedIsNew DEF BeginSync
  <2>3. sync'[p].id = id /\ id \notin claimed /\ \A r \in Peers \ {p} : sync'[r] = sync[r]
    BY <1>0, <2>1, <2>2 DEF Fresh
  <2>4. (claimed \subseteq {q.id : q \in sent})'
    BY <2>1 DEF Fresh
  <2> QED BY <2>1, <2>2, <2>3, <2>4 DEF Fresh
<1>2. ASSUME NEW q \in sent, ClaimSync(q) PROVE Fresh'
  <2>1. /\ sync[q.to] = [id |-> q.id, phase |-> "Requested"]
        /\ sync' = [sync EXCEPT ![q.to].phase = "Processing"]
        /\ claimed' = claimed \cup {q.id} /\ UNCHANGED <<pending, sent>>
        /\ q.kind = "sync"
    BY <1>2 DEF ClaimSync, topology
  <2>2. q.to \in Peers /\ q.id \in Id
    BY <1>0, <2>1, SentType
  <2>3. sync[q.to] # None
    BY <2>1, <2>2, TokensAssumption DEF SyncToken
  <2>4. /\ sync'[q.to].id = q.id /\ sync'[q.to].phase = "Processing"
        /\ \A r \in Peers \ {q.to} : sync'[r] = sync[r]
    BY <1>0, <2>1, <2>2
  <2>5. (claimed \subseteq {r.id : r \in sent})'
    BY <2>1 DEF Fresh
  <2>6. (pending # None /\ pending.phase = "Requested" => pending.id \notin claimed)'
    BY <2>1, <2>2, <2>3 DEF Fresh
  <2>7. ASSUME NEW p \in Peers, sync'[p] # None
        PROVE  /\ sync'[p].phase = "Requested" => sync'[p].id \notin claimed'
               /\ pending' # None => pending'.id # sync'[p].id
               /\ \A r \in Peers \ {p} : sync'[r] # None => sync'[r].id # sync'[p].id
    <3>1. sync[p] # None /\ sync'[p].id = sync[p].id
      BY <2>1, <2>2, <2>3, <2>4, <2>7
    <3>2. \A r \in Peers : sync'[r] # None => sync[r] # None /\ sync'[r].id = sync[r].id
      BY <2>1, <2>2, <2>3, <2>4
    <3>3. p # q.to => sync[p].id # q.id /\ sync'[p] = sync[p]
      BY <2>1, <2>2, <2>3, <2>4, <3>1 DEF Fresh
    <3> QED BY <2>1, <2>4, <3>1, <3>2, <3>3 DEF Fresh
  <2> QED BY <2>5, <2>6, <2>7 DEF Fresh
<1>3. ASSUME NEW q \in sent, CancelSync(q) PROVE Fresh'
  BY <1>0, <1>3, DroppingKeepsFresh DEF CancelSync, rounds, topology, DropsTokens
<1> QED BY <1>1, <1>2, <1>3 DEF Synchronization

LEMMA StepFresh == Inv /\ Fresh /\ [Next]_vars => Fresh'
<1> SUFFICES ASSUME Inv, Fresh, [Next]_vars PROVE Fresh'
  OBVIOUS
<1>1. CASE Connections
  BY <1>1, ConnectionsFresh, DroppingKeepsFresh DEF Connections
<1>2. CASE Fingers
  BY <1>2, FingersFresh, DroppingKeepsFresh
<1>3. CASE Network
  <2>1. PICK q \in sent : /\ sent' = sent \ {q} /\ claimed' = claimed \ {q.id}
                          /\ UNCHANGED <<pending, sync>>
    BY <1>3 DEF Network, Forget, topology
  <2>2. (claimed \subseteq {r.id : r \in sent})'
    BY <2>1 DEF Fresh
  <2> QED BY <2>1, <2>2 DEF Fresh
<1>4. CASE UNCHANGED vars
  BY <1>4, DroppingKeepsFresh DEF vars, topology, rounds, DropsTokens
<1> QED BY <1>1, <1>2, <1>3, <1>4, StabilizationFresh, SynchronizationFresh DEF Next

\* Of the copies of a stabilization or successor-sync report, however late
\* they arrive, at most one claims its round: no round becomes claimable again.
THEOREM ClaimedOnce == Spec => ReportClaimedOnce
<1>1. Init => Fresh
  BY DEF Init, Fresh
<1>2. Inv /\ Fresh /\ [Next]_vars =>
        [\A q \in sent : q.id \in claimed => ~ClaimStabilize(q) /\ ~ClaimSync(q)]_vars
  <2> SUFFICES ASSUME Inv, Fresh, NEW q \in sent, q.id \in claimed
               PROVE  ~ClaimStabilize(q) /\ ~ClaimSync(q)
    OBVIOUS
  <2>1. q.id \in Id /\ (q.kind \in {"stabilize", "sync"} => q.to \in Peers)
    BY SentType DEF Inv
  <2>2. ASSUME ClaimStabilize(q) PROVE FALSE
    <3>1. pending = [reporter |-> q.to, id |-> q.id, phase |-> "Requested"] /\ q.to \in Peers
      BY <2>1, <2>2 DEF ClaimStabilize
    <3>2. pending # None
      BY <2>1, <3>1, TokensAssumption DEF Token
    <3> QED BY <3>1, <3>2 DEF Fresh
  <2>3. ASSUME ClaimSync(q) PROVE FALSE
    <3>1. sync[q.to] = [id |-> q.id, phase |-> "Requested"] /\ q.to \in Peers
      BY <2>1, <2>3 DEF ClaimSync
    <3>2. sync[q.to] # None
      BY <2>1, <3>1, TokensAssumption DEF SyncToken
    <3> QED BY <3>1, <3>2 DEF Fresh
  <2> QED BY <2>2, <2>3
<1> QED BY <1>1, <1>2, StepFresh, Invariance, PTL DEF Spec, ReportClaimedOnce

-----------------------------------------------------------------------------
(* Evicting an unreferenced connection. *)

\* A ledger that holds no proof and no attempt.
Bare(c) == c.attempt.phase = "Idle" /\ \A i \in Slot : ~c.verified[i]

\* A node without a successor holds no evidence.  (With capacity zero the
\* list is always empty; with any other a selection from some peers is not.)
EvidenceNeedsSuccessor ==
    /\ successors_ = {} => Bare(convergence)
    /\ successors_ # {} => Capacity # 0

\* A selection is empty exactly when nothing is offered or nothing fits.
LEMMA SelectionEmpty ==
    ASSUME NEW S, S \subseteq Peers \cup {Local}
    PROVE  sorted_successors(Local, S) = {} <=> S \ {Local} = {} \/ Capacity = 0
<1> DEFINE remote    == S \ {Local}
           nearer(p) == {q \in remote : dist(Local, q) < dist(Local, p)}
<1>1. sorted_successors(Local, S) = {p \in remote : Cardinality(nearer(p)) < Capacity}
  BY DEF sorted_successors
<1>2. remote \in SUBSET Did /\ Capacity \in Nat
  BY Constants, GeometryAssumption
<1>3. ASSUME remote # {}, Capacity # 0 PROVE sorted_successors(Local, S) # {}
  <2> DEFINE n == Nearest(Local, remote)
  <2>1. n \in remote /\ \A q \in remote : dist(Local, n) <= dist(Local, q)
    BY <1>2, <1>3, Constants, NearestIsLeast
  <2> HIDE DEF n
  <2>2. \A q \in remote : dist(Local, q) \in Nat
    BY <1>2, Constants, DistType
  <2>3. nearer(n) = {}
    BY <2>1, <2>2
  <2>4. Cardinality(nearer(n)) < Capacity
    BY <1>2, <1>3, <2>3, FS_EmptySet
  <2> QED BY <1>1, <2>1, <2>4
<1>4. ASSUME Capacity = 0 PROVE sorted_successors(Local, S) = {}
  <2>1. IsFiniteSet(Did)
    BY RingSizeType, FS_Interval DEF Did
  <2>2. ASSUME NEW p \in remote PROVE Cardinality(nearer(p)) \in Nat
    <3>1. nearer(p) \in SUBSET Did
      BY <1>2
    <3> HIDE DEF nearer
    <3> QED BY <2>1, <3>1, FS_Subset, FS_CardinalityType
  <2> HIDE DEF nearer, remote
  <2> QED BY <1>1, <1>4, <2>2
<1>5. remote = {} => sorted_successors(Local, S) = {}
  BY <1>1
<1> QED BY <1>3, <1>4, <1>5

\* The head is None exactly for the empty list.
LEMMA HeadOfList == Inv => (head = None <=> successors_ = {})
<1> SUFFICES ASSUME Inv PROVE head = None <=> successors_ = {}
  OBVIOUS
<1>1. successors_ \in SUBSET Peers /\ successors_ \in SUBSET Did
  BY Constants DEF Inv, RingOK
<1> QED BY <1>1, Constants, HeadType DEF head

\* The ledger operators bring no evidence into a bare ledger: a result needs
\* the attempt it answers.
LEMMA BareResults ==
    ASSUME NEW c, Bare(c), NEW f, NEW req, NEW s
    PROVE  /\ apply_result(Local, c, f, req, s).c = c
           /\ defer_result(Local, c, f, req, s) = c
           /\ retire_result(Local, c, f, req, s) = c
           /\ cancel(c, f, req) = c
<1>1. ~can_consume(c, req, s) /\ ~Owns(c, req)
  BY DEF Bare, can_consume, Owns
<1>2. validated_proof(Local, c, req, s) = "Stale"
  BY <1>1 DEF validated_proof
<1>3. \A verdict : retire_rejected_current(c, f, req, s, verdict) = c
  BY <1>1 DEF retire_rejected_current
<1> QED BY <1>1, <1>2, <1>3 DEF apply_result, defer_result, retire_result, cancel

LEMMA BareUpdates ==
    ASSUME NEW c, Ledger(c), Bare(c)
    PROVE  /\ \A before, after : Bare(rehint(c, before, after))
           /\ \A f, first : Bare(begin_revalidation(c, f, first))
           /\ Bare(Elapse(c))
<1>1. c \in Convergence /\ c.attempt.phase = "Idle" /\ \A i \in Slot : ~c.verified[i]
  BY DEF Ledger, Bare
<1>2. ASSUME NEW before, NEW after PROVE Bare(rehint(c, before, after))
  <2> DEFINE d == rehint(c, before, after)
  <2>1. d.attempt \in {Idle, c.attempt}
    BY HintChanges
  <2>2. \A i \in Slot : d.verified[i] => c.verified[i]
    BY <1>1 DEF rehint, invalidate_hint_changes, Convergence
  <2> HIDE DEF d
  <2>3. Bare(d)
    BY <1>1, <2>1, <2>2, IdleType DEF Bare
  <2> QED BY <2>3 DEF d
<1>3. ASSUME NEW f, NEW first PROVE Bare(begin_revalidation(c, f, first))
  BY <1>1 DEF begin_revalidation, Bare, Convergence
<1>4. Bare(Elapse(c))
  <2>1. Elapse(c).attempt.phase = c.attempt.phase
    BY ElapseLedger
  <2>2. Elapse(c).verified = c.verified
    BY <1>1 DEF Elapse, Convergence
  <2> QED BY <1>1, <2>1, <2>2 DEF Bare
<1> QED BY <1>2, <1>3, <1>4

LEMMA AdmitEvidence ==
    ASSUME Inv, EvidenceNeedsSuccessor, NEW p \in Peers, NEW proof, StepAdmit(p, proof)
    PROVE  EvidenceNeedsSuccessor'
<1> DEFINE applied == IF proof = None THEN [c |-> convergence, fingers |-> fingers]
                      ELSE apply_result(Local, convergence, fingers, proof, p)
           joined  == finger_join(Local, applied.fingers, {p})
           succ    == sorted_successors(Local, successors_ \cup {p})
<1>1. successors_' = succ /\ convergence' = rehint(applied.c, applied.fingers, joined)
  BY DEF StepAdmit, Commit
<1>2. Ledger(convergence) /\ successors_ \in SUBSET Peers /\ p # Local
  BY Constants DEF Inv, RingOK
<1>3. succ = {} <=> Capacity = 0
  <2>1. successors_ \cup {p} \subseteq Peers \cup {Local} /\ (successors_ \cup {p}) \ {Local} # {}
    BY <1>2
  <2> QED BY <2>1, SelectionEmpty
<1>4. successors_ = {} => Bare(convergence')
  <2> SUFFICES ASSUME Bare(convergence) PROVE Bare(convergence')
    BY DEF EvidenceNeedsSuccessor
  <2>1. applied.c = convergence
    BY BareResults
  <2> HIDE DEF applied, joined
  <2> QED BY <1>1, <1>2, <2>1, BareUpdates
<1> HIDE DEF succ
<1>5. /\ successors_' = {} => Bare(convergence')
      /\ successors_' # {} => Capacity # 0
  BY <1>1, <1>3, <1>4 DEF EvidenceNeedsSuccessor
<1> QED BY <1>5 DEF EvidenceNeedsSuccessor, Bare

LEMMA RemoveEvidence ==
    ASSUME Inv, EvidenceNeedsSuccessor, NEW p \in Peers, NEW replacement,
           replacement = None \/ replacement \in SUBSET Peers,
           StepRemove(p, replacement)
    PROVE  EvidenceNeedsSuccessor'
<1> DEFINE kept == IF p = head /\ replacement # None
                   THEN sorted_successors(Local, replacement \ {p})
                   ELSE successors_ \ {p}
           conv == rehint(convergence, fingers, remove_finger_peer(fingers, p))
           last == IF kept = {} THEN invalidate_all_evidence(conv) ELSE conv
<1>1. successors_' = kept /\ convergence' = last
  BY DEF StepRemove, Commit
<1>2. kept # {} => Capacity # 0
  <2>1. CASE p = head /\ replacement # None
    <3>1. replacement \ {p} \subseteq Peers \cup {Local}
      BY <2>1
    <3> QED BY <2>1, <3>1, SelectionEmpty
  <2>2. CASE ~(p = head /\ replacement # None)
    BY <2>2 DEF EvidenceNeedsSuccessor
  <2> QED BY <2>1, <2>2
<1>3. Bare(invalidate_all_evidence(conv))
  <2>1. Ledger(conv)
    BY HintChanges DEF Inv, RingOK
  <2> HIDE DEF conv
  <2>2. conv \in Convergence
    BY <2>1 DEF Ledger
  <2> QED BY <2>2, IdleType DEF invalidate_all_evidence, Bare, Convergence
<1> HIDE DEF kept, conv
<1>4. /\ successors_' = {} => Bare(convergence')
      /\ successors_' # {} => Capacity # 0
  BY <1>1, <1>2, <1>3
<1> QED BY <1>4 DEF EvidenceNeedsSuccessor, Bare

\* The list stays and, without a successor, so does the lack of evidence.
LEMMA LedgerEvidence ==
    ASSUME EvidenceNeedsSuccessor, successors_' = successors_,
           successors_ = {} /\ Bare(convergence) => Bare(convergence')
    PROVE  EvidenceNeedsSuccessor'
<1>1. /\ successors_' = {} => Bare(convergence')
      /\ successors_' # {} => Capacity # 0
  BY DEF EvidenceNeedsSuccessor
<1> QED BY <1>1 DEF EvidenceNeedsSuccessor, Bare

LEMMA ConnectionsEvidence ==
    ASSUME Inv, EvidenceNeedsSuccessor, NEW p \in Peers,
           \/ Reserve(p) \/ TransportChange(p) \/ AdmitPending(p)
           \/ \E next \in {"absent", "pending"} : ReleasePending(p, next)
           \/ JoinRoutable(p) \/ Disconnect(p) \/ DisconnectUnavailable(p)
           \/ EvictUnreferenced(p) \/ PruneDisconnected(p)
    PROVE  EvidenceNeedsSuccessor'
<1>1. ASSUME UNCHANGED topology PROVE EvidenceNeedsSuccessor'
  BY <1>1, LedgerEvidence DEF topology
<1>2. CASE Reserve(p) \/ TransportChange(p)
  BY <1>1, <1>2 DEF Reserve, TransportChange
<1>3. CASE AdmitPending(p) \/ JoinRoutable(p)
  BY <1>3, AdmitEvidence DEF AdmitPending, JoinRoutable
<1>4. CASE \E next \in {"absent", "pending"} : ReleasePending(p, next)
  <2>1. \/ UNCHANGED topology
        \/ StepLedger(cancel(convergence, fingers, queued[p]))
    BY <1>4 DEF ReleasePending
  <2>2. ASSUME StepLedger(cancel(convergence, fingers, queued[p]))
        PROVE  EvidenceNeedsSuccessor'
    BY <2>2, BareResults, LedgerEvidence DEF StepLedger, Commit
  <2> QED BY <1>1, <2>1, <2>2
<1>5. LiveReplacements(p) \in SUBSET Peers
  BY SortedSuccessorsSubset DEF LiveReplacements, Routable, Active
<1>6. CASE Disconnect(p) \/ DisconnectUnavailable(p) \/ EvictUnreferenced(p)
  <2>1. StepRemove(p, None) \/ StepRemove(p, LiveReplacements(p))
    BY <1>6 DEF Disconnect, DisconnectUnavailable, EvictUnreferenced, Retire
  <2> QED BY <1>5, <2>1, RemoveEvidence
<1>7. CASE PruneDisconnected(p)
  BY <1>5, <1>7, RemoveEvidence DEF PruneDisconnected
<1> QED BY <1>2, <1>3, <1>4, <1>6, <1>7

\* A claimed report refines a list that has a head.
LEMMA StabilizeEvidence ==
    ASSUME Inv, EvidenceNeedsSuccessor, NEW q \in sent, NEW reported \in SUBSET Peers,
           NEW reportedPred \in Peers \cup {Local, None},
           Stabilize(q, reported, reportedPred)
    PROVE  EvidenceNeedsSuccessor'
<1> DEFINE confirmed == reported \cap Routable
           pred == IF reportedPred \in Routable \cup {Local} THEN reportedPred ELSE None
           known == successors_ \cup confirmed \cup ({pred} \ {None})
<1>1. /\ successors_' = sorted_successors(Local, known)
      /\ q.to \in Routable
      /\ pending = [reporter |-> q.to, id |-> q.id, phase |-> "Processing"]
  BY DEF Stabilize, Commit, stabilize_successors, successors
<1>2. q.to \in Peers /\ q.id \in Id
  BY <1>1, SentType DEF Inv, Routable, Active
<1>3. head = q.to
  <2>1. pending # None
    BY <1>1, <1>2, TokensAssumption DEF Token
  <2> QED BY <1>1, <2>1 DEF Inv, RingOK, PendingTracksHead
<1>4. successors_ # {} /\ Capacity # 0
  BY <1>2, <1>3, Constants, HeadOfList DEF EvidenceNeedsSuccessor
<1>5. known \subseteq Peers \cup {Local} /\ known \ {Local} # {}
  BY <1>4, Constants DEF Inv, RingOK, Routable, Active
<1> HIDE DEF known
<1>6. successors_' # {}
  BY <1>1, <1>4, <1>5, SelectionEmpty
<1> QED BY <1>4, <1>6 DEF EvidenceNeedsSuccessor

LEMMA FingersEvidence ==
    ASSUME Inv, EvidenceNeedsSuccessor, Fingers
    PROVE  EvidenceNeedsSuccessor'
<1>0. Ledger(convergence)
  BY DEF Inv, RingOK
<1>1. ASSUME successors_' = successors_, successors_ # {} PROVE EvidenceNeedsSuccessor'
  BY <1>1, LedgerEvidence
<1>2. CASE BeginRevalidation
  BY <1>0, <1>2, BareUpdates, LedgerEvidence DEF BeginRevalidation, StepLedger, Commit
<1>3. CASE AdvanceExpired
  BY <1>1, <1>3, HeadOfList DEF AdvanceExpired, StepLedger, Commit
<1>4. ASSUME NEW id \in Id, AdvanceIssue(id) PROVE EvidenceNeedsSuccessor'
  <2>1. head # None /\ successors_' = successors_
    BY <1>4 DEF AdvanceIssue, StepLedger, Commit
  <2> QED BY <1>1, <2>1, HeadOfList
<1>5. ASSUME NEW q \in sent, NEW s \in Peers \cup {Local}, FingerReport(q, s)
      PROVE  EvidenceNeedsSuccessor'
  <2> DEFINE req == [slot |-> q.to, id |-> q.id]
  <2>1. /\ successors_' = successors_
        /\ convergence' \in {apply_result(Local, convergence, fingers, req, s).c,
                             retire_result(Local, convergence, fingers, req, s),
                             defer_result(Local, convergence, fingers, req, s)}
    BY <1>5 DEF FingerReport, StepLedger, Commit
  <2> HIDE DEF req
  <2>2. Bare(convergence) => convergence' = convergence
    BY <2>1, BareResults
  <2> QED BY <2>1, <2>2, LedgerEvidence
<1>6. ASSUME NEW q \in sent, CancelFinger(q) PROVE EvidenceNeedsSuccessor'
  BY <1>6, BareResults, LedgerEvidence DEF CancelFinger, StepLedger, Commit
<1>7. CASE Tick
  BY <1>0, <1>7, BareUpdates, LedgerEvidence DEF Tick
<1> QED BY <1>2, <1>3, <1>4, <1>5, <1>6, <1>7 DEF Fingers

LEMMA StepEvidence == Inv /\ EvidenceNeedsSuccessor /\ [Next]_vars => EvidenceNeedsSuccessor'
<1> SUFFICES ASSUME Inv, EvidenceNeedsSuccessor, [Next]_vars
             PROVE  EvidenceNeedsSuccessor'
  OBVIOUS
<1>1. ASSUME UNCHANGED <<successors_, convergence>> PROVE EvidenceNeedsSuccessor'
  BY <1>1, LedgerEvidence
<1>2. CASE Connections
  BY <1>2, ConnectionsEvidence DEF Connections
<1>3. CASE Stabilization
  <2>1. CASE \E q \in sent, reported \in SUBSET Peers, pred \in Peers \cup {Local, None} :
                Stabilize(q, reported, pred)
    BY <2>1, StabilizeEvidence
  <2>2. CASE \/ \E p \in Peers : Notify(p)
             \/ \E id \in Id : BeginStabilize(id)
             \/ \E q \in sent : ClaimStabilize(q) \/ CancelStabilize(q)
    BY <1>1, <2>2 DEF Notify, BeginStabilize, ClaimStabilize, CancelStabilize
  <2> QED BY <1>3, <2>1, <2>2 DEF Stabilization
<1>4. CASE Synchronization
  BY <1>1, <1>4 DEF Synchronization, BeginSync, ClaimSync, CancelSync, topology
<1>5. CASE Fingers
  BY <1>5, FingersEvidence
<1>6. CASE Network
  BY <1>1, <1>6 DEF Network, Forget, topology
<1>7. CASE UNCHANGED vars
  BY <1>1, <1>7 DEF vars, topology
<1> QED BY <1>2, <1>3, <1>4, <1>5, <1>6, <1>7 DEF Next

\* Retiring a connection for capacity changes nothing of the ring, the ledger
\* or the rounds when no slot references the peer: in particular it drops no
\* evidence, because a node whose list is empty holds none.
THEOREM EvictionKeepsRing == Spec => EvictionIsIdentity
<1>1. Init => EvidenceNeedsSuccessor
  BY IdleType DEF Init, NewConvergence, EvidenceNeedsSuccessor, Bare
<1>2. ASSUME Inv, EvidenceNeedsSuccessor, NEW p \in Peers, EvictUnreferenced(p)
      PROVE  UNCHANGED <<topology, sync>>
  <2> DEFINE hints == remove_finger_peer(fingers, p)
             conv  == rehint(convergence, fingers, hints)
             last  == IF successors_ = {} THEN invalidate_all_evidence(conv) ELSE conv
  <2>1. StepRemove(p, None) /\ p \notin Referenced
    BY <1>2 DEF EvictUnreferenced, Retire
  <2>2. p # None /\ p \notin successors_ /\ predecessor_ # p /\ \A i \in Slot : fingers[i] # p
    BY <2>1, Constants DEF Referenced
  <2>3. successors_ \ {p} = successors_
    BY <2>2
  <2>4. /\ Commit(successors_, hints, last, pending)
        /\ predecessor_' = predecessor_
    BY <2>1, <2>2, <2>3 DEF StepRemove
  <2>5. hints = fingers
    <3>1. fingers \in [Slot -> Option(Peers)]
      BY <1>2 DEF Inv, RingOK, Table
    <3>2. hints = [i \in Slot |-> hints[i]] /\ \A i \in Slot : hints[i] = fingers[i]
      BY <2>2 DEF remove_finger_peer
    <3> HIDE DEF hints
    <3> QED BY <3>1, <3>2
  <2>6. conv = convergence
    BY <2>5 DEF rehint, invalidate_hint_changes
  <2>7. last = convergence
    BY <1>2, <2>6 DEF EvidenceNeedsSuccessor, Bare, invalidate_all_evidence
  <2> HIDE DEF hints, conv, last
  <2> QED BY <2>4, <2>5, <2>7 DEF Commit, head, topology
<1>3. Inv /\ EvidenceNeedsSuccessor /\ [Next]_vars =>
        [UNCHANGED <<topology, sync>> \/ \A p \in Peers : ~EvictUnreferenced(p)]_vars
  BY <1>2
<1> QED BY <1>1, <1>3, StepEvidence, Invariance, PTL DEF Spec, EvictionIsIdentity

-----------------------------------------------------------------------------
(* The loop of remove_finger_peer (RingLists) is the set-level removal.  A  *)
(* recursive function is what its equation allows, so the proof shows that  *)
(* a closed form solves the equation (a loop exists) and that every         *)
(* solution is the closed form, turn by turn from the end of the table.     *)

\* A table and the index the loop has come to.
States == [Slot -> Option(Peers)] \X (0 .. Slots)

\* The end of the run of p that begins at an index.
RunEnd(next, index, p) ==
    CHOOSE e \in index .. Slots :
        /\ \A k \in index .. e - 1 : next[k] = p
        /\ e = Slots \/ next[e] # p

\* What a run that ends there inherits.
Inherited(next, after) == IF after = Slots THEN None ELSE next[after]

\* The table after the run at an index has been overwritten.
Overwritten(next, index, p) ==
    [i \in Slot |-> IF i \in index .. RunEnd(next, index, p) - 1
                    THEN Inherited(next, RunEnd(next, index, p)) ELSE next[i]]

\* One turn of the loop.
Looped(f, state, p) ==
    IF state[2] >= Slots THEN state[1]
    ELSE IF state[1][state[2]] # p THEN f[<<state[1], state[2] + 1>>]
    ELSE f[<<Overwritten(state[1], state[2], p), RunEnd(state[1], state[2], p)>>]

\* What the equation of the loop requires of a function.
Looping(f, p) == f = [state \in States |-> Looped(f, state, p)]

LEMMA LoopChosen ==
    ASSUME NEW p
    PROVE  remove_loop(p) = CHOOSE f : Looping(f, p)
BY DEF remove_loop, Looping, States, Looped, Overwritten, Inherited, RunEnd

\* The run has an end, and everything before it is the removed peer.
LEMMA RunEnds ==
    ASSUME NEW next, NEW index \in 0 .. Slots, NEW p
    PROVE  /\ RunEnd(next, index, p) \in index .. Slots
           /\ \A k \in index .. RunEnd(next, index, p) - 1 : next[k] = p
           /\ RunEnd(next, index, p) = Slots \/ next[RunEnd(next, index, p)] # p
<1> DEFINE T == {e \in index .. Slots : e = Slots \/ next[e] # p}
           P(e) == /\ \A k \in index .. e - 1 : next[k] = p
                   /\ e = Slots \/ next[e] # p
<1>0. Slots \in Nat
  BY GeometryAssumption
<1>1. T \in SUBSET Nat /\ Slots \in T
  BY <1>0
<1> HIDE DEF T
<1>2. PICK e \in T : \A y \in T : e <= y
  BY <1>1, LeastNumber
<1>3. e \in index .. Slots /\ P(e)
  <2>1. e \in index .. Slots /\ (e = Slots \/ next[e] # p)
    BY DEF T
  <2>2. ASSUME NEW k \in index .. e - 1 PROVE next[k] = p
    BY <1>0, <1>2, <2>1 DEF T
  <2> QED BY <2>1, <2>2
<1>4. RunEnd(next, index, p) = CHOOSE x \in index .. Slots : P(x)
  BY DEF RunEnd
<1> HIDE DEF P
<1>5. P(RunEnd(next, index, p)) /\ RunEnd(next, index, p) \in index .. Slots
  BY <1>3, <1>4
<1> QED BY <1>5 DEF P

\* The run ends at the first index that satisfies its description.
LEMMA RunEndIs ==
    ASSUME NEW next, NEW index \in 0 .. Slots, NEW p, NEW e \in index .. Slots,
           \A k \in index .. e - 1 : next[k] = p, e = Slots \/ next[e] # p
    PROVE  RunEnd(next, index, p) = e
<1> DEFINE r == RunEnd(next, index, p)
<1>1. /\ r \in index .. Slots
      /\ \A k \in index .. r - 1 : next[k] = p
      /\ r = Slots \/ next[r] # p
  BY RunEnds
<1>2. Slots \in Nat
  BY GeometryAssumption
<1> HIDE DEF r
<1>3. ~(r < e) /\ ~(e < r)
  BY <1>1, <1>2
<1>4. r = e
  BY <1>1, <1>2, <1>3
<1> QED BY <1>4 DEF r

\* Removal gives a slot of a run what the run inherits.
LEMMA RemovedAt ==
    ASSUME NEW next, NEW i \in Slot, NEW p
    PROVE  remove_finger_peer(next, p)[i]
           = IF next[i] # p THEN next[i] ELSE Inherited(next, RunEnd(next, i, p))
<1> DEFINE follows == {j \in i .. Slots - 1 :
                            /\ next[j] # p
                            /\ \A k \in i .. j - 1 : next[k] = p}
           r == RunEnd(next, i, p)
<1>0. Slots \in Nat /\ i \in 0 .. Slots
  BY GeometryAssumption DEF Slot
<1>1. remove_finger_peer(next, p)[i]
      = IF next[i] # p THEN next[i]
        ELSE IF follows = {} THEN None
        ELSE next[CHOOSE j \in follows : TRUE]
  BY DEF remove_finger_peer
<1>2. /\ r \in i .. Slots
      /\ \A k \in i .. r - 1 : next[k] = p
      /\ r = Slots \/ next[r] # p
  BY <1>0, RunEnds
<1>3. ASSUME NEW j \in follows PROVE r = j /\ r # Slots
  <2>1. j \in i .. Slots /\ j # Slots
    BY <1>0
  <2> QED BY <1>0, <2>1, RunEndIs
<1>4. r # Slots => r \in follows
  BY <1>0, <1>2
<1> HIDE DEF follows, r
<1>5. follows # {} => (CHOOSE j \in follows : TRUE) \in follows
  OBVIOUS
<1>6. follows = {} <=> r = Slots
  BY <1>3, <1>4
<1>7. follows # {} => (CHOOSE j \in follows : TRUE) = r
  BY <1>3, <1>5
<1> QED BY <1>1, <1>6, <1>7 DEF Inherited, r

\* What the loop leaves when it has come to an index.
Closed(state, p) ==
    [i \in Slot |-> IF i < state[2] THEN state[1][i]
                    ELSE remove_finger_peer(state[1], p)[i]]

\* One turn of the loop leads to the closed form if the turns after it do.
LEMMA ClosedStep ==
    ASSUME NEW next \in [Slot -> Option(Peers)], NEW index \in 0 .. Slots,
           NEW p \in Peers, NEW f,
           \A t \in States : t[2] > index => f[t] = Closed(t, p)
    PROVE  Looped(f, <<next, index>>, p) = Closed(<<next, index>>, p)
<1>0. Slots \in Nat /\ Slot = 0 .. Slots - 1
  BY GeometryAssumption DEF Slot
<1>a. ASSUME NEW n \in [Slot -> Option(Peers)], NEW k \in 0 .. Slots, k > index
      PROVE  f[<<n, k>>] = [i \in Slot |-> IF i < k THEN n[i]
                                           ELSE remove_finger_peer(n, p)[i]]
  <2>1. <<n, k>> \in States
    BY DEF States
  <2>2. f[<<n, k>>] = Closed(<<n, k>>, p)
    BY <1>a, <2>1
  <2> QED BY <2>2 DEF Closed
<1>b. Closed(<<next, index>>, p) = [i \in Slot |-> IF i < index THEN next[i]
                                           ELSE remove_finger_peer(next, p)[i]]
  BY DEF Closed
<1>1. CASE index = Slots
  <2>1. Looped(f, <<next, index>>, p) = next
    BY <1>0, <1>1 DEF Looped
  <2>2. \A i \in Slot : i < index
    BY <1>0, <1>1
  <2>3. Closed(<<next, index>>, p) = [i \in Slot |-> next[i]]
    BY <1>b, <2>2
  <2> QED BY <2>1, <2>3
<1>2. CASE index # Slots /\ next[index] # p
  <2>1. index \in Slot /\ index + 1 \in 0 .. Slots /\ index + 1 > index
    BY <1>0, <1>2
  <2>2. Looped(f, <<next, index>>, p) = f[<<next, index + 1>>]
    BY <1>0, <1>2 DEF Looped
  <2>3. f[<<next, index + 1>>] = [i \in Slot |-> IF i < index + 1 THEN next[i]
                                           ELSE remove_finger_peer(next, p)[i]]
    BY <1>a, <2>1
  <2>4. remove_finger_peer(next, p)[index] = next[index]
    BY <1>2, <2>1, RemovedAt
  <2>5. \A i \in Slot : (i < index + 1) <=> (i < index \/ i = index)
    BY <1>0, <2>1
  <2> QED BY <1>b, <2>2, <2>3, <2>4, <2>5
<1>3. CASE index # Slots /\ next[index] = p
  <2> DEFINE after == RunEnd(next, index, p)
             new == Overwritten(next, index, p)
  <2>1. index \in Slot
    BY <1>0, <1>3
  <2>2. /\ after \in index .. Slots
        /\ \A k \in index .. after - 1 : next[k] = p
        /\ after = Slots \/ next[after] # p
    BY RunEnds
  <2>3. after \in 0 .. Slots /\ after > index
    BY <1>0, <1>3, <2>1, <2>2
  <2>4. new = [i \in Slot |-> IF i \in index .. after - 1
                    THEN Inherited(next, after) ELSE next[i]]
    BY DEF Overwritten
  <2>5. Looped(f, <<next, index>>, p) = f[<<new, after>>]
    BY <1>0, <1>3 DEF Looped
  <2> HIDE DEF after, new
  <2>6. new \in [Slot -> Option(Peers)]
    <3>1. Inherited(next, after) \in Option(Peers)
      BY <1>0, <2>3 DEF Inherited, Option
    <3> QED BY <2>4, <3>1
  <2>7. f[<<new, after>>] = [i \in Slot |-> IF i < after THEN new[i]
                                           ELSE remove_finger_peer(new, p)[i]]
    BY <1>a, <2>3, <2>6
  <2>8. ASSUME NEW i \in Slot, i < index
        PROVE  i < after /\ new[i] = next[i]
    BY <1>0, <2>2, <2>3, <2>4, <2>8
  <2>9. ASSUME NEW i \in Slot, ~(i < index), i < after
        PROVE  new[i] = remove_finger_peer(next, p)[i]
    <3>1. i \in index .. after - 1 /\ i \in 0 .. Slots /\ after \in i .. Slots
      BY <1>0, <2>2, <2>3, <2>9
    <3>2. new[i] = Inherited(next, after)
      BY <2>4, <3>1
    <3>3. \A k \in i .. after - 1 : next[k] = p
      BY <1>0, <2>2, <3>1
    <3>4. RunEnd(next, i, p) = after
      BY <2>2, <3>1, <3>3, RunEndIs
    <3> QED BY <2>2, <3>1, <3>2, <3>4, RemovedAt
  <2>10. ASSUME NEW i \in Slot, ~(i < after)
        PROVE  remove_finger_peer(new, p)[i] = remove_finger_peer(next, p)[i]
    <3>1. \A k \in i .. Slots - 1 : k \in Slot /\ new[k] = next[k]
      BY <1>0, <2>3, <2>4, <2>10
    <3>2. i \in 0 .. Slots /\ i \in i .. Slots - 1
      BY <1>0
    <3> DEFINE r == RunEnd(next, i, p)
    <3>3. /\ r \in i .. Slots
          /\ \A k \in i .. r - 1 : next[k] = p
          /\ r = Slots \/ next[r] # p
      BY <3>2, RunEnds
    <3> HIDE DEF r
    <3>4. (\A k \in i .. r - 1 : new[k] = p) /\ (r = Slots \/ new[r] # p)
      BY <1>0, <3>1, <3>2, <3>3
    <3>5. RunEnd(new, i, p) = r
      BY <3>2, <3>3, <3>4, RunEndIs
    <3>6. Inherited(new, r) = Inherited(next, r)
      BY <1>0, <3>1, <3>2, <3>3 DEF Inherited
    <3>7. new[i] = next[i]
      BY <3>1, <3>2
    <3> QED BY <3>5, <3>6, <3>7, RemovedAt DEF r
  <2>11. \A i \in Slot : (IF i < after THEN new[i] ELSE remove_finger_peer(new, p)[i])
                       = (IF i < index THEN next[i] ELSE remove_finger_peer(next, p)[i])
    BY <2>8, <2>9, <2>10
  <2> QED BY <1>b, <2>5, <2>7, <2>11
<1> QED BY <1>1, <1>2, <1>3

\* The closed form satisfies the recursion of the loop, so a loop exists.
LEMMA LoopingExists ==
    ASSUME NEW p \in Peers
    PROVE  \E f : Looping(f, p)
<1> DEFINE f == [state \in States |-> Closed(state, p)]
<1>1. ASSUME NEW state \in States PROVE f[state] = Looped(f, state, p)
  <2>1. PICK next \in [Slot -> Option(Peers)], index \in 0 .. Slots : state = <<next, index>>
    BY DEF States
  <2>2. \A t \in States : t[2] > index => f[t] = Closed(t, p)
    OBVIOUS
  <2>3. f[state] = Closed(state, p)
    OBVIOUS
  <2> HIDE DEF f
  <2> QED BY <2>1, <2>2, <2>3, ClosedStep
<1>2. f = [state \in States |-> f[state]]
  OBVIOUS
<1> HIDE DEF f
<1>3. f = [state \in States |-> Looped(f, state, p)]
  BY <1>1, <1>2
<1> QED BY <1>3 DEF Looping

\* Every loop is the closed form: the greatest index where it is not would be
\* contradicted by the turn that begins there.
LEMMA LoopingIsClosed ==
    ASSUME NEW p \in Peers, NEW f, Looping(f, p), NEW s \in States
    PROVE  f[s] = Closed(s, p)
<1> DEFINE T == {n \in 0 .. Slots : \E t \in States : t[2] = Slots - n /\ f[t] # Closed(t, p)}
<1>0. Slots \in Nat /\ \A t \in States : t[2] \in 0 .. Slots
  BY GeometryAssumption DEF States
<1>1. SUFFICES ASSUME f[s] # Closed(s, p) PROVE FALSE
  OBVIOUS
<1>2. T \in SUBSET Nat /\ Slots - s[2] \in T
  <2>1. T \in SUBSET Nat /\ s[2] \in 0 .. Slots
    BY <1>0
  <2>2. Slots - s[2] \in 0 .. Slots /\ s[2] = Slots - (Slots - s[2])
    BY <1>0, <2>1
  <2> QED BY <1>1, <2>1, <2>2
<1> HIDE DEF T
<1>3. PICK n \in T : \A m \in T : n <= m
  BY <1>2, LeastNumber
<1>4. PICK state \in States : state[2] = Slots - n /\ f[state] # Closed(state, p)
  BY DEF T
<1>5. PICK next \in [Slot -> Option(Peers)], index \in 0 .. Slots : state = <<next, index>>
  BY DEF States
<1>6. ASSUME NEW t \in States, t[2] > index PROVE f[t] = Closed(t, p)
  <2>0. state[2] = index /\ n \in 0 .. Slots
    BY <1>5 DEF T
  <2>1. Slots - t[2] \in 0 .. Slots /\ t[2] = Slots - (Slots - t[2]) /\ Slots - t[2] < n
    BY <1>0, <1>4, <2>0, <1>6
  <2>2. Slots - t[2] \notin T
    BY <1>0, <1>3, <2>0, <2>1
  <2> QED BY <2>1, <2>2 DEF T
<1>7. Looped(f, <<next, index>>, p) = Closed(<<next, index>>, p)
  BY <1>6, ClosedStep
<1>8. f[state] = Looped(f, state, p)
  BY DEF Looping
<1> QED BY <1>4, <1>5, <1>7, <1>8

\* The loop, begun at the first slot, is the set-level removal.
LEMMA LoopRemoves ==
    ASSUME NEW p \in Peers, NEW fing \in [Slot -> Option(Peers)]
    PROVE  remove_loop(p)[<<fing, 0>>] = remove_finger_peer(fing, p)
<1>1. Looping(remove_loop(p), p)
  <2>1. \E f : Looping(f, p)
    BY LoopingExists
  <2>2. Looping(CHOOSE f : Looping(f, p), p)
    BY <2>1
  <2> QED BY <2>2, LoopChosen
<1>2. <<fing, 0>> \in States
  BY GeometryAssumption DEF States
<1>3. remove_loop(p)[<<fing, 0>>] = Closed(<<fing, 0>>, p)
  BY <1>1, <1>2, LoopingIsClosed
<1>4. Closed(<<fing, 0>>, p) = [i \in Slot |-> remove_finger_peer(fing, p)[i]]
  <2>1. \A i \in Slot : ~(i < 0)
    BY DEF Slot
  <2> QED BY <2>1 DEF Closed
<1>5. remove_finger_peer(fing, p) = [i \in Slot |-> remove_finger_peer(fing, p)[i]]
  BY DEF remove_finger_peer
<1> QED BY <1>3, <1>4, <1>5

LEMMA RunsRemoved == TypeOK => RemovalByRuns
<1> SUFFICES ASSUME TypeOK, NEW p \in Peers
             PROVE  /\ remove_loop(p)[<<fingers, 0>>] = remove_finger_peer(fingers, p)
                    /\ \A i \in Slot : remove_loop(p)[<<fingers, 0>>][i] # p
  BY DEF RemovalByRuns
<1>1. fingers \in [Slot -> Option(Peers)]
  BY DEF TypeOK
<1>2. remove_loop(p)[<<fingers, 0>>] = remove_finger_peer(fingers, p)
  BY <1>1, LoopRemoves
<1>3. \A i \in Slot : remove_finger_peer(fingers, p)[i] # p
  BY Constants, RemoveFingerPeerMoves
<1> QED BY <1>2, <1>3

-----------------------------------------------------------------------------
(* FoldLeft, by steps.  The recursive function behind a fold ranges over    *)
(* all sets of positions; it exists for every fold whose step stays in a    *)
(* set (FoldExists), and on the prefixes of the list it takes one step of   *)
(* the fold after another (the lemmas named ...Run, one for each fold).     *)

\* The last element of a set of positions.
LEMMA LastIs ==
    ASSUME NEW s, NEW k \in s, \A j \in s : k >= j, s \subseteq Int
    PROVE  Max(s) = k
<1> DEFINE P(x) == \A j \in s : x >= j
<1>1. Max(s) = CHOOSE x \in s : P(x)
  BY DEF Max
<1>2. k \in s /\ P(k)
  OBVIOUS
<1> HIDE DEF P
<1>3. Max(s) \in s /\ P(Max(s))
  BY <1>1, <1>2
<1>4. Max(s) >= k /\ k >= Max(s)
  BY <1>3 DEF P
<1>5. Max(s) \in Int /\ k \in Int
  BY <1>3
<1> QED BY <1>4, <1>5

\* Every non-empty set of positions has one.
LEMMA LastExists ==
    ASSUME NEW n \in Nat, NEW s \in SUBSET (1 .. n), s # {}
    PROVE  Max(s) \in s /\ \A j \in s : Max(s) >= j
<1> DEFINE T == {n - j : j \in s}
<1>1. T \in SUBSET Nat /\ T # {}
  <2>1. \A j \in s : n - j \in Nat
    OBVIOUS
  <2> QED BY <2>1
<1> HIDE DEF T
<1>2. PICK x \in T : \A y \in T : x <= y
  BY <1>1, LeastNumber
<1>3. PICK k \in s : x = n - k
  BY DEF T
<1>4. \A j \in s : n - j \in T
  BY DEF T
<1>5. \A j \in s : k >= j
  <2> TAKE j \in s
  <2>1. n - k <= n - j
    BY <1>2, <1>3, <1>4
  <2> QED BY <2>1
<1>6. Max(s) = k
  <2>1. s \subseteq Int
    OBVIOUS
  <2> QED BY <1>5, <2>1, LastIs
<1> QED BY <1>5, <1>6

\* What the recursive function of FoldLeft is required to be, for a fold whose
\* step is the function g.
FoldsBy(f, g, base, xs, n) ==
    f = [s \in SUBSET (1 .. n) |->
            IF s = {} THEN base ELSE g[<<f[s \ {Max(s)}], xs[Max(s)]>>]]

\* It exists, for the prefixes of the list one after another.
LEMMA FoldExists ==
    ASSUME NEW A, NEW B, NEW g \in [A \X B -> A], NEW base \in A,
           NEW n \in Nat, NEW xs \in [1 .. n -> B]
    PROVE  \E f \in [SUBSET (1 .. n) -> A] : FoldsBy(f, g, base, xs, n)
<1> DEFINE E(k) == \E f \in [SUBSET (1 .. k) -> A] : FoldsBy(f, g, base, xs, k)
           T == {k \in 0 .. n : ~E(k)}
<1>1. SUFFICES ASSUME ~E(n) PROVE FALSE
  OBVIOUS
<1>2. T \in SUBSET Nat /\ n \in T
  <2>1. n \in 0 .. n
    OBVIOUS
  <2> HIDE DEF E
  <2> QED BY <1>1, <2>1
<1> HIDE DEF T
<1>3. PICK k \in T : \A m \in T : k <= m
  BY <1>2, LeastNumber
<1>4. k \in 0 .. n /\ ~E(k)
  BY DEF T
<1>5. CASE k = 0
  <2> DEFINE f == [s \in SUBSET (1 .. 0) |-> base]
  <2>1. \A s \in SUBSET (1 .. 0) : s = {}
    OBVIOUS
  <2>2. f \in [SUBSET (1 .. 0) -> A]
    OBVIOUS
  <2>3. FoldsBy(f, g, base, xs, 0)
    BY <2>1 DEF FoldsBy
  <2> QED BY <1>4, <1>5, <2>2, <2>3
<1>6. CASE k # 0
  <2>1. k - 1 \in 0 .. n /\ k \in 1 .. n /\ k - 1 < k
    BY <1>4, <1>6
  <2>2. k - 1 \notin T
    BY <1>3, <2>1
  <2>3. E(k - 1)
    BY <2>1, <2>2 DEF T
  <2>4. PICK h \in [SUBSET (1 .. (k - 1)) -> A] : FoldsBy(h, g, base, xs, k - 1)
    BY <2>3
  <2> DEFINE f == [s \in SUBSET (1 .. k) |->
                     IF k \in s THEN g[<<h[s \ {k}], xs[k]>>] ELSE h[s]]
  <2>5. \A s \in SUBSET (1 .. k) : s \ {k} \in SUBSET (1 .. (k - 1))
    BY <2>1
  <2>6. xs[k] \in B
    BY <2>1
  <2>7. f \in [SUBSET (1 .. k) -> A]
    <3>1. ASSUME NEW s \in SUBSET (1 .. k) PROVE f[s] \in A
      <4>1. h[s \ {k}] \in A
        BY <2>5
      <4>2. k \notin s => s = s \ {k}
        OBVIOUS
      <4>3. <<h[s \ {k}], xs[k]>> \in A \X B
        BY <2>6, <4>1
      <4>4. g[<<h[s \ {k}], xs[k]>>] \in A
        BY <4>3
      <4> QED BY <4>1, <4>2, <4>4
    <3> QED BY <3>1
  <2>8. ASSUME NEW s \in SUBSET (1 .. k)
        PROVE  f[s] = IF s = {} THEN base ELSE g[<<f[s \ {Max(s)}], xs[Max(s)]>>]
    <3>1. CASE k \in s
      <4>1. Max(s) = k
        <5>1. s \subseteq Int /\ \A j \in s : k >= j
          BY <2>1
        <5> QED BY <3>1, <5>1, LastIs
      <4>2. s \ {k} \in SUBSET (1 .. k) /\ k \notin s \ {k}
        OBVIOUS
      <4>3. f[s \ {k}] = h[s \ {k}]
        BY <4>2
      <4>4. f[s] = g[<<h[s \ {k}], xs[k]>>]
        BY <3>1
      <4> HIDE DEF f
      <4> QED BY <3>1, <4>1, <4>3, <4>4
    <3>2. CASE k \notin s
      <4>1. s \in SUBSET (1 .. (k - 1))
        BY <2>5, <3>2
      <4>2. h[s] = IF s = {} THEN base ELSE g[<<h[s \ {Max(s)}], xs[Max(s)]>>]
        BY <2>4, <4>1 DEF FoldsBy
      <4>3. f[s] = h[s]
        BY <3>2
      <4>4. f[s \ {Max(s)}] = h[s \ {Max(s)}]
        <5>1. s \ {Max(s)} \in SUBSET (1 .. k) /\ k \notin s \ {Max(s)}
          BY <3>2
        <5> QED BY <5>1
      <4> HIDE DEF f
      <4> QED BY <4>2, <4>3, <4>4
    <3> QED BY <3>1, <3>2
  <2>9. f = [s \in SUBSET (1 .. k) |-> f[s]]
    OBVIOUS
  <2> HIDE DEF f
  <2>10. FoldsBy(f, g, base, xs, k)
    BY <2>8, <2>9 DEF FoldsBy
  <2> QED BY <1>4, <2>7, <2>10
<1> QED BY <1>5, <1>6

\* A prefix of the positions, without its last one.
LEMMA PrefixPositions ==
    ASSUME NEW n \in Nat, NEW k \in 1 .. n
    PROVE  /\ (1 .. k) \in SUBSET (1 .. n)
           /\ (1 .. (k - 1)) \in SUBSET (1 .. n)
           /\ (1 .. k) # {}
           /\ Max(1 .. k) = k
           /\ (1 .. k) \ {k} = 1 .. (k - 1)
<1> DEFINE s == 1 .. k
<1>1. k \in s /\ s \subseteq Int /\ \A j \in s : k >= j
  OBVIOUS
<1>2. s \ {k} = 1 .. (k - 1)
  OBVIOUS
<1>3. s \in SUBSET (1 .. n) /\ (1 .. (k - 1)) \in SUBSET (1 .. n)
  OBVIOUS
<1> HIDE DEF s
<1>4. Max(s) = k
  BY <1>1, LastIs
<1>5. s # {}
  BY <1>1
<1> QED BY <1>2, <1>3, <1>4, <1>5 DEF s

-----------------------------------------------------------------------------
(* The fold of finger_join.                                                *)

\* Joining one more peer to what a set of peers was joined to.
LEMMA JoinOneMore ==
    ASSUME NEW fing \in [Slot -> Option(Peers)], NEW S \in SUBSET Peers, NEW p \in Peers
    PROVE  finger_join(Local, finger_join(Local, fing, S), {p})
           = finger_join(Local, fing, S \cup {p})
<1> DEFINE R(i, U) == {q \in U \ {Local} : dist(Local, q) >= 2^i}
           N(i, U) == Nearest(Local, R(i, U))
           J(i, h, U) == IF \/ N(i, U) = None
                            \/ h # None /\ dist(Local, h) < dist(Local, N(i, U))
                         THEN h ELSE N(i, U)
<1>1. Local \in Did /\ Peers \subseteq Did /\ p \in Did /\ S \subseteq Did
  BY PeersAssumption
<1>2. \A f, U : finger_join(Local, f, U) = [i \in Slot |-> J(i, f[i], U)]
  BY DEF finger_join
<1>3. ASSUME NEW i \in Slot
      PROVE  J(i, J(i, fing[i], S), {p}) = J(i, fing[i], S \cup {p})
  <2>1. ASSUME NEW U \in SUBSET Peers
        PROVE  /\ N(i, U) = None <=> R(i, U) = {}
               /\ R(i, U) # {} => /\ N(i, U) \in R(i, U)
                                  /\ \A q \in R(i, U) : dist(Local, N(i, U)) <= dist(Local, q)
    <3>1. R(i, U) \in SUBSET Did
      BY <1>1
    <3> QED BY <1>1, <3>1, NearestIsLeast, NearestType
  <2>2. \A U \in SUBSET Peers : R(i, U) \subseteq Did
    BY <1>1
  <2>3. R(i, S \cup {p}) = R(i, S) \cup R(i, {p}) /\ R(i, {p}) \subseteq {p}
    OBVIOUS
  <2>4. fing[i] = None \/ fing[i] \in Did
    BY <1>1 DEF Option
  <2>5. \A q, r \in Did : dist(Local, q) \in Nat /\ (dist(Local, q) = dist(Local, r) => q = r)
    BY <1>1, DistType
  <2>6. None \notin Did
    BY NoneIsNoDid
  <2> DEFINE d(q) == dist(Local, q)
             h == fing[i]
             RS == R(i, S)
             Rp == R(i, {p})
             RT == R(i, S \cup {p})
             NS == N(i, S)
             Np == N(i, {p})
             NT == N(i, S \cup {p})
  <2>7. /\ (NS = None <=> RS = {}) /\ (RS # {} => NS \in RS /\ \A q \in RS : d(NS) <= d(q))
        /\ (Np = None <=> Rp = {}) /\ (Rp # {} => Np \in Rp)
        /\ (NT = None <=> RT = {}) /\ (RT # {} => NT \in RT /\ \A q \in RT : d(NT) <= d(q))
    <3>1. S \in SUBSET Peers /\ {p} \in SUBSET Peers /\ S \cup {p} \in SUBSET Peers
      OBVIOUS
    <3> HIDE DEF R, N
    <3> QED BY <2>1, <3>1
  <2>8. RS \subseteq Did /\ RT = RS \cup Rp /\ Rp \subseteq {p}
    BY <2>2, <2>3
  <2>9. J(i, h, S) = IF NS = None \/ (h # None /\ d(h) < d(NS)) THEN h ELSE NS
    OBVIOUS
  <2>10. J(i, h, S \cup {p}) = IF NT = None \/ (h # None /\ d(h) < d(NT)) THEN h ELSE NT
    OBVIOUS
  <2>11. \A x : J(i, x, {p}) = IF Np = None \/ (x # None /\ d(x) < d(Np)) THEN x ELSE Np
    OBVIOUS
  <2>12. \A q, r \in Did : d(q) \in Nat /\ (d(q) = d(r) => q = r)
    BY <2>5
  <2>13. h = None \/ h \in Did
    BY <2>4
  <2>14. CASE Rp = {}
    <3>1. RT = RS /\ Np = None
      BY <2>7, <2>8, <2>14
    <3>2. NT = NS
      <4>1. S \in SUBSET Peers
        OBVIOUS
      <4> QED BY <3>1
    <3> HIDE DEF RS, Rp, RT, NS, Np, NT, d, J, R, N, h
    <3> QED BY <2>9, <2>10, <2>11, <3>1, <3>2 DEF h
  <2>15. CASE Rp # {} /\ RS = {}
    <3>1. RT = Rp /\ NS = None
      BY <2>7, <2>8, <2>15
    <3>2. NT = Np
      BY <3>1
    <3> HIDE DEF RS, Rp, RT, NS, Np, NT, d, J, R, N, h
    <3> QED BY <2>9, <2>10, <2>11, <3>1, <3>2 DEF h
  <2>16. CASE Rp # {} /\ RS # {}
    <3> HIDE DEF RS, Rp, RT, NS, Np, NT, d, J, R, N, h
    <3>1. /\ Np = p /\ p \in RT /\ NS \in RT /\ NT \in RS \cup {p}
          /\ NT # None /\ NS # None /\ Np # None
      BY <2>7, <2>8, <2>16
    <3>2. NS \in Did /\ NT \in Did /\ Np \in Did
      BY <1>1, <2>8, <3>1, <2>7, <2>16
    <3>3. NT = IF d(p) <= d(NS) THEN p ELSE NS
      <4>1. d(NT) <= d(p) /\ d(NT) <= d(NS)
        BY <2>7, <3>1
      <4>2. NT = p \/ d(NS) <= d(NT)
        BY <2>7, <3>1
      <4> QED BY <1>1, <2>12, <3>1, <3>2, <4>1, <4>2
    <3>4. d(p) \in Nat /\ d(NS) \in Nat /\ (h # None => d(h) \in Nat)
      BY <1>1, <2>12, <2>13, <3>2
    <3>5. J(i, h, S) = IF h # None /\ d(h) < d(NS) THEN h ELSE NS
      BY <2>9, <3>1
    <3>6. J(i, h, S \cup {p}) = IF h # None /\ d(h) < d(NT) THEN h ELSE NT
      BY <2>10, <3>1
    <3>7. \A x : J(i, x, {p}) = IF x # None /\ d(x) < d(p) THEN x ELSE p
      BY <2>11, <3>1
    <3>8. d(p) = d(NS) => p = NS
      BY <1>1, <2>12, <3>2
    <3>9. J(i, J(i, h, S), {p}) = J(i, h, S \cup {p})
      BY <3>1, <3>3, <3>4, <3>5, <3>6, <3>7, <3>8
    <3> QED BY <3>9 DEF h
  <2> QED BY <2>14, <2>15, <2>16
<1> HIDE DEF R, N, J
<1>4. finger_join(Local, finger_join(Local, fing, S), {p})
      = [i \in Slot |-> J(i, J(i, fing[i], S), {p})]
  <2>1. \A i \in Slot : finger_join(Local, fing, S)[i] = J(i, fing[i], S)
    BY <1>2
  <2> QED BY <1>2, <2>1
<1>5. finger_join(Local, fing, S \cup {p}) = [i \in Slot |-> J(i, fing[i], S \cup {p})]
  BY <1>2
<1> QED BY <1>3, <1>4, <1>5

\* A join keeps the type of a table, whatever hints it holds.
LEMMA JoinIsTable ==
    ASSUME NEW fing \in [Slot -> Option(Peers)], NEW S \in SUBSET Peers
    PROVE  finger_join(Local, fing, S) \in [Slot -> Option(Peers)]
<1>1. Local \in Did /\ Peers \subseteq Did
  BY PeersAssumption
<1>2. ASSUME NEW i \in Slot
      PROVE  Nearest(Local, {p \in S \ {Local} : dist(Local, p) >= 2^i}) \in Option(Peers)
  <2> DEFINE R == {p \in S \ {Local} : dist(Local, p) >= 2^i}
  <2>1. R \in SUBSET Did /\ R \subseteq Peers
    BY <1>1
  <2>2. Nearest(Local, R) \in R \cup {None}
    BY <1>1, <2>1, NearestType
  <2> HIDE DEF R
  <2>3. Nearest(Local, R) \in Option(Peers)
    BY <2>1, <2>2 DEF Option
  <2> QED BY <2>3 DEF R
<1> QED BY <1>2 DEF finger_join

\* The tables a join goes through.
LEMMA JoinRun ==
    ASSUME NEW fing \in [Slot -> Option(Peers)], NEW xs \in Seq(Peers)
    PROVE  \E r : /\ r[0] = fing
                  /\ \A k \in 1 .. Len(xs) : r[k] = join_peer(r[k - 1], xs[k])
                  /\ join_list(fing, xs) = r[Len(xs)]
<1> DEFINE n == Len(xs)
           A == [Slot -> Option(Peers)]
           g == [z \in A \X Peers |-> join_peer(z[1], z[2])]
           R(h) == h = [s \in SUBSET (1 .. n) |->
                          IF s = {} THEN fing ELSE join_peer(h[s \ {Max(s)}], xs[Max(s)])]
<1>1. n \in Nat /\ DOMAIN xs = 1 .. n /\ xs \in [1 .. n -> Peers]
  OBVIOUS
<1>2. join_list(fing, xs) = (CHOOSE h : R(h))[1 .. n]
  BY <1>1 DEF join_list, FoldLeft, MapThenFoldSet
<1>3. ASSUME NEW a \in A, NEW b \in Peers PROVE join_peer(a, b) \in A
  BY JoinIsTable DEF join_peer
<1>4. g \in [A \X Peers -> A] /\ \A a \in A, b \in Peers : g[<<a, b>>] = join_peer(a, b)
  BY <1>3
<1>5. fing \in A
  OBVIOUS
<1> HIDE DEF g, A, n
<1>6. PICK f \in [SUBSET (1 .. n) -> A] : FoldsBy(f, g, fing, xs, n)
  BY <1>1, <1>4, <1>5, FoldExists
<1>7. R(f)
  <2>1. ASSUME NEW s \in SUBSET (1 .. n), s # {}
        PROVE  g[<<f[s \ {Max(s)}], xs[Max(s)]>>]
               = join_peer(f[s \ {Max(s)}], xs[Max(s)])
    <3>1. xs[Max(s)] \in Peers
      BY <1>1, <2>1, LastExists
    <3>2. f[s \ {Max(s)}] \in A
      OBVIOUS
    <3> QED BY <1>4, <3>1, <3>2
  <2>2. ASSUME NEW s \in SUBSET (1 .. n)
        PROVE  (IF s = {} THEN fing ELSE g[<<f[s \ {Max(s)}], xs[Max(s)]>>])
               = (IF s = {} THEN fing ELSE join_peer(f[s \ {Max(s)}], xs[Max(s)]))
    BY <2>1
  <2> QED BY <1>6, <2>2 DEF FoldsBy
<1> DEFINE h == CHOOSE q : R(q)
           r == [k \in 0 .. n |-> h[1 .. k]]
<1>8. R(h)
  <2> HIDE DEF R
  <2> QED BY <1>7
<1>9. \A s \in SUBSET (1 .. n) :
        h[s] = IF s = {} THEN fing ELSE join_peer(h[s \ {Max(s)}], xs[Max(s)])
  <2> HIDE DEF h
  <2> QED BY <1>8
<1> HIDE DEF h, R
<1>10. r[0] = fing
  <2>1. r[0] = h[1 .. 0] /\ (1 .. 0) = {} /\ (1 .. 0) \in SUBSET (1 .. n)
    BY <1>1
  <2> QED BY <1>9, <2>1
<1>11. ASSUME NEW k \in 1 .. n PROVE r[k] = join_peer(r[k - 1], xs[k])
  <2>1. r[k] = h[1 .. k] /\ r[k - 1] = h[1 .. (k - 1)]
    BY <1>1
  <2>2. /\ (1 .. k) \in SUBSET (1 .. n) /\ (1 .. k) # {}
        /\ Max(1 .. k) = k /\ (1 .. k) \ {k} = 1 .. (k - 1)
    BY <1>1, PrefixPositions
  <2>3. h[1 .. k] = join_peer(h[1 .. (k - 1)], xs[k])
    BY <1>9, <2>2
  <2> HIDE DEF r
  <2> QED BY <2>1, <2>3
<1>12. join_list(fing, xs) = r[n]
  <2>1. r[n] = h[1 .. n]
    BY <1>1
  <2> QED BY <1>2, <2>1 DEF h, R
<1> QED BY <1>10, <1>11, <1>12 DEF n

\* Folding the join over a list joins the set of its members: the table after
\* k positions is the join of what stands in them.
LEMMA JoinFolds ==
    ASSUME NEW fing \in [Slot -> Option(Peers)], NEW xs \in Seq(Peers)
    PROVE  join_list(fing, xs) = finger_join(Local, fing, Members(xs))
<1> DEFINE n == Len(xs)
           First(k) == {xs[i] : i \in 1 .. k}
<1>1. PICK r : /\ r[0] = fing
               /\ \A k \in 1 .. n : r[k] = join_peer(r[k - 1], xs[k])
               /\ join_list(fing, xs) = r[n]
  BY JoinRun
<1>2. n \in Nat /\ xs \in [1 .. n -> Peers]
  OBVIOUS
<1> DEFINE T == {k \in 0 .. n : r[k] # finger_join(Local, fing, First(k))}
<1>3. T = {}
  <2>1. SUFFICES ASSUME T # {} PROVE FALSE
    OBVIOUS
  <2>2. T \in SUBSET Nat
    BY <1>2
  <2>3. PICK k \in T : \A m \in T : k <= m
    <3> HIDE DEF T
    <3> QED BY <2>1, <2>2, LeastNumber
  <2>4. CASE k = 0
    <3>1. First(0) = {}
      OBVIOUS
    <3>2. finger_join(Local, fing, {}) = fing
      <4>1. \A i \in Slot : {p \in {} \ {Local} : dist(Local, p) >= 2^i} = {}
        OBVIOUS
      <4>2. finger_join(Local, fing, {}) = [i \in Slot |-> fing[i]]
        BY <4>1 DEF finger_join, Nearest
      <4> QED BY <4>2
    <3> QED BY <1>1, <2>4, <3>1, <3>2
  <2>5. CASE k # 0
    <3>1. k \in 1 .. n /\ k - 1 \in 0 .. n /\ k - 1 < k
      BY <1>2, <2>5
    <3>2. r[k - 1] = finger_join(Local, fing, First(k - 1))
      BY <2>3, <3>1
    <3>3. First(k) = First(k - 1) \cup {xs[k]}
      <4>1. 1 .. k = (1 .. (k - 1)) \cup {k}
        BY <3>1
      <4> QED BY <4>1
    <3>4. First(k - 1) \in SUBSET Peers /\ xs[k] \in Peers
      BY <1>2, <3>1
    <3>5. r[k] = finger_join(Local, finger_join(Local, fing, First(k - 1)), {xs[k]})
      BY <1>1, <3>1, <3>2 DEF join_peer
    <3> HIDE DEF First
    <3>6. r[k] = finger_join(Local, fing, First(k))
      BY <3>3, <3>4, <3>5, JoinOneMore
    <3> QED BY <3>6
  <2> QED BY <2>4, <2>5
<1>4. n \in 0 .. n
  BY <1>2
<1>5. r[n] = finger_join(Local, fing, First(n))
  BY <1>3, <1>4
<1>6. First(n) = Members(xs)
  BY DEF Members
<1> QED BY <1>1, <1>5, <1>6

\* An enumeration of a finite set is a list without repetition of its members.
LEMMA Enumeration ==
    ASSUME NEW S, IsFiniteSet(S), NEW order \in SetToSeqs(S)
    PROVE  /\ order \in Seq(S) /\ Members(order) = S
           /\ \A i, j \in 1 .. Len(order) : order[i] = order[j] => i = j
<1> DEFINE n == Cardinality(S)
<1>1. n \in Nat
  BY FS_CardinalityType
<1>2. order \in [1 .. n -> S] /\ \A i, j \in 1 .. n : i # j => order[i] # order[j]
  BY DEF SetToSeqs
<1> HIDE DEF n
<1>3. order \in Seq(S) /\ Len(order) = n
  BY <1>1, <1>2
<1>4. order \in Injection(1 .. n, S)
  BY <1>2 DEF Injection, IsInjective
<1>5. Cardinality(1 .. n) = n
  BY <1>1, FS_Interval
<1>6. order \in Surjection(1 .. n, S)
  BY <1>4, <1>5, FS_Injection DEF n
<1>7. \A x \in S : \E i \in 1 .. n : order[i] = x
  BY <1>6 DEF Surjection
<1>8. Members(order) = S
  BY <1>2, <1>3, <1>7 DEF Members
<1> QED BY <1>2, <1>3, <1>8

\* Identifiers are finitely many.
LEMMA PeersFinite == \A S \in SUBSET Did : IsFiniteSet(S)
<1>1. IsFiniteSet(Did)
  BY RingSizeType, FS_Interval DEF Did
<1> QED BY <1>1, FS_Subset

\* A type-correct ring joins the same in every order.
LEMMA JoinInAnyOrder == TypeOK => JoinIsASet
<1> SUFFICES ASSUME TypeOK PROVE JoinIsASet
  OBVIOUS
<1>1. successors_ \in SUBSET Peers /\ fingers \in [Slot -> Option(Peers)]
  BY DEF TypeOK
<1>2. IsFiniteSet(successors_)
  BY <1>1, PeersAssumption, PeersFinite
<1>3. ASSUME NEW order \in SetToSeqs(successors_)
      PROVE  join_list(fingers, order) = finger_join(Local, fingers, successors_)
  <2>1. order \in Seq(successors_) /\ Members(order) = successors_
    BY <1>2, Enumeration
  <2>2. order \in Seq(Peers)
    BY <1>1, <2>1
  <2> QED BY <1>1, <2>1, <2>2, JoinFolds
<1> QED BY <1>3 DEF JoinIsASet

-----------------------------------------------------------------------------
(* The folds that build a successor list: push_unique keeps a list without  *)
(* repetition, retain drops the node itself, insertion keeps the list       *)
(* ascending, so that dedup has nothing to drop and truncate leaves the     *)
(* Capacity nearest.                                                        *)

Distinct(xs) == \A i, j \in 1 .. Len(xs) : xs[i] = xs[j] => i = j

Ascending(xs) ==
    \A i, j \in 1 .. Len(xs) : i < j => dist(Local, xs[i]) < dist(Local, xs[j])

\* What an element appended to a list adds.
LEMMA AppendFacts ==
    ASSUME NEW xs \in Seq(Did), NEW x \in Did
    PROVE  /\ Append(xs, x) \in Seq(Did)
           /\ Members(Append(xs, x)) = Members(xs) \cup {x}
           /\ Distinct(xs) /\ x \notin Members(xs) => Distinct(Append(xs, x))
<1> DEFINE n == Len(xs)
           a == Append(xs, x)
<1>1. n \in Nat /\ a \in Seq(Did) /\ Len(a) = n + 1
  OBVIOUS
<1>2. \A i \in 1 .. n + 1 : a[i] = IF i = n + 1 THEN x ELSE xs[i]
  OBVIOUS
<1> HIDE DEF a
<1>3. Members(a) = {a[i] : i \in 1 .. n + 1} /\ Members(xs) = {xs[i] : i \in 1 .. n}
  BY <1>1 DEF Members
<1> HIDE DEF n
<1>4. 1 .. n + 1 = (1 .. n) \cup {n + 1} /\ n + 1 \notin 1 .. n
  BY <1>1
<1>5. \A i \in 1 .. n : a[i] = xs[i] /\ xs[i] \in Members(xs)
  BY <1>2, <1>3, <1>4
<1>6. a[n + 1] = x
  BY <1>2, <1>4
<1>7. Members(a) = Members(xs) \cup {x}
  BY <1>3, <1>4, <1>5, <1>6
<1>8. ASSUME Distinct(xs), x \notin Members(xs),
             NEW i \in 1 .. n + 1, NEW j \in 1 .. n + 1, a[i] = a[j]
      PROVE  i = j
  <2>1. \A u, v \in 1 .. n : xs[u] = xs[v] => u = v
    BY <1>8 DEF Distinct, n
  <2> QED BY <1>4, <1>5, <1>6, <1>8, <2>1
<1>9. Distinct(xs) /\ x \notin Members(xs) => Distinct(a)
  BY <1>1, <1>8 DEF Distinct
<1> QED BY <1>1, <1>7, <1>9 DEF a

LEMMA EmptyFacts ==
    <<>> \in Seq(Did) /\ Members(<<>>) = {} /\ Distinct(<<>>) /\ Ascending(<<>>)
BY DEF Members, Distinct, Ascending

\* The members of the first positions of a list.
FirstOf(xs, k) == {xs[i] : i \in 1 .. k}

LEMMA FirstFacts ==
    ASSUME NEW xs \in Seq(Did)
    PROVE  /\ FirstOf(xs, 0) = {} /\ FirstOf(xs, Len(xs)) = Members(xs)
           /\ \A k \in 1 .. Len(xs) :
                /\ FirstOf(xs, k) = FirstOf(xs, k - 1) \cup {xs[k]}
                /\ xs[k] \in Did
                /\ Distinct(xs) => xs[k] \notin FirstOf(xs, k - 1)
<1>1. FirstOf(xs, 0) = {} /\ FirstOf(xs, Len(xs)) = Members(xs)
  BY DEF FirstOf, Members
<1>2. ASSUME NEW k \in 1 .. Len(xs)
      PROVE  /\ FirstOf(xs, k) = FirstOf(xs, k - 1) \cup {xs[k]}
             /\ xs[k] \in Did
             /\ Distinct(xs) => xs[k] \notin FirstOf(xs, k - 1)
  <2>1. 1 .. k = (1 .. (k - 1)) \cup {k} /\ k \notin 1 .. (k - 1)
    OBVIOUS
  <2>2. FirstOf(xs, k) = FirstOf(xs, k - 1) \cup {xs[k]}
    BY <2>1 DEF FirstOf
  <2>3. ASSUME Distinct(xs), NEW i \in 1 .. (k - 1) PROVE xs[i] # xs[k]
    <3>1. i \in 1 .. Len(xs) /\ i # k
      OBVIOUS
    <3> QED BY <2>3, <3>1 DEF Distinct
  <2> QED BY <2>2, <2>3 DEF FirstOf
<1> QED BY <1>1, <1>2

LEMMA PushUniqueKeeps ==
    ASSUME NEW xs \in Seq(Did), NEW x \in Did
    PROVE  /\ push_unique(xs, x) \in Seq(Did)
           /\ Members(push_unique(xs, x)) = Members(xs) \cup {x}
           /\ Distinct(xs) => Distinct(push_unique(xs, x))
<1>1. Contains(xs, x) <=> x \in Members(xs)
  BY DEF Contains, Members
<1> QED BY <1>1, AppendFacts DEF push_unique

\* The lists push_unique goes through.
LEMMA PushRun ==
    ASSUME NEW xs \in Seq(Did)
    PROVE  \E r : /\ r[0] = <<Local>>
                  /\ \A k \in 1 .. Len(xs) : r[k] = push_unique(r[k - 1], xs[k])
                  /\ FoldLeft(push_unique, <<Local>>, xs) = r[Len(xs)]
<1> DEFINE n == Len(xs)
           A == Seq(Did)
           g == [z \in A \X Did |-> push_unique(z[1], z[2])]
           R(h) == h = [s \in SUBSET (1 .. n) |->
                          IF s = {} THEN <<Local>>
                          ELSE push_unique(h[s \ {Max(s)}], xs[Max(s)])]
<1>1. n \in Nat /\ DOMAIN xs = 1 .. n /\ xs \in [1 .. n -> Did]
  OBVIOUS
<1>2. FoldLeft(push_unique, <<Local>>, xs) = (CHOOSE h : R(h))[1 .. n]
  BY <1>1 DEF FoldLeft, MapThenFoldSet
<1>3. ASSUME NEW a \in A, NEW b \in Did PROVE push_unique(a, b) \in A
  BY PushUniqueKeeps
<1>4. g \in [A \X Did -> A] /\ \A a \in A, b \in Did : g[<<a, b>>] = push_unique(a, b)
  BY <1>3
<1>5. <<Local>> \in A
  BY PeersAssumption
<1> HIDE DEF g, A, n
<1>6. PICK f \in [SUBSET (1 .. n) -> A] : FoldsBy(f, g, <<Local>>, xs, n)
  BY <1>1, <1>4, <1>5, FoldExists
<1>7. R(f)
  <2>1. ASSUME NEW s \in SUBSET (1 .. n), s # {}
        PROVE  g[<<f[s \ {Max(s)}], xs[Max(s)]>>]
               = push_unique(f[s \ {Max(s)}], xs[Max(s)])
    <3>1. xs[Max(s)] \in Did
      BY <1>1, <2>1, LastExists
    <3>2. f[s \ {Max(s)}] \in A
      OBVIOUS
    <3> QED BY <1>4, <3>1, <3>2
  <2>2. ASSUME NEW s \in SUBSET (1 .. n)
        PROVE  (IF s = {} THEN <<Local>> ELSE g[<<f[s \ {Max(s)}], xs[Max(s)]>>])
               = (IF s = {} THEN <<Local>> ELSE push_unique(f[s \ {Max(s)}], xs[Max(s)]))
    BY <2>1
  <2> QED BY <1>6, <2>2 DEF FoldsBy
<1> DEFINE h == CHOOSE q : R(q)
           r == [k \in 0 .. n |-> h[1 .. k]]
<1>8. R(h)
  <2> HIDE DEF R
  <2> QED BY <1>7
<1>9. \A s \in SUBSET (1 .. n) :
        h[s] = IF s = {} THEN <<Local>> ELSE push_unique(h[s \ {Max(s)}], xs[Max(s)])
  <2> HIDE DEF h
  <2> QED BY <1>8
<1> HIDE DEF h, R
<1>10. r[0] = <<Local>>
  <2>1. r[0] = h[1 .. 0] /\ (1 .. 0) = {} /\ (1 .. 0) \in SUBSET (1 .. n)
    BY <1>1
  <2> QED BY <1>9, <2>1
<1>11. ASSUME NEW k \in 1 .. n PROVE r[k] = push_unique(r[k - 1], xs[k])
  <2>1. r[k] = h[1 .. k] /\ r[k - 1] = h[1 .. (k - 1)]
    BY <1>1
  <2>2. /\ (1 .. k) \in SUBSET (1 .. n) /\ (1 .. k) # {}
        /\ Max(1 .. k) = k /\ (1 .. k) \ {k} = 1 .. (k - 1)
    BY <1>1, PrefixPositions
  <2>3. h[1 .. k] = push_unique(h[1 .. (k - 1)], xs[k])
    BY <1>9, <2>2
  <2> HIDE DEF r
  <2> QED BY <2>1, <2>3
<1>12. FoldLeft(push_unique, <<Local>>, xs) = r[n]
  <2>1. r[n] = h[1 .. n]
    BY <1>1
  <2> QED BY <1>2, <2>1 DEF h, R
<1> QED BY <1>10, <1>11, <1>12 DEF n

\* Every arrival once, the node itself first.
LEMMA PushAll ==
    ASSUME NEW xs \in Seq(Did)
    PROVE  LET u == FoldLeft(push_unique, <<Local>>, xs)
           IN  u \in Seq(Did) /\ Distinct(u) /\ Members(u) = {Local} \cup Members(xs)
<1> DEFINE n == Len(xs)
           P(s, k) == s \in Seq(Did) /\ Distinct(s) /\ Members(s) = {Local} \cup FirstOf(xs, k)
<1>0. n \in Nat
  OBVIOUS
<1>1. PICK r : /\ r[0] = <<Local>>
               /\ \A k \in 1 .. n : r[k] = push_unique(r[k - 1], xs[k])
               /\ FoldLeft(push_unique, <<Local>>, xs) = r[n]
  BY PushRun
<1> DEFINE T == {k \in 0 .. n : ~P(r[k], k)}
<1>2. T \in SUBSET Nat
  BY <1>0
<1>3. P(r[0], 0)
  <2>1. <<Local>> \in Seq(Did) /\ Len(<<Local>>) = 1 /\ <<Local>>[1] = Local
    BY PeersAssumption
  <2>2. Members(<<Local>>) = {Local} /\ Distinct(<<Local>>)
    BY <2>1 DEF Members, Distinct
  <2> QED BY <1>1, <2>1, <2>2, FirstFacts
<1>4. ASSUME NEW k \in 1 .. n, P(r[k - 1], k - 1) PROVE P(r[k], k)
  <2>1. xs[k] \in Did /\ FirstOf(xs, k) = FirstOf(xs, k - 1) \cup {xs[k]}
    BY FirstFacts
  <2>2. r[k] = push_unique(r[k - 1], xs[k])
    BY <1>1
  <2>3. /\ push_unique(r[k - 1], xs[k]) \in Seq(Did)
        /\ Distinct(push_unique(r[k - 1], xs[k]))
        /\ Members(push_unique(r[k - 1], xs[k])) = Members(r[k - 1]) \cup {xs[k]}
    BY <1>4, <2>1, PushUniqueKeeps
  <2> QED BY <1>4, <2>1, <2>2, <2>3
<1> HIDE DEF P
<1>5. T = {}
  <2>1. SUFFICES ASSUME T # {} PROVE FALSE
    OBVIOUS
  <2>2. PICK k \in T : \A m \in T : k <= m
    <3> HIDE DEF T
    <3> QED BY <1>2, <2>1, LeastNumber
  <2>3. k # 0 /\ k \in 0 .. n
    BY <1>3
  <2>4. k \in 1 .. n /\ k - 1 \in 0 .. n /\ k - 1 < k
    BY <1>0, <2>3
  <2>5. P(r[k - 1], k - 1)
    BY <2>2, <2>4
  <2> QED BY <1>4, <2>4, <2>5
<1>6. n \in 0 .. n
  BY <1>0
<1>7. P(FoldLeft(push_unique, <<Local>>, xs), n)
  BY <1>1, <1>5, <1>6
<1> HIDE DEF n
<1> QED BY <1>7, FirstFacts DEF P, n

\* The lists retain goes through.
LEMMA RetainRun ==
    ASSUME NEW xs \in Seq(Did)
    PROVE  \E r : /\ r[0] = <<>>
                  /\ \A k \in 1 .. Len(xs) : r[k] = keep_remote(r[k - 1], xs[k])
                  /\ retain_remote(xs) = r[Len(xs)]
<1> DEFINE n == Len(xs)
           A == Seq(Did)
           g == [z \in A \X Did |-> keep_remote(z[1], z[2])]
           R(h) == h = [s \in SUBSET (1 .. n) |->
                          IF s = {} THEN <<>> ELSE keep_remote(h[s \ {Max(s)}], xs[Max(s)])]
<1>1. n \in Nat /\ DOMAIN xs = 1 .. n /\ xs \in [1 .. n -> Did]
  OBVIOUS
<1>2. retain_remote(xs) = (CHOOSE h : R(h))[1 .. n]
  BY <1>1 DEF retain_remote, FoldLeft, MapThenFoldSet
<1>3. ASSUME NEW a \in A, NEW b \in Did PROVE keep_remote(a, b) \in A
  BY AppendFacts DEF keep_remote
<1>4. g \in [A \X Did -> A] /\ \A a \in A, b \in Did : g[<<a, b>>] = keep_remote(a, b)
  BY <1>3
<1>5. <<>> \in A
  OBVIOUS
<1> HIDE DEF g, A, n
<1>6. PICK f \in [SUBSET (1 .. n) -> A] : FoldsBy(f, g, <<>>, xs, n)
  BY <1>1, <1>4, <1>5, FoldExists
<1>7. R(f)
  <2>1. ASSUME NEW s \in SUBSET (1 .. n), s # {}
        PROVE  g[<<f[s \ {Max(s)}], xs[Max(s)]>>]
               = keep_remote(f[s \ {Max(s)}], xs[Max(s)])
    <3>1. xs[Max(s)] \in Did
      BY <1>1, <2>1, LastExists
    <3>2. f[s \ {Max(s)}] \in A
      OBVIOUS
    <3> QED BY <1>4, <3>1, <3>2
  <2>2. ASSUME NEW s \in SUBSET (1 .. n)
        PROVE  (IF s = {} THEN <<>> ELSE g[<<f[s \ {Max(s)}], xs[Max(s)]>>])
               = (IF s = {} THEN <<>> ELSE keep_remote(f[s \ {Max(s)}], xs[Max(s)]))
    BY <2>1
  <2> QED BY <1>6, <2>2 DEF FoldsBy
<1> DEFINE h == CHOOSE q : R(q)
           r == [k \in 0 .. n |-> h[1 .. k]]
<1>8. R(h)
  <2> HIDE DEF R
  <2> QED BY <1>7
<1>9. \A s \in SUBSET (1 .. n) :
        h[s] = IF s = {} THEN <<>> ELSE keep_remote(h[s \ {Max(s)}], xs[Max(s)])
  <2> HIDE DEF h
  <2> QED BY <1>8
<1> HIDE DEF h, R
<1>10. r[0] = <<>>
  <2>1. r[0] = h[1 .. 0] /\ (1 .. 0) = {} /\ (1 .. 0) \in SUBSET (1 .. n)
    BY <1>1
  <2> QED BY <1>9, <2>1
<1>11. ASSUME NEW k \in 1 .. n PROVE r[k] = keep_remote(r[k - 1], xs[k])
  <2>1. r[k] = h[1 .. k] /\ r[k - 1] = h[1 .. (k - 1)]
    BY <1>1
  <2>2. /\ (1 .. k) \in SUBSET (1 .. n) /\ (1 .. k) # {}
        /\ Max(1 .. k) = k /\ (1 .. k) \ {k} = 1 .. (k - 1)
    BY <1>1, PrefixPositions
  <2>3. h[1 .. k] = keep_remote(h[1 .. (k - 1)], xs[k])
    BY <1>9, <2>2
  <2> HIDE DEF r
  <2> QED BY <2>1, <2>3
<1>12. retain_remote(xs) = r[n]
  <2>1. r[n] = h[1 .. n]
    BY <1>1
  <2> QED BY <1>2, <2>1 DEF h, R
<1> QED BY <1>10, <1>11, <1>12 DEF n

\* Every element but the node itself, once.
LEMMA RetainAll ==
    ASSUME NEW xs \in Seq(Did), Distinct(xs)
    PROVE  /\ retain_remote(xs) \in Seq(Did) /\ Distinct(retain_remote(xs))
           /\ Members(retain_remote(xs)) = Members(xs) \ {Local}
<1> DEFINE n == Len(xs)
           P(s, k) == s \in Seq(Did) /\ Distinct(s) /\ Members(s) = FirstOf(xs, k) \ {Local}
<1>0. n \in Nat
  OBVIOUS
<1>1. PICK r : /\ r[0] = <<>>
               /\ \A k \in 1 .. n : r[k] = keep_remote(r[k - 1], xs[k])
               /\ retain_remote(xs) = r[n]
  BY RetainRun
<1> DEFINE T == {k \in 0 .. n : ~P(r[k], k)}
<1>2. T \in SUBSET Nat
  BY <1>0
<1>3. P(r[0], 0)
  BY <1>1, EmptyFacts, FirstFacts
<1>4. ASSUME NEW k \in 1 .. n, P(r[k - 1], k - 1) PROVE P(r[k], k)
  <2>1. /\ xs[k] \in Did /\ FirstOf(xs, k) = FirstOf(xs, k - 1) \cup {xs[k]}
        /\ xs[k] \notin FirstOf(xs, k - 1)
    BY FirstFacts
  <2>2. CASE xs[k] = Local
    BY <1>1, <1>4, <2>1, <2>2 DEF keep_remote
  <2>3. CASE xs[k] # Local
    <3>1. r[k] = Append(r[k - 1], xs[k])
      BY <1>1, <2>3 DEF keep_remote
    <3>2. xs[k] \notin Members(r[k - 1])
      BY <1>4, <2>1
    <3> QED BY <1>4, <2>1, <2>3, <3>1, <3>2, AppendFacts
  <2> QED BY <2>2, <2>3
<1> HIDE DEF P
<1>5. T = {}
  <2>1. SUFFICES ASSUME T # {} PROVE FALSE
    OBVIOUS
  <2>2. PICK k \in T : \A m \in T : k <= m
    <3> HIDE DEF T
    <3> QED BY <1>2, <2>1, LeastNumber
  <2>3. k # 0 /\ k \in 0 .. n
    BY <1>3
  <2>4. k \in 1 .. n /\ k - 1 \in 0 .. n /\ k - 1 < k
    BY <1>0, <2>3
  <2>5. P(r[k - 1], k - 1)
    BY <2>2, <2>4
  <2> QED BY <1>4, <2>4, <2>5
<1>6. n \in 0 .. n
  BY <1>0
<1>7. P(retain_remote(xs), n)
  BY <1>1, <1>5, <1>6
<1> HIDE DEF n
<1> QED BY <1>7, FirstFacts DEF P, n

\* Elements of a concatenation, by position.
LEMMA ConcatFacts ==
    ASSUME NEW xs \in Seq(Did), NEW ys \in Seq(Did)
    PROVE  /\ xs \o ys \in Seq(Did) /\ Len(xs \o ys) = Len(xs) + Len(ys)
           /\ \A i \in 1 .. Len(xs) + Len(ys) :
                (xs \o ys)[i] = IF i <= Len(xs) THEN xs[i] ELSE ys[i - Len(xs)]
OBVIOUS

LEMMA IntervalSize ==
    ASSUME NEW n \in Nat
    PROVE  IsFiniteSet(1 .. n) /\ Cardinality(1 .. n) = n
<1>1. 1 \in Int /\ n \in Int /\ (1 > n => n = 0)
  OBVIOUS
<1>2. IsFiniteSet(1 .. n) /\ Cardinality(1 .. n) = IF 1 > n THEN 0 ELSE n - 1 + 1
  BY <1>1, FS_Interval
<1> QED BY <1>1, <1>2

\* A new element inserted into an ascending list: those no farther are a prefix,
\* and the list stays ascending around the element.
LEMMA InsertAscending ==
    ASSUME NEW s \in Seq(Did), Ascending(s), NEW x \in Did, x \notin Members(s)
    PROVE  /\ insert_by_distance(s, x) \in Seq(Did)
           /\ Ascending(insert_by_distance(s, x))
           /\ Members(insert_by_distance(s, x)) = Members(s) \cup {x}
<1> DEFINE n == Len(s)
           d(y) == dist(Local, y)
           I == {i \in 1 .. n : d(s[i]) <= d(x)}
<1>1. n \in Nat /\ \A i \in 1 .. n : s[i] \in Did
  OBVIOUS
<1>2. \A y \in Did : d(y) \in Nat /\ (d(y) = d(x) => y = x)
  BY PeersAssumption, DistType
<1>3. \A i, j \in 1 .. n : i < j => d(s[i]) < d(s[j])
  BY DEF Ascending
<1>4. \A i \in 1 .. n : s[i] # x
  BY DEF Members
<1> HIDE DEF d
<1>5. \E m \in 0 .. n : I = 1 .. m
  <2>1. CASE I = {}
    <3>1. 0 \in 0 .. n /\ 1 .. 0 = {}
      BY <1>1
    <3> QED BY <2>1, <3>1
  <2>2. CASE I # {}
    <3> DEFINE m == Max(I)
    <3>1. m \in I /\ \A j \in I : m >= j
      <4>1. I \in SUBSET (1 .. n)
        OBVIOUS
      <4> HIDE DEF I, n
      <4> QED BY <1>1, <2>2, <4>1, LastExists
    <3> HIDE DEF m
    <3>2. ASSUME NEW i \in 1 .. m PROVE i \in I
      <4>1. m \in 1 .. n /\ d(s[m]) <= d(x) /\ i \in 1 .. n /\ (i < m \/ i = m)
        BY <1>1, <3>1
      <4>2. d(s[i]) <= d(s[m])
        BY <1>1, <1>2, <1>3, <4>1
      <4>3. d(s[i]) \in Nat /\ d(s[m]) \in Nat /\ d(x) \in Nat
        BY <1>1, <1>2, <4>1
      <4> QED BY <4>1, <4>2, <4>3
    <3>3. m \in 1 .. n /\ \A j \in I : j \in 1 .. m
      BY <1>1, <3>1
    <3>4. I = 1 .. m
      BY <3>2, <3>3
    <3>5. m \in 0 .. n
      BY <1>1, <3>3
    <3> QED BY <3>4, <3>5
  <2> QED BY <2>1, <2>2
<1>6. PICK m \in 0 .. n : I = 1 .. m
  BY <1>5
<1>7. Cardinality(I) = m
  <2>1. m \in Nat
    BY <1>1
  <2> QED BY <1>6, <2>1, IntervalSize
<1>8. \A i \in 1 .. n : IF i <= m THEN d(s[i]) < d(x) ELSE d(x) < d(s[i])
  <2> TAKE i \in 1 .. n
  <2>1. d(s[i]) \in Nat /\ d(x) \in Nat /\ d(s[i]) # d(x)
    BY <1>1, <1>2, <1>4
  <2>2. i \in I <=> i <= m
    BY <1>1, <1>6
  <2>3. i \in I <=> d(s[i]) <= d(x)
    OBVIOUS
  <2> HIDE DEF I
  <2> QED BY <2>1, <2>2, <2>3
<1> DEFINE t == insert_by_distance(s, x)
<1>9. t = SubSeq(s, 1, m) \o <<x>> \o SubSeq(s, m + 1, n)
  <2>1. t = SubSeq(s, 1, Cardinality(I)) \o <<x>> \o SubSeq(s, Cardinality(I) + 1, n)
    BY DEF insert_by_distance, d
  <2> QED BY <1>7, <2>1
<1> HIDE DEF I, t, n
<1>10. /\ t \in Seq(Did) /\ Len(t) = n + 1
       /\ \A j \in 1 .. n + 1 : t[j] = IF j <= m THEN s[j]
                                       ELSE IF j = m + 1 THEN x ELSE s[j - 1]
  <2> DEFINE a == SubSeq(s, 1, m)
             b == SubSeq(s, m + 1, n)
  <2>1. a \in Seq(Did) /\ Len(a) = m /\ \A j \in 1 .. m : a[j] = s[j]
    BY <1>1, <1>6 DEF n
  <2>2. b \in Seq(Did) /\ Len(b) = n - m /\ \A j \in 1 .. (n - m) : b[j] = s[m + j]
    BY <1>1, <1>6 DEF n
  <2> HIDE DEF a, b
  <2>3. a \o <<x>> = Append(a, x)
    BY <2>1
  <2> DEFINE c == Append(a, x)
  <2>4. /\ c \in Seq(Did) /\ Len(c) = m + 1
        /\ \A j \in 1 .. m + 1 : c[j] = IF j <= m THEN s[j] ELSE x
    BY <1>6, <2>1
  <2> HIDE DEF c
  <2>5. t = c \o b
    BY <1>9, <2>3 DEF a, b, c
  <2>6. t \in Seq(Did) /\ Len(t) = (m + 1) + (n - m)
    <3>1. t \in Seq(Did) /\ Len(t) = Len(c) + Len(b)
      BY <2>2, <2>4, <2>5, ConcatFacts
    <3> QED BY <2>2, <2>4, <3>1
  <2>7. Len(t) = n + 1
    BY <1>1, <1>6, <2>6
  <2>8. ASSUME NEW j \in 1 .. n + 1
        PROVE  t[j] = IF j <= m THEN s[j] ELSE IF j = m + 1 THEN x ELSE s[j - 1]
    <3>1. j \in 1 .. (Len(c) + Len(b)) /\ j \in Nat
      BY <1>1, <1>6, <2>2, <2>4
    <3>2. t[j] = IF j <= Len(c) THEN c[j] ELSE b[j - Len(c)]
      BY <2>2, <2>4, <2>5, <3>1, ConcatFacts
    <3>3. CASE j <= m + 1
      BY <1>1, <1>6, <2>4, <3>2, <3>3
    <3>4. CASE ~(j <= m + 1)
      <4>1. j - (m + 1) \in 1 .. (n - m) /\ m + (j - (m + 1)) = j - 1
        BY <1>1, <1>6, <3>4
      <4>2. t[j] = s[m + (j - (m + 1))]
        BY <2>2, <2>4, <3>2, <3>4, <4>1
      <4> QED BY <1>1, <1>6, <3>4, <4>1, <4>2
    <3> QED BY <3>3, <3>4
  <2> QED BY <2>6, <2>7, <2>8
<1>11. Members(t) = Members(s) \cup {x}
  <2>1. Members(t) = {t[j] : j \in 1 .. n + 1} /\ Members(s) = {s[j] : j \in 1 .. n}
    BY <1>10 DEF Members, n
  <2>2. ASSUME NEW j \in 1 .. n + 1 PROVE t[j] \in Members(s) \cup {x}
    <3>1. j <= m => j \in 1 .. n
      BY <1>1, <1>6
    <3>2. ~(j <= m) /\ j # m + 1 => j - 1 \in 1 .. n
      BY <1>1, <1>6
    <3> QED BY <1>10, <2>1, <3>1, <3>2
  <2>3. ASSUME NEW j \in 1 .. n PROVE s[j] \in Members(t)
    <3>1. CASE j <= m
      <4>1. j \in 1 .. n + 1 /\ t[j] = s[j]
        BY <1>1, <1>6, <1>10, <3>1
      <4> QED BY <2>1, <4>1
    <3>2. CASE ~(j <= m)
      <4>1. j + 1 \in 1 .. n + 1 /\ ~(j + 1 <= m) /\ j + 1 # m + 1 /\ j + 1 - 1 = j
        BY <1>1, <1>6, <3>2
      <4>2. t[j + 1] = s[j]
        BY <1>10, <4>1
      <4> QED BY <2>1, <4>1, <4>2
    <3> QED BY <3>1, <3>2
  <2>4. x \in Members(t)
    <3>1. m + 1 \in 1 .. n + 1 /\ ~(m + 1 <= m)
      BY <1>1, <1>6
    <3>2. t[m + 1] = x
      BY <1>10, <3>1
    <3> QED BY <2>1, <3>1, <3>2
  <2> QED BY <2>1, <2>2, <2>3, <2>4
<1>12. ASSUME NEW i \in 1 .. n + 1, NEW j \in 1 .. n + 1, i < j
       PROVE  d(t[i]) < d(t[j])
  <2>0. n \in Nat /\ m \in 0 .. n
    BY <1>1, <1>6
  <2>1. CASE j <= m
    <3>1. t[i] = s[i] /\ t[j] = s[j] /\ i \in 1 .. n /\ j \in 1 .. n
      BY <2>0, <1>10, <1>12, <2>1
    <3> QED BY <1>3, <1>12, <3>1
  <2>2. CASE i <= m /\ j = m + 1
    <3>1. t[i] = s[i] /\ t[j] = x /\ i \in 1 .. n
      BY <2>0, <1>10, <2>2
    <3> QED BY <1>8, <2>2, <3>1
  <2>3. CASE i <= m /\ j > m + 1
    <3>1. t[i] = s[i] /\ t[j] = s[j - 1] /\ i \in 1 .. n /\ j - 1 \in 1 .. n /\ i < j - 1
      BY <2>0, <1>10, <2>3
    <3> QED BY <1>3, <3>1
  <2>4. CASE i = m + 1
    <3>1. t[i] = x /\ t[j] = s[j - 1] /\ j - 1 \in 1 .. n /\ ~(j - 1 <= m)
      BY <2>0, <1>10, <1>12, <2>4
    <3> QED BY <1>8, <3>1
  <2>5. CASE i > m + 1
    <3>1. /\ t[i] = s[i - 1] /\ t[j] = s[j - 1]
          /\ i - 1 \in 1 .. n /\ j - 1 \in 1 .. n /\ i - 1 < j - 1
      BY <2>0, <1>10, <1>12, <2>5
    <3> QED BY <1>3, <3>1
  <2>6. j <= m \/ (i <= m /\ j = m + 1) \/ (i <= m /\ j > m + 1) \/ i = m + 1 \/ i > m + 1
    BY <2>0
  <2> QED BY <2>1, <2>2, <2>3, <2>4, <2>5, <2>6
<1>13. Ascending(t)
  BY <1>10, <1>12 DEF Ascending, d
<1> QED BY <1>10, <1>11, <1>13 DEF t

LEMMA InsertType ==
    ASSUME NEW s \in Seq(Did), NEW x \in Did
    PROVE  insert_by_distance(s, x) \in Seq(Did)
<1> DEFINE I == {i \in 1 .. Len(s) : dist(Local, s[i]) <= dist(Local, x)}
           m == Cardinality(I)
<1>1. m \in Nat /\ m <= Len(s)
  <2>1. Len(s) \in Nat /\ I \in SUBSET (1 .. Len(s))
    OBVIOUS
  <2>2. IsFiniteSet(1 .. Len(s)) /\ Cardinality(1 .. Len(s)) = Len(s)
    BY <2>1, IntervalSize
  <2> HIDE DEF I
  <2> QED BY <2>1, <2>2, FS_Subset, FS_CardinalityType
<1>2. insert_by_distance(s, x) = SubSeq(s, 1, m) \o <<x>> \o SubSeq(s, m + 1, Len(s))
  BY DEF insert_by_distance
<1> HIDE DEF m
<1>3. /\ SubSeq(s, 1, m) \in Seq(Did) /\ SubSeq(s, m + 1, Len(s)) \in Seq(Did)
      /\ <<x>> \in Seq(Did)
  BY <1>1
<1> QED BY <1>2, <1>3

\* The lists a sort goes through.
LEMMA SortRun ==
    ASSUME NEW xs \in Seq(Did)
    PROVE  \E r : /\ r[0] = <<>>
                  /\ \A k \in 1 .. Len(xs) : r[k] = insert_by_distance(r[k - 1], xs[k])
                  /\ sort_by_distance(xs) = r[Len(xs)]
<1> DEFINE n == Len(xs)
           A == Seq(Did)
           g == [z \in A \X Did |-> insert_by_distance(z[1], z[2])]
           R(h) == h = [s \in SUBSET (1 .. n) |->
                          IF s = {} THEN <<>>
                          ELSE insert_by_distance(h[s \ {Max(s)}], xs[Max(s)])]
<1>1. n \in Nat /\ DOMAIN xs = 1 .. n /\ xs \in [1 .. n -> Did]
  OBVIOUS
<1>2. sort_by_distance(xs) = (CHOOSE h : R(h))[1 .. n]
  BY <1>1 DEF sort_by_distance, FoldLeft, MapThenFoldSet
<1>3. ASSUME NEW a \in A, NEW b \in Did PROVE insert_by_distance(a, b) \in A
  BY InsertType
<1>4. g \in [A \X Did -> A] /\ \A a \in A, b \in Did : g[<<a, b>>] = insert_by_distance(a, b)
  BY <1>3
<1>5. <<>> \in A
  OBVIOUS
<1> HIDE DEF g, A, n
<1>6. PICK f \in [SUBSET (1 .. n) -> A] : FoldsBy(f, g, <<>>, xs, n)
  BY <1>1, <1>4, <1>5, FoldExists
<1>7. R(f)
  <2>1. ASSUME NEW s \in SUBSET (1 .. n), s # {}
        PROVE  g[<<f[s \ {Max(s)}], xs[Max(s)]>>]
               = insert_by_distance(f[s \ {Max(s)}], xs[Max(s)])
    <3>1. xs[Max(s)] \in Did
      BY <1>1, <2>1, LastExists
    <3>2. f[s \ {Max(s)}] \in A
      OBVIOUS
    <3> QED BY <1>4, <3>1, <3>2
  <2>2. ASSUME NEW s \in SUBSET (1 .. n)
        PROVE  (IF s = {} THEN <<>> ELSE g[<<f[s \ {Max(s)}], xs[Max(s)]>>])
               = (IF s = {} THEN <<>> ELSE insert_by_distance(f[s \ {Max(s)}], xs[Max(s)]))
    BY <2>1
  <2> QED BY <1>6, <2>2 DEF FoldsBy
<1> DEFINE h == CHOOSE q : R(q)
           r == [k \in 0 .. n |-> h[1 .. k]]
<1>8. R(h)
  <2> HIDE DEF R
  <2> QED BY <1>7
<1>9. \A s \in SUBSET (1 .. n) :
        h[s] = IF s = {} THEN <<>> ELSE insert_by_distance(h[s \ {Max(s)}], xs[Max(s)])
  <2> HIDE DEF h
  <2> QED BY <1>8
<1> HIDE DEF h, R
<1>10. r[0] = <<>>
  <2>1. r[0] = h[1 .. 0] /\ (1 .. 0) = {} /\ (1 .. 0) \in SUBSET (1 .. n)
    BY <1>1
  <2> QED BY <1>9, <2>1
<1>11. ASSUME NEW k \in 1 .. n PROVE r[k] = insert_by_distance(r[k - 1], xs[k])
  <2>1. r[k] = h[1 .. k] /\ r[k - 1] = h[1 .. (k - 1)]
    BY <1>1
  <2>2. /\ (1 .. k) \in SUBSET (1 .. n) /\ (1 .. k) # {}
        /\ Max(1 .. k) = k /\ (1 .. k) \ {k} = 1 .. (k - 1)
    BY <1>1, PrefixPositions
  <2>3. h[1 .. k] = insert_by_distance(h[1 .. (k - 1)], xs[k])
    BY <1>9, <2>2
  <2> HIDE DEF r
  <2> QED BY <2>1, <2>3
<1>12. sort_by_distance(xs) = r[n]
  <2>1. r[n] = h[1 .. n]
    BY <1>1
  <2> QED BY <1>2, <2>1 DEF h, R
<1> QED BY <1>10, <1>11, <1>12 DEF n

\* The same members by ascending distance.
LEMMA SortAll ==
    ASSUME NEW xs \in Seq(Did), Distinct(xs)
    PROVE  /\ sort_by_distance(xs) \in Seq(Did) /\ Ascending(sort_by_distance(xs))
           /\ Members(sort_by_distance(xs)) = Members(xs)
<1> DEFINE n == Len(xs)
           P(s, k) == s \in Seq(Did) /\ Ascending(s) /\ Members(s) = FirstOf(xs, k)
<1>0. n \in Nat
  OBVIOUS
<1>1. PICK r : /\ r[0] = <<>>
               /\ \A k \in 1 .. n : r[k] = insert_by_distance(r[k - 1], xs[k])
               /\ sort_by_distance(xs) = r[n]
  BY SortRun
<1> DEFINE T == {k \in 0 .. n : ~P(r[k], k)}
<1>2. T \in SUBSET Nat
  BY <1>0
<1>3. P(r[0], 0)
  BY <1>1, EmptyFacts, FirstFacts
<1>4. ASSUME NEW k \in 1 .. n, P(r[k - 1], k - 1) PROVE P(r[k], k)
  <2>1. /\ xs[k] \in Did /\ FirstOf(xs, k) = FirstOf(xs, k - 1) \cup {xs[k]}
        /\ xs[k] \notin FirstOf(xs, k - 1)
    BY FirstFacts
  <2>2. r[k] = insert_by_distance(r[k - 1], xs[k])
    BY <1>1
  <2>3. /\ insert_by_distance(r[k - 1], xs[k]) \in Seq(Did)
        /\ Ascending(insert_by_distance(r[k - 1], xs[k]))
        /\ Members(insert_by_distance(r[k - 1], xs[k])) = Members(r[k - 1]) \cup {xs[k]}
    BY <1>4, <2>1, InsertAscending
  <2> QED BY <1>4, <2>1, <2>2, <2>3
<1> HIDE DEF P
<1>5. T = {}
  <2>1. SUFFICES ASSUME T # {} PROVE FALSE
    OBVIOUS
  <2>2. PICK k \in T : \A m \in T : k <= m
    <3> HIDE DEF T
    <3> QED BY <1>2, <2>1, LeastNumber
  <2>3. k # 0 /\ k \in 0 .. n
    BY <1>3
  <2>4. k \in 1 .. n /\ k - 1 \in 0 .. n /\ k - 1 < k
    BY <1>0, <2>3
  <2>5. P(r[k - 1], k - 1)
    BY <2>2, <2>4
  <2> QED BY <1>4, <2>4, <2>5
<1>6. n \in 0 .. n
  BY <1>0
<1>7. P(sort_by_distance(xs), n)
  BY <1>1, <1>5, <1>6
<1> HIDE DEF n
<1> QED BY <1>7, FirstFacts DEF P, n

\* The lists dedup goes through.
LEMMA DedupRun ==
    ASSUME NEW xs \in Seq(Did)
    PROVE  \E r : /\ r[0] = <<>>
                  /\ \A k \in 1 .. Len(xs) : r[k] = keep_new(r[k - 1], xs[k])
                  /\ dedup(xs) = r[Len(xs)]
<1> DEFINE n == Len(xs)
           A == Seq(Did)
           g == [z \in A \X Did |-> keep_new(z[1], z[2])]
           R(h) == h = [s \in SUBSET (1 .. n) |->
                          IF s = {} THEN <<>> ELSE keep_new(h[s \ {Max(s)}], xs[Max(s)])]
<1>1. n \in Nat /\ DOMAIN xs = 1 .. n /\ xs \in [1 .. n -> Did]
  OBVIOUS
<1>2. dedup(xs) = (CHOOSE h : R(h))[1 .. n]
  BY <1>1 DEF dedup, FoldLeft, MapThenFoldSet
<1>3. ASSUME NEW a \in A, NEW b \in Did PROVE keep_new(a, b) \in A
  BY AppendFacts DEF keep_new
<1>4. g \in [A \X Did -> A] /\ \A a \in A, b \in Did : g[<<a, b>>] = keep_new(a, b)
  BY <1>3
<1>5. <<>> \in A
  OBVIOUS
<1> HIDE DEF g, A, n
<1>6. PICK f \in [SUBSET (1 .. n) -> A] : FoldsBy(f, g, <<>>, xs, n)
  BY <1>1, <1>4, <1>5, FoldExists
<1>7. R(f)
  <2>1. ASSUME NEW s \in SUBSET (1 .. n), s # {}
        PROVE  g[<<f[s \ {Max(s)}], xs[Max(s)]>>]
               = keep_new(f[s \ {Max(s)}], xs[Max(s)])
    <3>1. xs[Max(s)] \in Did
      BY <1>1, <2>1, LastExists
    <3>2. f[s \ {Max(s)}] \in A
      OBVIOUS
    <3> QED BY <1>4, <3>1, <3>2
  <2>2. ASSUME NEW s \in SUBSET (1 .. n)
        PROVE  (IF s = {} THEN <<>> ELSE g[<<f[s \ {Max(s)}], xs[Max(s)]>>])
               = (IF s = {} THEN <<>> ELSE keep_new(f[s \ {Max(s)}], xs[Max(s)]))
    BY <2>1
  <2> QED BY <1>6, <2>2 DEF FoldsBy
<1> DEFINE h == CHOOSE q : R(q)
           r == [k \in 0 .. n |-> h[1 .. k]]
<1>8. R(h)
  <2> HIDE DEF R
  <2> QED BY <1>7
<1>9. \A s \in SUBSET (1 .. n) :
        h[s] = IF s = {} THEN <<>> ELSE keep_new(h[s \ {Max(s)}], xs[Max(s)])
  <2> HIDE DEF h
  <2> QED BY <1>8
<1> HIDE DEF h, R
<1>10. r[0] = <<>>
  <2>1. r[0] = h[1 .. 0] /\ (1 .. 0) = {} /\ (1 .. 0) \in SUBSET (1 .. n)
    BY <1>1
  <2> QED BY <1>9, <2>1
<1>11. ASSUME NEW k \in 1 .. n PROVE r[k] = keep_new(r[k - 1], xs[k])
  <2>1. r[k] = h[1 .. k] /\ r[k - 1] = h[1 .. (k - 1)]
    BY <1>1
  <2>2. /\ (1 .. k) \in SUBSET (1 .. n) /\ (1 .. k) # {}
        /\ Max(1 .. k) = k /\ (1 .. k) \ {k} = 1 .. (k - 1)
    BY <1>1, PrefixPositions
  <2>3. h[1 .. k] = keep_new(h[1 .. (k - 1)], xs[k])
    BY <1>9, <2>2
  <2> HIDE DEF r
  <2> QED BY <2>1, <2>3
<1>12. dedup(xs) = r[n]
  <2>1. r[n] = h[1 .. n]
    BY <1>1
  <2> QED BY <1>2, <2>1 DEF h, R
<1> QED BY <1>10, <1>11, <1>12 DEF n

\* A list without repetition is left as it is.
LEMMA DedupAll ==
    ASSUME NEW xs \in Seq(Did), Distinct(xs)
    PROVE  dedup(xs) = xs
<1> DEFINE n == Len(xs)
           P(s, k) == s \in Seq(Did) /\ Len(s) = k /\ \A i \in 1 .. k : s[i] = xs[i]
<1>0. n \in Nat
  OBVIOUS
<1>1. PICK r : /\ r[0] = <<>>
               /\ \A k \in 1 .. n : r[k] = keep_new(r[k - 1], xs[k])
               /\ dedup(xs) = r[n]
  BY DedupRun
<1> DEFINE T == {k \in 0 .. n : ~P(r[k], k)}
<1>2. T \in SUBSET Nat
  BY <1>0
<1>3. P(r[0], 0)
  BY <1>1
<1>4. ASSUME NEW k \in 1 .. n, P(r[k - 1], k - 1) PROVE P(r[k], k)
  <2>1. xs[k] \in Did
    OBVIOUS
  <2> DEFINE s == r[k - 1]
  <2>2. s \in Seq(Did) /\ Len(s) = k - 1 /\ \A i \in 1 .. (k - 1) : s[i] = xs[i]
    BY <1>4
  <2>3. r[k] = IF s # <<>> /\ Last(s) = xs[k] THEN s ELSE Append(s, xs[k])
    BY <1>1 DEF keep_new
  <2> HIDE DEF s
  <2>4. s # <<>> => Last(s) # xs[k]
    <3> SUFFICES ASSUME s # <<>> PROVE Last(s) # xs[k]
      OBVIOUS
    <3>1. k - 1 \in 1 .. (k - 1) /\ k - 1 \in 1 .. n /\ k - 1 # k
      BY <1>0, <2>2
    <3>2. Last(s) = xs[k - 1]
      BY <2>2, <3>1 DEF Last
    <3> QED BY <3>1, <3>2 DEF Distinct
  <2>5. r[k] = Append(s, xs[k])
    BY <2>3, <2>4
  <2> QED BY <2>1, <2>2, <2>5
<1> HIDE DEF P
<1>5. T = {}
  <2>1. SUFFICES ASSUME T # {} PROVE FALSE
    OBVIOUS
  <2>2. PICK k \in T : \A m \in T : k <= m
    <3> HIDE DEF T
    <3> QED BY <1>2, <2>1, LeastNumber
  <2>3. k # 0 /\ k \in 0 .. n
    BY <1>3
  <2>4. k \in 1 .. n /\ k - 1 \in 0 .. n /\ k - 1 < k
    BY <1>0, <2>3
  <2>5. P(r[k - 1], k - 1)
    BY <2>2, <2>4
  <2> QED BY <1>4, <2>4, <2>5
<1>6. n \in 0 .. n
  BY <1>0
<1>7. P(dedup(xs), n)
  BY <1>1, <1>5, <1>6
<1> HIDE DEF n
<1> QED BY <1>7 DEF P, n

\* An ascending list has no repetition.
LEMMA AscendingDistinct ==
    ASSUME NEW xs \in Seq(Did), Ascending(xs)
    PROVE  Distinct(xs)
<1> SUFFICES ASSUME NEW i \in 1 .. Len(xs), NEW j \in 1 .. Len(xs), xs[i] = xs[j]
             PROVE  i = j
  BY DEF Distinct
<1>1. dist(Local, xs[i]) \in Nat
  <2>1. xs[i] \in Did
    OBVIOUS
  <2> QED BY <2>1, PeersAssumption, DistType
<1>2. ~(i < j) /\ ~(j < i)
  BY <1>1 DEF Ascending
<1> QED BY <1>2

\* Of an ascending list, the members that fewer than Capacity are nearer than
\* are those of its first Capacity positions.
LEMMA TruncateAll ==
    ASSUME NEW xs \in Seq(Did), Ascending(xs), Local \notin Members(xs)
    PROVE  Enumerates(truncate(xs, Capacity), sorted_successors(Local, Members(xs)))
<1> DEFINE n == Len(xs)
           d(y) == dist(Local, y)
           S == Members(xs)
           m == IF n < Capacity THEN n ELSE Capacity
           t == SubSeq(xs, 1, m)
           nearer(p) == {q \in S : d(q) < d(p)}
<1>1. n \in Nat /\ Capacity \in Nat /\ m \in 0 .. n
  BY GeometryAssumption
<1>2. t \in Seq(Did) /\ Len(t) = m /\ \A i \in 1 .. m : t[i] = xs[i]
  <2> HIDE DEF m
  <2> QED BY <1>1
<1>3. truncate(xs, Capacity) = t
  BY DEF truncate
<1>4. sorted_successors(Local, S) = {p \in S : Cardinality(nearer(p)) < Capacity}
  <2>1. S \ {Local} = S
    OBVIOUS
  <2> QED BY <2>1 DEF sorted_successors
<1>5. \A i, j \in 1 .. n : i < j => d(xs[i]) < d(xs[j])
  BY DEF Ascending
<1>6. \A i \in 1 .. n : d(xs[i]) \in Nat
  BY PeersAssumption, DistType
<1>7. S = {xs[i] : i \in 1 .. n}
  BY DEF Members
<1> HIDE DEF n, d, S, t
<1>8. ASSUME NEW i \in 1 .. n PROVE Cardinality(nearer(xs[i])) = i - 1
  <2> DEFINE f == [j \in 1 .. (i - 1) |-> xs[j]]
             D == 1 .. (i - 1)
  <2>0. \A j \in D : j \in 1 .. n /\ j < i
    BY <1>1
  <2>1. ASSUME NEW j \in 1 .. n PROVE d(xs[j]) < d(xs[i]) <=> j \in D
    <3>1. j < i => d(xs[j]) < d(xs[i])
      BY <1>5
    <3>2. i < j => d(xs[i]) < d(xs[j])
      BY <1>5
    <3>3. d(xs[i]) \in Nat /\ d(xs[j]) \in Nat /\ (j < i \/ j = i \/ i < j)
      BY <1>1, <1>6
    <3>4. j \in D <=> j < i
      BY <1>1
    <3> HIDE DEF D
    <3>5. CASE j < i
      BY <3>1, <3>4, <3>5
    <3>6. CASE j = i
      BY <1>1, <3>3, <3>4, <3>6
    <3>7. CASE i < j
      BY <1>1, <3>2, <3>3, <3>4, <3>7
    <3> QED BY <3>3, <3>5, <3>6, <3>7
  <2>2. nearer(xs[i]) = {xs[j] : j \in D}
    BY <1>7, <2>0, <2>1
  <2>3. ASSUME NEW a \in D, NEW b \in D, xs[a] = xs[b] PROVE a = b
    <3>1. d(xs[a]) \in Nat /\ ~(d(xs[a]) < d(xs[a]))
      BY <1>6, <2>0
    <3>2. ~(a < b) /\ ~(b < a)
      BY <1>5, <2>0, <2>3, <3>1
    <3> QED BY <3>2
  <2>4. f \in Bijection(D, nearer(xs[i]))
    <3>1. f \in [D -> nearer(xs[i])] /\ DOMAIN f = D /\ \A j \in D : f[j] = xs[j]
      BY <2>2
    <3> HIDE DEF f, D, nearer
    <3>2. f \in Injection(D, nearer(xs[i]))
      BY <2>3, <3>1 DEF Injection, IsInjective
    <3>3. f \in Surjection(D, nearer(xs[i]))
      BY <2>2, <3>1 DEF Surjection
    <3> QED BY <3>2, <3>3 DEF Bijection
  <2>5. IsFiniteSet(D) /\ Cardinality(D) = i - 1
    <3>1. i - 1 \in Int /\ 1 \in Int /\ (1 > i - 1 => i - 1 = 0)
      BY <1>1
    <3>2. IsFiniteSet(D) /\ Cardinality(D) = IF 1 > i - 1 THEN 0 ELSE i - 1 - 1 + 1
      BY <3>1, FS_Interval
    <3> QED BY <3>1, <3>2
  <2> HIDE DEF D, f, nearer
  <2>6. ExistsBijection(D, nearer(xs[i]))
    BY <2>4 DEF ExistsBijection
  <2> QED BY <2>5, <2>6, FS_Bijection
<1>9. \A i \in 1 .. n : i - 1 < Capacity <=> i \in 1 .. m
  BY <1>1
<1> HIDE DEF m, nearer
<1>10. {p \in S : Cardinality(nearer(p)) < Capacity} = {xs[i] : i \in 1 .. m}
  <2>1. \A i \in 1 .. m : i \in 1 .. n
    BY <1>1
  <2> QED BY <1>7, <1>8, <1>9, <2>1
<1>11. Members(t) = {xs[i] : i \in 1 .. m}
  BY <1>2 DEF Members
<1>12. ASSUME NEW i \in 1 .. Len(t) - 1 PROVE d(t[i]) < d(t[i + 1])
  <2>1. i \in 1 .. m /\ i + 1 \in 1 .. m /\ i \in 1 .. n /\ i + 1 \in 1 .. n /\ i < i + 1
    BY <1>1, <1>2
  <2> QED BY <1>2, <1>5, <2>1
<1>13. Enumerates(t, sorted_successors(Local, S))
  BY <1>4, <1>10, <1>11, <1>12 DEF Enumerates, d
<1> QED BY <1>3, <1>13 DEF S

\* However often and in whatever order peers arrive, the list that
\* stabilize_successors makes of them enumerates, by ascending distance, the
\* Capacity nearest of them that are not the node itself.
THEOREM MergedList ==
    ASSUME NEW xs \in Seq(Did)
    PROVE  Enumerates(sorted_list(FoldLeft(push_unique, <<Local>>, xs)),
                      sorted_successors(Local, Members(xs)))
<1> DEFINE u == FoldLeft(push_unique, <<Local>>, xs)
           v == retain_remote(u)
           w == sort_by_distance(v)
<1>1. u \in Seq(Did) /\ Distinct(u) /\ Members(u) = {Local} \cup Members(xs)
  BY PushAll
<1>2. sorted_list(u) = truncate(dedup(w), Capacity)
  BY DEF sorted_list
<1> HIDE DEF u
<1>3. v \in Seq(Did) /\ Distinct(v) /\ Members(v) = Members(u) \ {Local}
  BY <1>1, RetainAll
<1> HIDE DEF v
<1>4. w \in Seq(Did) /\ Ascending(w) /\ Members(w) = Members(v)
  BY <1>3, SortAll
<1> HIDE DEF w
<1>5. dedup(w) = w
  BY <1>4, AscendingDistinct, DedupAll
<1>6. Local \notin Members(w) /\ Members(w) = Members(xs) \ {Local}
  BY <1>1, <1>3, <1>4
<1>7. Enumerates(truncate(w, Capacity), sorted_successors(Local, Members(w)))
  BY <1>4, <1>6, TruncateAll
<1>8. sorted_successors(Local, Members(w)) = sorted_successors(Local, Members(xs))
  <2>1. Members(w) \ {Local} = Members(xs) \ {Local}
    BY <1>6
  <2> QED BY <2>1 DEF sorted_successors
<1> QED BY <1>2, <1>5, <1>7, <1>8 DEF u

\* Members of a concatenation.
LEMMA ConcatMembers ==
    ASSUME NEW xs \in Seq(Did), NEW ys \in Seq(Did)
    PROVE  xs \o ys \in Seq(Did) /\ Members(xs \o ys) = Members(xs) \cup Members(ys)
<1> DEFINE n == Len(xs)
           m == Len(ys)
           z == xs \o ys
<1>1. n \in Nat /\ m \in Nat /\ z \in Seq(Did) /\ Len(z) = n + m
  OBVIOUS
<1>2. \A i \in 1 .. n + m : z[i] = IF i <= n THEN xs[i] ELSE ys[i - n]
  OBVIOUS
<1>3. /\ Members(z) = {z[i] : i \in 1 .. n + m}
      /\ Members(xs) = {xs[i] : i \in 1 .. n} /\ Members(ys) = {ys[i] : i \in 1 .. m}
  BY <1>1 DEF Members
<1> HIDE DEF n, m, z
<1>4. ASSUME NEW i \in 1 .. n + m PROVE z[i] \in Members(xs) \cup Members(ys)
  <2>1. i <= n => i \in 1 .. n
    BY <1>1
  <2>2. ~(i <= n) => i - n \in 1 .. m
    BY <1>1
  <2> QED BY <1>2, <1>3, <2>1, <2>2
<1>5. ASSUME NEW i \in 1 .. n PROVE xs[i] \in Members(z)
  <2>1. i \in 1 .. n + m /\ i <= n
    BY <1>1
  <2> QED BY <1>2, <1>3, <2>1
<1>6. ASSUME NEW i \in 1 .. m PROVE ys[i] \in Members(z)
  <2>1. n + i \in 1 .. n + m /\ ~(n + i <= n) /\ (n + i) - n = i
    BY <1>1
  <2>2. PICK j \in 1 .. n + m : ~(j <= n) /\ j - n = i
    BY <2>1
  <2>3. z[j] = ys[i]
    BY <1>2, <2>2
  <2> QED BY <1>3, <2>3
<1>7. Members(z) = Members(xs) \cup Members(ys)
  BY <1>3, <1>4, <1>5, <1>6
<1> QED BY <1>1, <1>7 DEF z

LEMMA MergeInAnyOrder == TypeOK => MergeIsASet
<1> SUFFICES ASSUME TypeOK,
                    NEW cur \in SetToSeqs(successors_), NEW S \in SUBSET Peers,
                    NEW pred \in {None, Local} \cup Peers, NEW report \in SetToSeqs(S)
             PROVE  Enumerates(stabilize_list(cur, report \o cur, pred),
                       stabilize_successors(Local, successors_, S \cup successors_, pred))
  BY DEF MergeIsASet
<1>1. successors_ \in SUBSET Did /\ S \in SUBSET Did /\ pred \in {None} \cup Did
  BY PeersAssumption DEF TypeOK
<1>2. cur \in Seq(successors_) /\ Members(cur) = successors_
  BY <1>1, PeersFinite, Enumeration
<1>3. report \in Seq(S) /\ Members(report) = S
  BY <1>1, PeersFinite, Enumeration
<1>4. cur \in Seq(Did) /\ report \in Seq(Did)
  BY <1>1, <1>2, <1>3
<1> DEFINE mid == IF pred = None THEN <<>> ELSE <<pred>>
           arrivals == cur \o mid \o (report \o cur)
<1>5. mid \in Seq(Did) /\ Members(mid) = {pred} \ {None}
  <2>1. CASE pred = None
    BY <2>1, EmptyFacts
  <2>2. CASE pred # None
    <3>1. <<pred>> \in Seq(Did) /\ Len(<<pred>>) = 1 /\ <<pred>>[1] = pred
      BY <1>1, <2>2
    <3>2. Members(<<pred>>) = {pred}
      BY <3>1 DEF Members
    <3> QED BY <2>2, <3>1, <3>2
  <2> QED BY <2>1, <2>2
<1>6. stabilize_list(cur, report \o cur, pred)
      = sorted_list(FoldLeft(push_unique, <<Local>>, arrivals))
  BY DEF stabilize_list
<1> HIDE DEF mid
<1>7. cur \o mid \in Seq(Did) /\ Members(cur \o mid) = successors_ \cup ({pred} \ {None})
  BY <1>2, <1>4, <1>5, ConcatMembers
<1>8. report \o cur \in Seq(Did) /\ Members(report \o cur) = S \cup successors_
  BY <1>2, <1>3, <1>4, ConcatMembers
<1>9. /\ arrivals \in Seq(Did)
      /\ Members(arrivals) = (successors_ \cup ({pred} \ {None})) \cup (S \cup successors_)
  BY <1>7, <1>8, ConcatMembers
<1> HIDE DEF arrivals
<1>10. Members(arrivals) = successors_ \cup (S \cup successors_) \cup ({pred} \ {None})
  BY <1>9
<1>11. stabilize_successors(Local, successors_, S \cup successors_, pred)
       = sorted_successors(Local, Members(arrivals))
  BY <1>10 DEF stabilize_successors, successors
<1> QED BY <1>6, <1>9, <1>11, MergedList

-----------------------------------------------------------------------------
\* The list of stabilize_successors is at all times the enumeration by distance
\* of the set the model merges, for any table size, capacity, peers and report,
\* in any order of the successors and of the report.
THEOREM MergesAsASet == Spec => []MergeIsASet
BY TypeCorrect, MergeInAnyOrder, PTL

\* The fold of finger_join over the successor list of a reachable ring gives,
\* in every order, the table the model commits in one join.
THEOREM JoinsAsASet == Spec => []JoinIsASet
BY TypeCorrect, JoinInAnyOrder, PTL

\* The run-removal loop leaves the removed peer in no slot of any reachable
\* table, and gives every slot the hint that the set-level removal gives it.
THEOREM RemovesByRuns == Spec => []RemovalByRuns
BY TypeCorrect, RunsRemoved, PTL

-----------------------------------------------------------------------------
(* Converged rings: who owns a position, what a lookup answers, and that    *)
(* what a node learns does not depend on the order it learns it in.         *)

\* Farthest picks a member, and no member is farther.
LEMMA FarthestIsMost ==
    ASSUME NEW local \in Did, NEW S \in SUBSET Did, S # {}
    PROVE  /\ Farthest(local, S) \in S
           /\ \A q \in S : dist(local, q) <= dist(local, Farthest(local, S))
<1>1. \A p \in S : dist(local, p) \in Nat /\ RingSize - dist(local, p) \in Nat
  BY DistType, RingSizeType
<1>2. \E p \in S : \A q \in S : dist(local, q) <= dist(local, p)
  <2> DEFINE m == [p \in S |-> RingSize - dist(local, p)]
  <2>1. m \in [S -> Nat] /\ \A p \in S : m[p] = RingSize - dist(local, p)
    BY <1>1
  <2> HIDE DEF m
  <2>2. \E p \in S : \A q \in S : m[p] <= m[q]
    BY <2>1, LeastMeasure
  <2> QED BY <1>1, <2>1, <2>2, RingSizeType
<1> DEFINE P(p) == \A q \in S : dist(local, q) <= dist(local, p)
<1>3. \E p \in S : P(p)
  BY <1>2
<1>4. Farthest(local, S) = CHOOSE p \in S : P(p)
  BY DEF Farthest
<1> HIDE DEF P
<1>5. Farthest(local, S) \in S /\ P(Farthest(local, S))
  BY <1>3, <1>4, Zenon
<1> QED BY <1>5 DEF P

\* Whether a node of the converged ring of `all` answers for a position: it
\* knows the successors and the predecessor that the specification gives it.
Responsible(all, n, id) ==
    is_responsible_for(n, successors(all, n), predecessor(all, n), id)

\* A nearest member is the nearest one: distances tell members apart.
LEMMA NearestIsUnique ==
    ASSUME NEW local \in Did, NEW S \in SUBSET Did, NEW p \in S,
           \A q \in S : dist(local, p) <= dist(local, q)
    PROVE  Nearest(local, S) = p
<1>1. Nearest(local, S) \in S /\ dist(local, Nearest(local, S)) <= dist(local, p)
  BY NearestIsLeast
<1>2. dist(local, p) <= dist(local, Nearest(local, S))
  BY <1>1
<1>3. dist(local, p) \in Nat /\ dist(local, Nearest(local, S)) \in Nat
  BY <1>1, DistType
<1>4. dist(local, p) = dist(local, Nearest(local, S))
  BY <1>1, <1>2, <1>3
<1> QED BY <1>1, <1>4, DistType

\* Between a node and the farthest member ahead of it, which is the one behind
\* it, lies nobody: what the node is responsible for it is the first to reach.
LEMMA OwnerReachedFirst ==
    ASSUME NEW n \in Did, NEW p \in Did, NEW q \in Did, NEW id \in Did,
           p # n, q = n \/ dist(n, q) <= dist(n, p)
    PROVE  /\ id # p /\ dist(p, id) <= dist(p, n) => dist(id, n) <= dist(id, q)
           /\ ~(id # p /\ dist(p, id) <= dist(p, n)) => dist(id, p) < dist(id, n)
<1> DEFINE N == RingSize
<1>1. N \in Nat \ {0} /\ Did = 0 .. N - 1
  BY RingSizeType DEF Did
<1>2. \A a, b \in Did : dist(a, b) = IF a <= b THEN b - a ELSE b - a + N
  BY DEF dist
<1> HIDE DEF N
<1>3. ASSUME id # p, dist(p, id) <= dist(p, n) PROVE dist(id, n) <= dist(id, q)
  <2>1. /\ dist(p, id) = IF p <= id THEN id - p ELSE id - p + N
        /\ dist(p, n) = IF p <= n THEN n - p ELSE n - p + N
        /\ dist(id, n) = IF id <= n THEN n - id ELSE n - id + N
        /\ dist(id, q) = IF id <= q THEN q - id ELSE q - id + N
        /\ dist(n, q) = IF n <= q THEN q - n ELSE q - n + N
        /\ dist(n, p) = IF n <= p THEN p - n ELSE p - n + N
    BY <1>2
  <2> QED BY <1>1, <1>3, <2>1
<1>4. ASSUME ~(id # p /\ dist(p, id) <= dist(p, n)) PROVE dist(id, p) < dist(id, n)
  <2>1. /\ dist(p, id) = IF p <= id THEN id - p ELSE id - p + N
        /\ dist(p, n) = IF p <= n THEN n - p ELSE n - p + N
        /\ dist(id, n) = IF id <= n THEN n - id ELSE n - id + N
        /\ dist(id, p) = IF id <= p THEN p - id ELSE p - id + N
    BY <1>2
  <2> QED BY <1>1, <1>4, <2>1
<1> QED BY <1>3, <1>4

\* In the converged ring of any members every position has one owner, the first
\* member at or after it: is_responsible_for divides the ring, whatever the
\* successor capacity, and a node that stands alone owns all of it.
THEOREM OwnersDivideTheRing ==
    ASSUME NEW all \in SUBSET Did, NEW id \in Did
    PROVE  \A n \in all : Responsible(all, n, id) <=> n = Nearest(id, all)
<1> SUFFICES ASSUME NEW n \in all PROVE Responsible(all, n, id) <=> n = Nearest(id, all)
  OBVIOUS
<1> DEFINE pred == predecessor(all, n)
<1>0. None \notin Did /\ n \in Did
  BY NoneIsNoDid
<1>1. CASE all \ {n} = {}
  <2>1. pred = None
    BY <1>1 DEF predecessor, Farthest
  <2>2. successors(all, n) = {}
    BY <1>1, SortedSuccessorsSubset DEF successors
  <2>3. Responsible(all, n, id)
    BY <2>1, <2>2 DEF Responsible, is_responsible_for, successor_head, Nearest
  <2>4. \A q \in all : q = n
    BY <1>1
  <2>5. Nearest(id, all) = n
    BY <2>4, NearestIsLeast
  <2> QED BY <2>3, <2>5
<1>2. CASE all \ {n} # {}
  <2>1. pred \in all \ {n} /\ \A q \in all \ {n} : dist(n, q) <= dist(n, pred)
    BY <1>0, <1>2, FarthestIsMost DEF predecessor
  <2>2. pred \in Did /\ pred # n /\ pred # None
    BY <1>0, <2>1
  <2>3. Responsible(all, n, id) <=> id # pred /\ dist(pred, id) <= dist(pred, n)
    BY <2>2 DEF Responsible, is_responsible_for
  <2> HIDE DEF pred
  <2>4. ASSUME id # pred /\ dist(pred, id) <= dist(pred, n) PROVE n = Nearest(id, all)
    <3>1. \A q \in all : dist(id, n) <= dist(id, q)
      BY <1>0, <2>1, <2>2, <2>4, OwnerReachedFirst
    <3> QED BY <3>1, NearestIsUnique
  <2>5. ASSUME ~(id # pred /\ dist(pred, id) <= dist(pred, n)) PROVE n # Nearest(id, all)
    <3>1. dist(id, pred) < dist(id, n)
      <4>1. dist(n, pred) <= dist(n, pred)
        BY <1>0, <2>2, DistType
      <4> QED BY <1>0, <2>2, <2>5, <4>1, OwnerReachedFirst
    <3>2. dist(id, Nearest(id, all)) <= dist(id, pred)
      BY <2>1, NearestIsLeast
    <3>3. dist(id, pred) \in Nat /\ dist(id, n) \in Nat
      BY <1>0, <2>2, DistType
    <3> QED BY <3>1, <3>2, <3>3
  <2> QED BY <2>3, <2>4, <2>5
<1> QED BY <1>1, <1>2

\* The head of a converged list is the nearest other member, if there is room
\* for one at all.
LEMMA ConvergedHead ==
    ASSUME NEW all \in SUBSET Did, NEW n \in Did, Capacity # 0
    PROVE  successor_head(n, successors(all, n)) = Nearest(n, all \ {n})
<1> DEFINE remote == all \ {n}
           h == Nearest(n, remote)
           nearer(p) == {q \in remote : dist(n, q) < dist(n, p)}
<1>1. successors(all, n) = {p \in remote : Cardinality(nearer(p)) < Capacity}
  BY DEF successors, sorted_successors
<1>2. successor_head(n, successors(all, n)) = Nearest(n, successors(all, n))
  <2>1. successors(all, n) \ {n} = successors(all, n)
    BY <1>1
  <2> QED BY <2>1 DEF successor_head
<1>3. CASE remote = {}
  <2>1. successors(all, n) = remote
    BY <1>1, <1>3
  <2> QED BY <1>2, <2>1
<1>4. CASE remote # {}
  <2>1. h \in remote /\ \A q \in remote : dist(n, h) <= dist(n, q)
    BY <1>4, NearestIsLeast
  <2>2. nearer(h) = {}
    <3>1. \A q \in remote : ~(dist(n, q) < dist(n, h))
      <4> TAKE q \in remote
      <4>1. dist(n, q) \in Nat /\ dist(n, h) \in Nat /\ dist(n, h) <= dist(n, q)
        BY <2>1, DistType
      <4> QED BY <4>1
    <3> HIDE DEF h
    <3> QED BY <3>1
  <2>3. Cardinality(nearer(h)) < Capacity
    <3>1. Cardinality(nearer(h)) = 0
      BY <2>2, FS_EmptySet
    <3> QED BY <3>1, GeometryAssumption
  <2>4. h \in successors(all, n)
    BY <1>1, <2>1, <2>3
  <2>5. \A q \in successors(all, n) : dist(n, h) <= dist(n, q)
    BY <1>1, <2>1
  <2>6. successors(all, n) \in SUBSET Did
    BY <1>1
  <2> HIDE DEF h
  <2>7. Nearest(n, successors(all, n)) = h
    BY <2>4, <2>5, <2>6, NearestIsUnique
  <2> QED BY <1>2, <2>7 DEF h
<1> QED BY <1>3, <1>4

\* What lies between a node and its head the head is the first to reach.
LEMMA HeadReachedFirst ==
    ASSUME NEW n \in Did, NEW h \in Did, NEW q \in Did, NEW did \in Did,
           did # n, dist(n, did) <= dist(n, h), q = n \/ dist(n, h) <= dist(n, q)
    PROVE  dist(did, h) <= dist(did, q)
<1> DEFINE N == RingSize
<1>1. N \in Nat \ {0} /\ Did = 0 .. N - 1
  BY RingSizeType DEF Did
<1>2. \A a, b \in Did : dist(a, b) = IF a <= b THEN b - a ELSE b - a + N
  BY DEF dist
<1> HIDE DEF N
<1>3. /\ dist(n, did) = IF n <= did THEN did - n ELSE did - n + N
      /\ dist(n, h) = IF n <= h THEN h - n ELSE h - n + N
      /\ dist(n, q) = IF n <= q THEN q - n ELSE q - n + N
      /\ dist(did, h) = IF did <= h THEN h - did ELSE h - did + N
      /\ dist(did, q) = IF did <= q THEN q - did ELSE q - did + N
  BY <1>2
<1> QED BY <1>1, <1>3

\* A node of a converged ring that answers a lookup itself names the owner of
\* the position, whatever its fingers hold.  The position of the node itself is
\* the exception: there find_successor names the node that comes next, which is
\* what a node that looks for its own successor asks for.
THEOREM AnswersNameTheOwner ==
    ASSUME NEW all \in SUBSET Did, NEW n \in all, NEW did \in Did, did # n,
           NEW fing, Capacity # 0,
           find_successor(n, successors(all, n), fing, did).local
    PROVE  LET peer == find_successor(n, successors(all, n), fing, did).peer
           IN  peer \in all /\ Responsible(all, peer, did)
<1> DEFINE first == successor_head(n, successors(all, n))
           a == find_successor(n, successors(all, n), fing, did)
<1>0. n \in Did /\ None \notin Did
  BY NoneIsNoDid
<1>1. first = Nearest(n, all \ {n})
  BY <1>0, ConvergedHead
<1>2. first \in (all \ {n}) \cup {None} /\ (first = None <=> all \ {n} = {})
  BY <1>0, <1>1, NearestType
<1>3. a.peer \in all /\ a.peer = Nearest(did, all)
  <2>1. CASE first = None
    <3>1. a.peer = n
      BY <2>1 DEF find_successor
    <3>2. \A q \in all : q = n
      BY <1>2, <2>1
    <3>3. Nearest(did, all) = n
      BY <3>2, NearestIsLeast
    <3> QED BY <3>1, <3>3
  <2>2. CASE first # None
    <3>1. dist(n, did) <= dist(n, first) /\ a.peer = first
      BY <2>2 DEF find_successor
    <3>2. first \in all \ {n} /\ \A q \in all \ {n} : dist(n, first) <= dist(n, q)
      BY <1>0, <1>1, <1>2, <2>2, NearestIsLeast
    <3> HIDE DEF first, a
    <3>3. \A q \in all : dist(did, first) <= dist(did, q)
      BY <1>0, <3>1, <3>2, HeadReachedFirst
    <3>4. Nearest(did, all) = first
      BY <3>2, <3>3, NearestIsUnique
    <3> QED BY <3>1, <3>2, <3>4
  <2> QED BY <2>1, <2>2
<1> QED BY <1>3, OwnersDivideTheRing

\* The nearest of two sets is the nearer of their nearest.
LEMMA NearestOfUnion ==
    ASSUME NEW n \in Did, NEW A \in SUBSET Did, NEW B \in SUBSET Did
    PROVE  Nearest(n, A \cup B)
           = IF \/ Nearest(n, B) = None
                \/ /\ Nearest(n, A) # None
                   /\ dist(n, Nearest(n, A)) < dist(n, Nearest(n, B))
             THEN Nearest(n, A) ELSE Nearest(n, B)
<1> DEFINE a == Nearest(n, A)
           b == Nearest(n, B)
           d(x) == dist(n, x)
<1>1. /\ (a = None <=> A = {}) /\ (A # {} => a \in A /\ \A q \in A : d(a) <= d(q))
      /\ (b = None <=> B = {}) /\ (B # {} => b \in B /\ \A q \in B : d(b) <= d(q))
  BY NearestType, NearestIsLeast
<1>2. \A x \in Did : d(x) \in Nat
  BY DistType
<1>3. CASE B = {}
  <2>1. A \cup B = A
    BY <1>3
  <2> QED BY <1>1, <1>3, <2>1
<1>4. CASE A = {} /\ B # {}
  <2>1. A \cup B = B
    BY <1>4
  <2> QED BY <1>1, <1>4, <2>1
<1>5. CASE A # {} /\ B # {}
  <2>1. a # None /\ b # None /\ a \in A /\ b \in B
    BY <1>1, <1>5
  <2>2. d(a) \in Nat /\ d(b) \in Nat /\ \A q \in A \cup B : d(q) \in Nat
    BY <1>2, <2>1
  <2>3. CASE d(a) < d(b)
    <3>1. \A q \in A \cup B : d(a) <= d(q)
      BY <1>1, <1>5, <2>2, <2>3
    <3>2. Nearest(n, A \cup B) = a
      <4> HIDE DEF a
      <4> QED BY <2>1, <3>1, NearestIsUnique
    <3> QED BY <2>1, <2>3, <3>2
  <2>4. CASE ~(d(a) < d(b))
    <3>1. \A q \in A \cup B : d(b) <= d(q)
      BY <1>1, <1>5, <2>2, <2>4
    <3>2. Nearest(n, A \cup B) = b
      <4> HIDE DEF b
      <4> QED BY <2>1, <3>1, NearestIsUnique
    <3> QED BY <2>1, <2>4, <3>2
  <2> QED BY <2>3, <2>4
<1> QED BY <1>3, <1>4, <1>5

\* A farthest member is the farthest one.
LEMMA FarthestIsUnique ==
    ASSUME NEW local \in Did, NEW S \in SUBSET Did, NEW p \in S,
           \A q \in S : dist(local, q) <= dist(local, p)
    PROVE  Farthest(local, S) = p
<1>1. Farthest(local, S) \in S /\ dist(local, p) <= dist(local, Farthest(local, S))
  BY FarthestIsMost
<1>2. dist(local, Farthest(local, S)) <= dist(local, p)
  BY <1>1
<1>3. dist(local, p) \in Nat /\ dist(local, Farthest(local, S)) \in Nat
  BY <1>1, DistType
<1>4. dist(local, p) = dist(local, Farthest(local, S))
  BY <1>1, <1>2, <1>3
<1> QED BY <1>1, <1>4, DistType

\* Selecting before a merge loses nothing: whoever was cut off had Capacity
\* nearer peers, and they are all still there.
LEMMA SelectionBeforeMerge ==
    ASSUME NEW n \in Did, NEW S \in SUBSET Did, NEW T \in SUBSET Did
    PROVE  successors(successors(S, n) \cup T, n) = successors(S \cup T, n)
<1> DEFINE C == Capacity
           d(x) == dist(n, x)
           K == successors(S, n)
           N(U, p) == {q \in U \ {n} : d(q) < d(p)}
<1>1. C \in Nat /\ \A x \in Did : d(x) \in Nat
  BY GeometryAssumption, DistType
<1>2. \A U : successors(U, n) = {p \in U \ {n} : Cardinality(N(U, p)) < C}
  BY DEF successors, sorted_successors
<1>3. ASSUME NEW U \in SUBSET Did, NEW p
      PROVE  IsFiniteSet(N(U, p)) /\ Cardinality(N(U, p)) \in Nat
  <2>1. N(U, p) \in SUBSET Did
    OBVIOUS
  <2> HIDE DEF N
  <2> QED BY <2>1, PeersFinite, FS_CardinalityType
<1>4. K \subseteq S /\ n \notin K
  BY <1>2
<1>5. \A p, U, V : U \subseteq V => N(U, p) \subseteq N(V, p)
  OBVIOUS
<1>6. ASSUME NEW U \in SUBSET Did, NEW V \in SUBSET Did, U \subseteq V, NEW p
      PROVE  Cardinality(N(U, p)) <= Cardinality(N(V, p))
  <2>1. N(U, p) \in SUBSET N(V, p)
    BY <1>5, <1>6
  <2> HIDE DEF N
  <2> QED BY <1>3, <2>1, FS_Subset
<1> DEFINE W == K \cup T
           X == S \cup T
<1>7. W \in SUBSET Did /\ X \in SUBSET Did /\ W \subseteq X
  BY <1>4
<1>8. ASSUME NEW p \in successors(X, n) PROVE p \in successors(W, n)
  <2>1. p \in X \ {n} /\ Cardinality(N(X, p)) < C
    BY <1>2
  <2>2. Cardinality(N(W, p)) < C
    <3>1. Cardinality(N(W, p)) <= Cardinality(N(X, p))
      BY <1>6, <1>7
    <3> HIDE DEF N, W, X
    <3> QED BY <1>1, <1>3, <1>7, <2>1, <3>1
  <2>3. p \in S => p \in K
    <3> SUFFICES ASSUME p \in S PROVE p \in K
      OBVIOUS
    <3>1. Cardinality(N(S, p)) <= Cardinality(N(X, p))
      BY <1>6, <1>7
    <3>2. Cardinality(N(S, p)) < C
      <4> HIDE DEF N, X, C
      <4> QED BY <1>1, <1>3, <1>7, <2>1, <3>1
    <3> QED BY <1>2, <2>1, <3>2
  <2>4. p \in W \ {n}
    BY <2>1, <2>3
  <2> QED BY <1>2, <2>2, <2>4
<1>9. ASSUME NEW p \in successors(W, n) PROVE p \in successors(X, n)
  <2>1. p \in W \ {n} /\ Cardinality(N(W, p)) < C
    BY <1>2
  <2>2. ASSUME NEW s \in (S \ {n}) \ K, d(s) < d(p) PROVE FALSE
    <3> DEFINE L == (S \ {n}) \ K
               t == Nearest(n, L)
    <3>1. t \in L /\ \A q \in L : d(t) <= d(q)
      <4>1. L \in SUBSET Did /\ L # {}
        BY <2>2
      <4> HIDE DEF L
      <4> QED BY <4>1, NearestIsLeast
    <3>2. ~(Cardinality(N(S, t)) < C)
      BY <1>2, <3>1
    <3>3. t \in Did /\ s \in Did /\ p \in Did
      BY <1>7, <2>1, <3>1
    <3>4. d(t) <= d(s) /\ d(t) \in Nat /\ d(s) \in Nat /\ d(p) \in Nat
      BY <1>1, <3>1, <3>3
    <3>5. ASSUME NEW q \in N(S, t) PROVE q \in N(W, p)
      <4>1. q \in S \ {n} /\ d(q) < d(t) /\ d(q) \in Nat
        BY <1>1
      <4>2. q \notin L
        BY <3>1, <3>4, <4>1
      <4>3. d(q) < d(p)
        BY <2>2, <3>4, <4>1
      <4> QED BY <4>1, <4>2, <4>3
    <3>6. Cardinality(N(S, t)) <= Cardinality(N(W, p))
      <4>1. N(S, t) \in SUBSET N(W, p)
        BY <3>5
      <4> HIDE DEF N, W
      <4> QED BY <1>3, <1>7, <4>1, FS_Subset
    <3> HIDE DEF N, W, C, t
    <3> QED BY <1>1, <1>3, <1>7, <2>1, <3>2, <3>6
  <2>3. N(X, p) = N(W, p)
    BY <1>4, <2>2
  <2> QED BY <1>2, <1>7, <2>1, <2>3
<1> QED BY <1>8, <1>9

\* What a node holds depends on the set of peers it has been told of, not on
\* their order or on how they came together: selecting successors, joining
\* fingers and refining the predecessor step by step arrive, for any members and
\* any capacity, at what the specification operators give for all of them.
THEOREM LearningIsASet ==
    ASSUME NEW n \in Did, NEW S \in SUBSET Did, NEW T \in SUBSET Did
    PROVE  /\ successors(successors(S, n) \cup T, n) = successors(S \cup T, n)
           /\ finger_join(n, [i \in Slot |-> finger(S, n, i)], T)
              = [i \in Slot |-> finger(S \cup T, n, i)]
           /\ \A c \in T : rectify_predecessor(n, predecessor(S, n), c)
                           = predecessor(S \cup {c}, n)
<1>1. successors(successors(S, n) \cup T, n) = successors(S \cup T, n)
  BY SelectionBeforeMerge
<1>2. finger_join(n, [i \in Slot |-> finger(S, n, i)], T)
      = [i \in Slot |-> finger(S \cup T, n, i)]
  <2> DEFINE R(i, U) == {p \in U \ {n} : dist(n, p) >= 2^i}
             J(i) == IF \/ Nearest(n, R(i, T)) = None
                        \/ /\ Nearest(n, R(i, S)) # None
                           /\ dist(n, Nearest(n, R(i, S))) < dist(n, Nearest(n, R(i, T)))
                     THEN Nearest(n, R(i, S)) ELSE Nearest(n, R(i, T))
  <2>1. finger_join(n, [i \in Slot |-> finger(S, n, i)], T) = [i \in Slot |-> J(i)]
    BY DEF finger_join, finger
  <2>2. ASSUME NEW i \in Slot PROVE J(i) = finger(S \cup T, n, i)
    <3>1. R(i, S \cup T) = R(i, S) \cup R(i, T)
      OBVIOUS
    <3>2. R(i, S) \in SUBSET Did /\ R(i, T) \in SUBSET Did
      OBVIOUS
    <3>3. finger(S \cup T, n, i) = Nearest(n, R(i, S \cup T))
      BY DEF finger
    <3> HIDE DEF R
    <3> QED BY <3>1, <3>2, <3>3, NearestOfUnion
  <2> HIDE DEF J
  <2> QED BY <2>1, <2>2
<1>3. ASSUME NEW c \in T
      PROVE  rectify_predecessor(n, predecessor(S, n), c) = predecessor(S \cup {c}, n)
  <2> DEFINE A == S \ {n}
             p == Farthest(n, A)
             U == (S \cup {c}) \ {n}
             r == rectify_predecessor(n, predecessor(S, n), c)
  <2>0. None \notin Did /\ c \in Did /\ A \in SUBSET Did /\ U \in SUBSET Did
    BY NoneIsNoDid
  <2>1. /\ predecessor(S, n) = p /\ predecessor(S \cup {c}, n) = Farthest(n, U)
        /\ r = IF c = n \/ (p # None /\ dist(n, p) >= dist(n, c)) THEN p ELSE c
    BY DEF predecessor, rectify_predecessor
  <2>2. CASE c = n
    <3>1. U = A
      BY <2>2
    <3> QED BY <2>1, <2>2, <3>1
  <2>3. CASE c # n /\ A = {}
    <3>1. p = None /\ U = {c}
      BY <2>3 DEF Farthest
    <3>2. Farthest(n, U) = c
      BY <2>0, <3>1, FarthestIsMost
    <3> QED BY <2>1, <2>3, <3>1, <3>2
  <2>4. CASE c # n /\ A # {}
    <3>1. p \in A /\ \A q \in A : dist(n, q) <= dist(n, p)
      BY <2>0, <2>4, FarthestIsMost
    <3>2. U = A \cup {c} /\ p # None /\ p \in Did
      BY <2>0, <2>4, <3>1
    <3>3. \A q \in U : dist(n, q) \in Nat
      BY <2>0, DistType
    <3> HIDE DEF p, U
    <3>4. CASE dist(n, p) >= dist(n, c)
      <4>1. \A q \in U : dist(n, q) <= dist(n, p)
        BY <3>1, <3>2, <3>3, <3>4
      <4>2. Farthest(n, U) = p
        BY <2>0, <3>1, <3>2, <4>1, FarthestIsUnique
      <4> QED BY <2>1, <3>2, <3>4, <4>2
    <3>5. CASE ~(dist(n, p) >= dist(n, c))
      <4>1. \A q \in U : dist(n, q) <= dist(n, c)
        BY <3>1, <3>2, <3>3, <3>5
      <4>2. Farthest(n, U) = c
        BY <2>0, <3>2, <4>1, FarthestIsUnique
      <4> QED BY <2>1, <2>4, <3>5, <4>2
    <3> QED BY <3>4, <3>5
  <2> QED BY <2>2, <2>3, <2>4
<1> QED BY <1>1, <1>2, <1>3
=============================================================================
