------------------------ MODULE TransferCapacityProofs ------------------------
(***************************************************************************)
(* Proofs about TransferCapacity: its type invariant, that no wake-up is   *)
(* lost, and that its steps are steps of FairShare, for every set of peers *)
(* and demands, every reservation law that only gets tighter as others     *)
(* hold more, and every wait budget.                                       *)
(***************************************************************************)
EXTENDS TransferCapacity, TLAPS

\* What wakers and arming keep: a waiter is armed only at the front of its
\* queue and then due to be polled, and one without a waker is due too.
Due ==
    \A r \in Demand :
        /\ r \in armed => AtFront(r) /\ r \in woken
        /\ phase[r] = "wait" /\ r \notin waker => r \in woken

\* The initial state satisfies the type invariant.
LEMMA InitType == Init => TypeOK
  BY DemandAssumption DEF Init, TypeOK, Phase, Scope, PeerOf, HoldsPeer, MayHoldNode,
     MustHoldNode, Queued

\* Taking a queue's head off shifts the others.
LEMMA TailFacts ==
  ASSUME NEW S, NEW q \in Seq(S), q # <<>>
  PROVE  /\ Tail(q) \in Seq(S) /\ Len(Tail(q)) = Len(q) - 1
         /\ \A i \in 1..Len(Tail(q)) : Tail(q)[i] = q[i + 1]
         /\ DOMAIN Tail(q) = 1..Len(Tail(q)) /\ DOMAIN q = 1..Len(q)
         /\ Len(q) \in Nat /\ Len(q) >= 1 /\ Head(q) = q[1]
  OBVIOUS

\* Taking an entry out shifts the ones behind it.
LEMMA RemoveFacts ==
  ASSUME NEW S, NEW q \in Seq(S), NEW i \in DOMAIN q
  PROVE  /\ remove(q, i) \in Seq(S) /\ Len(remove(q, i)) = Len(q) - 1
         /\ DOMAIN remove(q, i) = 1..(Len(q) - 1)
         /\ \A j \in 1..(Len(q) - 1) : remove(q, i)[j] = IF j < i THEN q[j] ELSE q[j + 1]
         /\ DOMAIN q = 1..Len(q) /\ Len(q) \in Nat
  <1>1. /\ Len(q) \in Nat /\ DOMAIN q = 1..Len(q) /\ Len(q) - 1 \in Nat
        /\ \A j \in 1..Len(q) : q[j] \in S
    OBVIOUS
  <1>2. \A j \in 1..(Len(q) - 1) : (IF j < i THEN q[j] ELSE q[j + 1]) \in S
    BY <1>1
  <1>3. remove(q, i) \in [1..(Len(q) - 1) -> S]
    BY <1>2 DEF remove
  <1> QED BY <1>1, <1>3 DEF remove

-----------------------------------------------------------------------------
(* The type invariant.                                                     *)

\* TypeOK in four parts.
Typed ==
    /\ phase \in [Demand -> Phase] /\ at \in [Demand -> Scope]
    /\ held \in [Scope -> SUBSET Demand] /\ queue \in [Scope -> Seq(Demand)]
    /\ armed \subseteq Demand /\ waker \subseteq Demand /\ woken \subseteq Demand
    /\ \A r \in Demand : at[r] \in {PeerOf(r), Node}
Shares ==
    \A r \in Demand :
        /\ \A s \in Peers : r \in held[s] <=> s = PeerOf(r) /\ HoldsPeer(r)
        /\ r \in held[Node] => MayHoldNode(r)
        /\ MustHoldNode(r) => r \in held[Node]
Lines ==
    /\ \A r \in Demand, s \in Scope : Queued(r, s) <=> phase[r] = "wait" /\ at[r] = s
    /\ \A s \in Scope : \A i, j \in DOMAIN queue[s] : queue[s][i] = queue[s][j] => i = j
Wakers == \A r \in Demand : r \in armed \cup waker \cup woken => phase[r] = "wait"

\* The four parts make up TypeOK.
LEMMA TypeParts == TypeOK <=> Typed /\ Shares /\ Lines /\ Wakers
  BY DEF TypeOK, Typed, Shares, Lines, Wakers

\* The scopes of a demand, and that the node is none of the peers.
LEMMA ScopeFacts ==
  ASSUME NEW r \in Demand
  PROVE  PeerOf(r) \in Peers /\ PeerOf(r) \in Scope /\ Node \in Scope /\ PeerOf(r) # Node
  BY DemandAssumption DEF PeerOf, Scope

\* Only demand r moved.
OnlyMoves(r) == \A d \in Demand \ {r} : phase'[d] = phase[d] /\ at'[d] = at[d]

\* A move of a demand that does not wait leaves the queues right.
LEMMA LinesKept ==
  ASSUME Lines, NEW r \in Demand, OnlyMoves(r), queue' = queue,
         phase[r] # "wait", phase'[r] # "wait"
  PROVE  Lines'
  BY DEF Lines, OnlyMoves, Queued

\* Joining a queue at its end.
LEMMA LinesPushed ==
  ASSUME Typed, Lines, NEW r \in Demand, OnlyMoves(r),
         phase[r] # "wait", phase'[r] = "wait", at'[r] = at[r],
         queue' = [queue EXCEPT ![at[r]] = Append(@, r)]
  PROVE  Lines'
  <1> DEFINE q == queue[at[r]]  n == Len(q)
  <1>1. /\ at[r] \in Scope /\ q \in Seq(Demand) /\ n \in Nat /\ DOMAIN q = 1..n
        /\ DOMAIN queue = Scope
    BY DEF Typed
  <1>2. /\ queue'[at[r]] = Append(q, r)
        /\ \A s \in Scope \ {at[r]} : queue'[s] = queue[s]
    BY <1>1
  <1>3. /\ DOMAIN Append(q, r) = 1..(n + 1)
        /\ \A i \in 1..n : Append(q, r)[i] = q[i]
        /\ Append(q, r)[n + 1] = r
    BY <1>1
  <1>4. \A i \in 1..n : q[i] # r
    BY <1>1 DEF Lines, Queued
  <1>5. \A d \in Demand, s \in Scope : Queued(d, s)' <=> (phase[d] = "wait" /\ at[d] = s)'
    <2> SUFFICES ASSUME NEW d \in Demand, NEW s \in Scope
                 PROVE  Queued(d, s)' <=> (phase[d] = "wait" /\ at[d] = s)'
      OBVIOUS
    <2>1. CASE s # at[r]
      <3>1. Queued(d, s)' <=> Queued(d, s)
        BY <1>2, <2>1 DEF Queued
      <3> QED BY <3>1, <2>1 DEF Lines, OnlyMoves
    <2>2. CASE s = at[r]
      <3>1. Queued(d, s)' <=> Queued(d, s) \/ d = r
        BY <1>1, <1>2, <1>3, <2>2 DEF Queued
      <3> QED BY <3>1, <2>2 DEF Lines, OnlyMoves
    <2> QED BY <2>1, <2>2
  <1>6. ASSUME NEW s \in Scope, NEW i \in DOMAIN queue'[s], NEW j \in DOMAIN queue'[s],
               queue'[s][i] = queue'[s][j]
        PROVE  i = j
    <2>1. CASE s # at[r]
      BY <1>2, <1>6, <2>1 DEF Lines
    <2>2. CASE s = at[r]
      BY <1>1, <1>2, <1>3, <1>4, <1>6, <2>2 DEF Lines
    <2> QED BY <2>1, <2>2
  <1> QED BY <1>5, <1>6 DEF Lines

\* Taking one's entry out of a queue.
LEMMA LinesRemoved ==
  ASSUME Typed, Lines, NEW r \in Demand, OnlyMoves(r),
         phase[r] = "wait", phase'[r] # "wait",
         NEW i \in DOMAIN queue[at[r]], queue[at[r]][i] = r,
         NEW q \in Seq(Demand), DOMAIN q = 1..(Len(queue[at[r]]) - 1),
         \A j \in 1..(Len(queue[at[r]]) - 1) :
            q[j] = IF j < i THEN queue[at[r]][j] ELSE queue[at[r]][j + 1],
         queue' = [queue EXCEPT ![at[r]] = q]
  PROVE  Lines'
  <1> DEFINE p == queue[at[r]]  n == Len(p)
  <1>1. /\ at[r] \in Scope /\ p \in Seq(Demand) /\ n \in Nat /\ DOMAIN p = 1..n
        /\ DOMAIN queue = Scope
    BY DEF Typed
  <1>2. queue'[at[r]] = q /\ \A s \in Scope \ {at[r]} : queue'[s] = queue[s]
    BY <1>1
  <1>3. \A j \in 1..n : p[j] = r => j = i
    BY <1>1 DEF Lines
  <1>4. \A d \in Demand, s \in Scope : Queued(d, s)' <=> (phase[d] = "wait" /\ at[d] = s)'
    <2> SUFFICES ASSUME NEW d \in Demand, NEW s \in Scope
                 PROVE  Queued(d, s)' <=> (phase[d] = "wait" /\ at[d] = s)'
      OBVIOUS
    <2>1. CASE s # at[r]
      <3>1. Queued(d, s)' <=> Queued(d, s)
        BY <1>2, <2>1 DEF Queued
      <3> QED BY <3>1, <2>1 DEF Lines, OnlyMoves
    <2>2. CASE s = at[r]
      <3>1. Queued(d, s)' => Queued(d, s) /\ d # r
        BY <1>1, <1>2, <1>3, <2>2 DEF Queued
      <3>2. Queued(d, s) /\ d # r => Queued(d, s)'
        <4> SUFFICES ASSUME NEW j \in 1..n, p[j] = d, d # r PROVE \E k \in DOMAIN q : q[k] = d
          BY <1>1, <1>2, <2>2 DEF Queued
        <4>1. CASE j < i
          <5>1. j \in DOMAIN q /\ q[j] = d
            BY <1>1, <4>1
          <5> QED BY <5>1
        <4>2. CASE j > i
          <5>1. j - 1 \in DOMAIN q /\ q[j - 1] = d
            BY <1>1, <4>2
          <5> QED BY <5>1
        <4> QED BY <1>1, <4>1, <4>2
      <3> QED BY <3>1, <3>2, <2>2 DEF Lines, OnlyMoves
    <2> QED BY <2>1, <2>2
  <1>5. ASSUME NEW s \in Scope, NEW j \in DOMAIN queue'[s], NEW k \in DOMAIN queue'[s],
               queue'[s][j] = queue'[s][k]
        PROVE  j = k
    <2>1. CASE s # at[r]
      BY <1>2, <1>5, <2>1 DEF Lines
    <2>2. CASE s = at[r]
      <3>1. \A a, b \in 1..n : p[a] = p[b] => a = b
        BY <1>1 DEF Lines
      <3>2. j \in 1..(n - 1) /\ k \in 1..(n - 1) /\ q[j] = q[k]
        BY <1>2, <1>5, <2>2
      <3> DEFINE up(a) == IF a < i THEN a ELSE a + 1
      <3>3. \A a \in 1..(n - 1) : up(a) \in 1..n /\ q[a] = p[up(a)]
        BY <1>1
      <3>4. up(j) = up(k)
        BY <3>1, <3>2, <3>3
      <3> QED BY <1>1, <3>2, <3>4
    <2> QED BY <2>1, <2>2
  <1> QED BY <1>4, <1>5 DEF Lines

\* Taking a share moves one demand, and keeps types and shares right.
LEMMA AdmittedKeeps ==
  ASSUME Typed, Shares, NEW r \in Demand, Admitted(r),
         phase[r] \in {"reserve", "share", "wait"}
  PROVE  /\ phase' \in [Demand -> Phase] /\ at' \in [Demand -> Scope]
         /\ held' \in [Scope -> SUBSET Demand]
         /\ \A d \in Demand : at'[d] \in {PeerOf(d), Node}
         /\ OnlyMoves(r) /\ phase'[r] # "wait" /\ Shares'
  <1>1. /\ PeerOf(r) \in Peers /\ PeerOf(r) \in Scope /\ Node \in Scope /\ PeerOf(r) # Node
        /\ at[r] \in {PeerOf(r), Node} /\ at[r] \in Scope
    BY ScopeFacts DEF Typed
  <1>2. /\ phase' \in [Demand -> Phase] /\ at' \in [Demand -> Scope]
        /\ held' \in [Scope -> SUBSET Demand]
    BY <1>1 DEF Typed, Admitted, Phase
  <1>3. /\ OnlyMoves(r) /\ at'[r] = Node
        /\ phase'[r] = IF at[r] = Node THEN "held" ELSE "reserve"
    BY <1>1 DEF Typed, Admitted, OnlyMoves
  <1>4. \A d \in Demand : at'[d] \in {PeerOf(d), Node}
    BY <1>3 DEF Typed, OnlyMoves
  <1>5. /\ held'[at[r]] = held[at[r]] \cup {r}
        /\ \A s \in Scope \ {at[r]} : held'[s] = held[s]
    BY <1>1 DEF Typed, Admitted
  <1>6. Shares'
    <2> SUFFICES ASSUME NEW d \in Demand
                 PROVE  /\ \A s \in Peers : d \in held'[s] <=> s = PeerOf(d) /\ HoldsPeer(d)'
                        /\ d \in held'[Node] => MayHoldNode(d)'
                        /\ MustHoldNode(d)' => d \in held'[Node]
      BY DEF Shares
    <2>1. /\ \A s \in Peers : d \in held[s] <=> s = PeerOf(d) /\ HoldsPeer(d)
          /\ d \in held[Node] => MayHoldNode(d)
          /\ MustHoldNode(d) => d \in held[Node]
      BY DEF Shares
    <2>2. CASE d # r
      <3>1. /\ HoldsPeer(d)' = HoldsPeer(d) /\ MayHoldNode(d)' = MayHoldNode(d)
            /\ MustHoldNode(d)' = MustHoldNode(d)
        BY <1>3, <2>2 DEF OnlyMoves, HoldsPeer, MayHoldNode, MustHoldNode
      <3>2. \A s \in Scope : d \in held'[s] <=> d \in held[s]
        BY <1>1, <1>5, <2>2
      <3> QED BY <1>1, <2>1, <3>1, <3>2 DEF Scope
    <2>3. CASE d = r
      <3>1. HoldsPeer(d)' /\ (MustHoldNode(d)' <=> at[r] = Node)
            /\ (MayHoldNode(d)' <=> at[r] = Node)
        BY <1>3, <2>3 DEF HoldsPeer, MustHoldNode, MayHoldNode
      <3>2. HoldsPeer(d) <=> at[r] = Node
        BY <1>1, <2>3 DEF HoldsPeer
      <3>3. r \notin held[Node]
        BY <2>1, <2>3 DEF MayHoldNode
      <3>4. \A s \in Peers : r \in held'[s] <=> s = PeerOf(r)
        <4>1. CASE at[r] = Node
          BY <1>1, <1>5, <2>1, <2>3, <3>2, <4>1, DemandAssumption DEF Scope
        <4>2. CASE at[r] = PeerOf(r)
          BY <1>1, <1>5, <2>1, <2>3, <3>2, <4>2, DemandAssumption DEF Scope
        <4> QED BY <1>1, <4>1, <4>2
      <3>5. r \in held'[Node] <=> at[r] = Node
        BY <1>1, <1>5, <3>3
      <3> QED BY <2>3, <3>1, <3>4, <3>5
    <2> QED BY <2>2, <2>3
  <1> QED BY <1>2, <1>3, <1>4, <1>6

\* A step that only moves demand r without changing the shares.
LEMMA SharesMoved ==
  ASSUME Shares, NEW r \in Demand, OnlyMoves(r), held' = held,
         HoldsPeer(r)' <=> HoldsPeer(r),
         r \in held[Node] => MayHoldNode(r)',
         MustHoldNode(r)' => r \in held[Node]
  PROVE  Shares'
  <1> SUFFICES ASSUME NEW d \in Demand
               PROVE  /\ \A s \in Peers : d \in held[s] <=> s = PeerOf(d) /\ HoldsPeer(d)'
                      /\ d \in held[Node] => MayHoldNode(d)'
                      /\ MustHoldNode(d)' => d \in held[Node]
    BY DEF Shares
  <1>1. /\ \A s \in Peers : d \in held[s] <=> s = PeerOf(d) /\ HoldsPeer(d)
        /\ d \in held[Node] => MayHoldNode(d)
        /\ MustHoldNode(d) => d \in held[Node]
    BY DEF Shares
  <1>2. CASE d # r
    <2>1. /\ HoldsPeer(d)' <=> HoldsPeer(d)
          /\ MayHoldNode(d)' <=> MayHoldNode(d)
          /\ MustHoldNode(d)' <=> MustHoldNode(d)
      BY <1>2 DEF OnlyMoves, HoldsPeer, MayHoldNode, MustHoldNode
    <2> QED BY <1>1, <2>1
  <1>3. CASE d = r
    BY <1>1, <1>3
  <1> QED BY <1>2, <1>3

\* A refusal moves one demand, and keeps types and shares right.
LEMMA RefusedKeeps ==
  ASSUME Typed, Shares, NEW r \in Demand, Refused(r), held' = held,
         phase[r] \in {"share", "wait"}
  PROVE  /\ phase' \in [Demand -> Phase] /\ at' \in [Demand -> Scope]
         /\ held' \in [Scope -> SUBSET Demand]
         /\ \A d \in Demand : at'[d] \in {PeerOf(d), Node}
         /\ OnlyMoves(r) /\ phase'[r] # "wait" /\ Shares'
  <1>1. PeerOf(r) \in Scope /\ PeerOf(r) # Node /\ at[r] \in {PeerOf(r), Node}
    BY ScopeFacts DEF Typed
  <1>2. phase' \in [Demand -> Phase] /\ at' \in [Demand -> Scope]
    BY <1>1 DEF Typed, Refused, Phase
  <1>3. /\ OnlyMoves(r) /\ at'[r] = PeerOf(r)
        /\ phase'[r] = IF at[r] = Node THEN "release" ELSE "idle"
    BY DEF Typed, Refused, OnlyMoves
  <1>4. \A d \in Demand : at'[d] \in {PeerOf(d), Node}
    BY <1>3 DEF Typed, OnlyMoves
  <1>5. HoldsPeer(r)' <=> HoldsPeer(r)
    BY <1>1, <1>3 DEF HoldsPeer
  <1>6. r \notin held[Node]
    BY DEF Shares, MayHoldNode
  <1>7. ~MustHoldNode(r)'
    BY <1>1, <1>3 DEF MustHoldNode
  <1>8. Shares'
    BY <1>3, <1>5, <1>6, <1>7, SharesMoved
  <1> QED BY <1>2, <1>3, <1>4, <1>8 DEF Typed

\* A demand that stood still in no queue and moves on without shares, queues
\* or wakers being touched.
LEMMA MovedKeeps ==
  ASSUME TypeOK, NEW r \in Demand, OnlyMoves(r),
         phase' \in [Demand -> Phase], at' \in [Demand -> Scope],
         at'[r] \in {PeerOf(r), Node},
         phase[r] # "wait", phase'[r] # "wait",
         Shares', held' \in [Scope -> SUBSET Demand],
         UNCHANGED <<queue, armed, waker, woken>>
  PROVE  TypeOK'
  <1>0. Typed /\ Shares /\ Lines /\ Wakers
    BY TypeParts
  <1>1. Typed'
    BY <1>0 DEF Typed, OnlyMoves
  <1>2. Lines'
    BY <1>0, LinesKept
  <1>3. Wakers'
    BY <1>0 DEF Wakers, OnlyMoves
  <1> QED
    <2>1. (Typed /\ Shares /\ Lines /\ Wakers)'
      BY <1>1, <1>2, <1>3
    <2> QED BY <2>1, TypeParts DEF TypeOK, Typed, Shares, Lines, Wakers

\* Starting, the attempt on the reservation and the end keep TypeOK.
LEMMA AcquireType == ASSUME TypeOK, NEW r \in Demand, Acquire(r) PROVE TypeOK'
  <1>0. Typed /\ Shares
    BY TypeParts
  <1>1. PeerOf(r) \in Scope /\ PeerOf(r) # Node
    BY ScopeFacts
  <1>2. /\ OnlyMoves(r) /\ phase'[r] = "reserve" /\ at'[r] = PeerOf(r)
        /\ phase' \in [Demand -> Phase] /\ at' \in [Demand -> Scope]
    BY <1>0, <1>1 DEF Acquire, Typed, OnlyMoves, Phase
  <1>3. r \notin held[Node]
    BY <1>0 DEF Shares, MayHoldNode, Acquire
  <1>4. Shares'
    <2>1. ~HoldsPeer(r) /\ ~HoldsPeer(r)' /\ ~MustHoldNode(r)'
      BY <1>1, <1>2 DEF HoldsPeer, MustHoldNode, Acquire
    <2> QED BY <1>0, <1>2, <1>3, <2>1, SharesMoved DEF Acquire
  <1> QED BY <1>0, <1>2, <1>4, MovedKeeps DEF Acquire, Typed

\* The type invariant survives the end of a transfer.
LEMMA EndType == ASSUME TypeOK, NEW r \in Demand, End(r) PROVE TypeOK'
  <1>0. Typed /\ Shares
    BY TypeParts
  <1>1. PeerOf(r) \in Scope /\ PeerOf(r) # Node
    BY ScopeFacts
  <1>2. /\ OnlyMoves(r) /\ phase'[r] = "release" /\ at'[r] = PeerOf(r)
        /\ phase' \in [Demand -> Phase] /\ at' \in [Demand -> Scope]
    BY <1>0, <1>1 DEF End, Typed, OnlyMoves, Phase
  <1>3. Shares'
    <2>1. HoldsPeer(r) /\ HoldsPeer(r)' /\ MayHoldNode(r)' /\ ~MustHoldNode(r)'
      BY <1>1, <1>2 DEF HoldsPeer, MustHoldNode, MayHoldNode, End
    <2> QED BY <1>0, <1>2, <2>1, SharesMoved DEF End
  <1> QED BY <1>0, <1>2, <1>3, MovedKeeps DEF End, Typed

\* The type invariant survives the attempt on the class's reservation.
LEMMA TryReservedType == ASSUME TypeOK, NEW r \in Demand, TryReserved(r) PROVE TypeOK'
  <1>0. Typed /\ Shares
    BY TypeParts
  <1>1. CASE Admitted(r)
    <2>1. /\ phase' \in [Demand -> Phase] /\ at' \in [Demand -> Scope]
          /\ held' \in [Scope -> SUBSET Demand] /\ at'[r] \in {PeerOf(r), Node}
          /\ OnlyMoves(r) /\ phase'[r] # "wait" /\ Shares'
      BY <1>0, <1>1, AdmittedKeeps DEF TryReserved
    <2> QED BY <2>1, MovedKeeps DEF TryReserved
  <1>2. CASE phase' = [phase EXCEPT ![r] = "share"] /\ UNCHANGED <<at, held>>
    <2>1. /\ OnlyMoves(r) /\ phase'[r] = "share" /\ phase' \in [Demand -> Phase]
          /\ at' \in [Demand -> Scope] /\ at'[r] \in {PeerOf(r), Node}
      BY <1>0, <1>2 DEF Typed, OnlyMoves, Phase
    <2>2. r \notin held[Node]
      BY <1>0 DEF Shares, MayHoldNode, TryReserved
    <2>3. (HoldsPeer(r)' <=> HoldsPeer(r)) /\ ~MustHoldNode(r)'
      BY <1>2, <2>1 DEF HoldsPeer, MustHoldNode, TryReserved
    <2>4. Shares'
      BY <1>0, <1>2, <2>1, <2>2, <2>3, SharesMoved
    <2> QED BY <1>0, <1>2, <2>1, <2>4, MovedKeeps DEF TryReserved, Typed
  <1> QED BY <1>1, <1>2 DEF TryReserved

\* The type invariant survives a request that does not wait.
LEMMA UnqueuedType == ASSUME TypeOK, NEW r \in Demand, try_admit_unqueued(r) PROVE TypeOK'
  <1>0. Typed /\ Shares
    BY TypeParts
  <1>1. /\ phase' \in [Demand -> Phase] /\ at' \in [Demand -> Scope]
        /\ held' \in [Scope -> SUBSET Demand] /\ at'[r] \in {PeerOf(r), Node}
        /\ OnlyMoves(r) /\ phase'[r] # "wait" /\ Shares'
    <2>1. CASE Admitted(r)
      BY <1>0, <2>1, AdmittedKeeps DEF try_admit_unqueued
    <2>2. CASE Refused(r) /\ held' = held
      BY <1>0, <2>2, RefusedKeeps DEF try_admit_unqueued
    <2> QED BY <2>1, <2>2 DEF try_admit_unqueued
  <1> QED BY <1>1, MovedKeeps DEF try_admit_unqueued

\* The type invariant survives a request that may wait.
LEMMA AdmitOrWaitType == ASSUME TypeOK, NEW r \in Demand, admit_or_wait(r) PROVE TypeOK'
  <1>0. Typed /\ Shares /\ Lines /\ Wakers
    BY TypeParts
  <1>1. CASE Admitted(r) /\ UNCHANGED <<queue, woken>>
    <2>1. /\ phase' \in [Demand -> Phase] /\ at' \in [Demand -> Scope]
          /\ held' \in [Scope -> SUBSET Demand] /\ at'[r] \in {PeerOf(r), Node}
          /\ OnlyMoves(r) /\ phase'[r] # "wait" /\ Shares'
      BY <1>0, <1>1, AdmittedKeeps DEF admit_or_wait
    <2> QED BY <1>1, <2>1, MovedKeeps DEF admit_or_wait
  <1>2. CASE Refused(r) /\ UNCHANGED <<queue, woken, held>>
    <2>1. /\ phase' \in [Demand -> Phase] /\ at' \in [Demand -> Scope]
          /\ held' \in [Scope -> SUBSET Demand] /\ at'[r] \in {PeerOf(r), Node}
          /\ OnlyMoves(r) /\ phase'[r] # "wait" /\ Shares'
      BY <1>0, <1>2, RefusedKeeps DEF admit_or_wait
    <2> QED BY <1>2, <2>1, MovedKeeps DEF admit_or_wait
  <1>3. CASE /\ queue' = [queue EXCEPT ![at[r]] = Append(@, r)]
             /\ phase' = [phase EXCEPT ![r] = "wait"]
             /\ woken' = woken \cup {r}
             /\ UNCHANGED <<at, held>>
    <2>1. /\ OnlyMoves(r) /\ phase'[r] = "wait" /\ phase[r] = "share"
          /\ phase' \in [Demand -> Phase] /\ armed' = armed /\ waker' = waker
      BY <1>0, <1>3 DEF Typed, OnlyMoves, Phase, admit_or_wait
    <2>2. r \notin held[Node]
      BY <1>0, <2>1 DEF Shares, MayHoldNode
    <2>3. (HoldsPeer(r)' <=> HoldsPeer(r)) /\ ~MustHoldNode(r)'
      BY <1>3, <2>1 DEF HoldsPeer, MustHoldNode
    <2>4. Shares'
      BY <1>0, <1>3, <2>1, <2>2, <2>3, SharesMoved
    <2>5. Lines'
      BY <1>0, <1>3, <2>1, LinesPushed
    <2>6. Typed'
      <3>1. at[r] \in Scope /\ Append(queue[at[r]], r) \in Seq(Demand)
        BY <1>0 DEF Typed
      <3>2. queue' \in [Scope -> Seq(Demand)]
        BY <1>0, <1>3, <3>1 DEF Typed
      <3> QED BY <1>0, <1>3, <2>1, <3>2 DEF Typed
    <2>7. Wakers'
      BY <1>0, <1>3, <2>1 DEF Wakers, OnlyMoves
    <2> QED BY <2>4, <2>5, <2>6, <2>7 DEF TypeOK, Typed, Shares, Lines, Wakers
  <1> QED BY <1>1, <1>2, <1>3 DEF admit_or_wait

\* Whom arm_front arms: a waiter of the queue, if anyone.
LEMMA ArmFacts ==
  ASSUME NEW S, NEW q \in Seq(S)
  PROVE  /\ arm_front(q) \subseteq S
         /\ \A d \in arm_front(q) : q # <<>> /\ d = q[1] /\ d = Head(q) /\ 1 \in DOMAIN q
  BY DEF arm_front

\* A waiter that leaves its queue by taking its entry out.
LEMMA DepartureKeeps ==
  ASSUME TypeOK, NEW r \in Demand, phase[r] = "wait",
         phase' \in [Demand -> Phase], at' \in [Demand -> Scope],
         held' \in [Scope -> SUBSET Demand],
         \A d \in Demand : at'[d] \in {PeerOf(d), Node},
         OnlyMoves(r), phase'[r] # "wait", Shares',
         NEW i \in DOMAIN queue[at[r]], queue[at[r]][i] = r,
         NEW q \in Seq(Demand), DOMAIN q = 1..(Len(queue[at[r]]) - 1),
         \A j \in 1..(Len(queue[at[r]]) - 1) :
            q[j] = IF j < i THEN queue[at[r]][j] ELSE queue[at[r]][j + 1],
         queue' = [queue EXCEPT ![at[r]] = q],
         NEW new \in SUBSET Demand, Armed(r, new),
         \A d \in new : \E j \in DOMAIN q : q[j] = d
  PROVE  TypeOK'
  <1>0. Typed /\ Shares /\ Lines /\ Wakers
    BY TypeParts
  <1>1. Lines'
    BY <1>0, LinesRemoved
  <1>2. Typed'
    <2>1. queue' \in [Scope -> Seq(Demand)]
      BY <1>0 DEF Typed
    <2> QED BY <1>0, <2>1 DEF Typed, Armed
  <1>3. Wakers'
    <2>1. ASSUME NEW d \in new PROVE phase'[d] = "wait"
      <3>1. PICK s \in Scope : s = at[r]
        BY <1>0 DEF Typed
      <3>2. queue'[s] = q
        BY <1>0, <3>1 DEF Typed
      <3>3. Queued(d, s)'
        BY <3>2 DEF Queued
      <3> QED BY <1>1, <3>3 DEF Lines
    <2> QED BY <1>0, <2>1 DEF Wakers, OnlyMoves, Armed
  <1> QED BY <1>1, <1>2, <1>3 DEF TypeOK, Typed, Shares, Lines, Wakers

\* The type invariant survives the poll of a waiter.
LEMMA PollType == ASSUME TypeOK, NEW r \in Demand, Poll(r) PROVE TypeOK'
  <1>0. Typed /\ Shares /\ Lines /\ Wakers
    BY TypeParts
  <1>1. CASE UNCHANGED <<phase, at, held, queue>> /\ armed' \subseteq armed
             /\ waker' = waker \cup {r} /\ woken' = woken \ {r}
    <2>1. Typed'
      BY <1>0, <1>1 DEF Typed
    <2>2. Wakers'
      BY <1>0, <1>1 DEF Wakers, Poll
    <2>3. Shares' /\ Lines'
      BY <1>0, <1>1 DEF Shares, Lines, HoldsPeer, MayHoldNode, MustHoldNode, Queued
    <2> QED BY <2>1, <2>2, <2>3 DEF TypeOK, Typed, Shares, Lines, Wakers
  <1>2. CASE /\ AtFront(r) /\ Admitted(r)
             /\ Departs(r, Tail(queue[at[r]]))
             /\ Armed(r, arm_front(Tail(queue[at[r]])))
    <2> DEFINE p == queue[at[r]]
    <2>1. at[r] \in Scope /\ p \in Seq(Demand) /\ p # <<>> /\ Head(p) = r
      BY <1>0, <1>2 DEF Typed, AtFront
    <2>2. /\ Tail(p) \in Seq(Demand) /\ Len(Tail(p)) = Len(p) - 1
          /\ \A j \in 1..Len(Tail(p)) : Tail(p)[j] = p[j + 1]
          /\ DOMAIN Tail(p) = 1..(Len(p) - 1) /\ 1 \in DOMAIN p /\ p[1] = r
      BY <2>1, TailFacts
    <2>3. \A j \in 1..(Len(p) - 1) : Tail(p)[j] = IF j < 1 THEN p[j] ELSE p[j + 1]
      BY <2>2
    <2>4. /\ arm_front(Tail(p)) \in SUBSET Demand
          /\ \A d \in arm_front(Tail(p)) : \E j \in DOMAIN Tail(p) : Tail(p)[j] = d
      BY <2>2, ArmFacts
    <2>5. /\ phase' \in [Demand -> Phase] /\ at' \in [Demand -> Scope]
          /\ held' \in [Scope -> SUBSET Demand]
          /\ \A d \in Demand : at'[d] \in {PeerOf(d), Node}
          /\ OnlyMoves(r) /\ phase'[r] # "wait" /\ Shares'
      BY <1>0, <1>2, AdmittedKeeps DEF Poll
    <2>6. phase[r] = "wait" /\ queue' = [queue EXCEPT ![at[r]] = Tail(p)]
      BY <1>2 DEF Departs, Poll
    <2> QED BY <1>2, <2>2, <2>3, <2>4, <2>5, <2>6, DepartureKeeps
  <1> QED BY <1>1, <1>2 DEF Poll

\* The type invariant survives a wait given up.
LEMMA CancelType == ASSUME TypeOK, NEW r \in Demand, Cancel(r) PROVE TypeOK'
  <1>0. Typed /\ Shares /\ Lines /\ Wakers
    BY TypeParts
  <1> DEFINE p == queue[at[r]]
  <1>1. PICK i \in DOMAIN p :
          /\ p[i] = r
          /\ Departs(r, remove(p, i))
          /\ Armed(r, IF i = 1 THEN arm_front(remove(p, i)) ELSE {})
    BY DEF Cancel
  <1>2. p \in Seq(Demand)
    BY <1>0 DEF Typed
  <1>3. /\ remove(p, i) \in Seq(Demand) /\ DOMAIN remove(p, i) = 1..(Len(p) - 1)
        /\ \A j \in 1..(Len(p) - 1) : remove(p, i)[j] = IF j < i THEN p[j] ELSE p[j + 1]
    BY <1>2, RemoveFacts
  <1> DEFINE new == IF i = 1 THEN arm_front(remove(p, i)) ELSE {}
  <1>4. new \in SUBSET Demand /\ \A d \in new : \E j \in DOMAIN remove(p, i) : remove(p, i)[j] = d
    BY <1>3, ArmFacts
  <1>5. /\ phase' \in [Demand -> Phase] /\ at' \in [Demand -> Scope]
        /\ held' \in [Scope -> SUBSET Demand]
        /\ \A d \in Demand : at'[d] \in {PeerOf(d), Node}
        /\ OnlyMoves(r) /\ phase'[r] # "wait" /\ Shares'
    BY <1>0, RefusedKeeps DEF Cancel
  <1>6. phase[r] = "wait" /\ queue' = [queue EXCEPT ![at[r]] = remove(p, i)]
    BY <1>1 DEF Departs, Cancel
  <1>7. Armed(r, new)
    BY <1>1
  <1> HIDE DEF new
  <1> QED BY <1>1, <1>3, <1>4, <1>5, <1>6, <1>7, DepartureKeeps

\* The type invariant survives the return of a share.
LEMMA ReleaseType == ASSUME TypeOK, NEW r \in Demand, Release(r) PROVE TypeOK'
  <1>0. Typed /\ Shares
    BY TypeParts
  <1>1. /\ PeerOf(r) \in Peers /\ PeerOf(r) \in Scope /\ Node \in Scope /\ PeerOf(r) # Node
        /\ at[r] \in {PeerOf(r), Node} /\ at[r] \in Scope /\ Node \notin Peers
    BY <1>0, ScopeFacts, DemandAssumption DEF Typed
  <1>2. /\ OnlyMoves(r) /\ phase[r] = "release" /\ phase'[r] = "freed" /\ at' = at
        /\ phase' \in [Demand -> Phase] /\ held' \in [Scope -> SUBSET Demand]
    BY <1>0, <1>1 DEF Release, Typed, OnlyMoves, Phase
  <1>3. /\ held'[at[r]] = held[at[r]] \ {r}
        /\ \A s \in Scope \ {at[r]} : held'[s] = held[s]
    BY <1>0, <1>1 DEF Release, Typed
  <1>4. Shares'
    <2> SUFFICES ASSUME NEW d \in Demand
                 PROVE  /\ \A s \in Peers : d \in held'[s] <=> s = PeerOf(d) /\ HoldsPeer(d)'
                        /\ d \in held'[Node] => MayHoldNode(d)'
                        /\ MustHoldNode(d)' => d \in held'[Node]
      BY DEF Shares
    <2>1. /\ \A s \in Peers : d \in held[s] <=> s = PeerOf(d) /\ HoldsPeer(d)
          /\ d \in held[Node] => MayHoldNode(d)
          /\ MustHoldNode(d) => d \in held[Node]
      BY <1>0 DEF Shares
    <2>2. CASE d # r
      <3>1. /\ HoldsPeer(d)' <=> HoldsPeer(d)
            /\ MayHoldNode(d)' <=> MayHoldNode(d)
            /\ MustHoldNode(d)' <=> MustHoldNode(d)
        BY <1>2, <2>2 DEF OnlyMoves, HoldsPeer, MayHoldNode, MustHoldNode
      <3>2. \A s \in Scope : d \in held'[s] <=> d \in held[s]
        BY <1>1, <1>3, <2>2
      <3> QED BY <1>1, <2>1, <3>1, <3>2 DEF Scope
    <2>3. CASE d = r
      <3>1. ~HoldsPeer(d)' /\ ~MustHoldNode(d)' /\ (MayHoldNode(d)' <=> at[r] # Node)
        BY <1>2, <2>3 DEF HoldsPeer, MustHoldNode, MayHoldNode
      <3>2. HoldsPeer(d) <=> at[r] # Node
        BY <1>2, <2>3 DEF HoldsPeer
      <3>3. \A s \in Peers : r \notin held'[s]
        <4>1. CASE at[r] = Node
          BY <1>1, <1>3, <2>1, <2>3, <3>2, <4>1 DEF Scope
        <4>2. CASE at[r] = PeerOf(r)
          BY <1>1, <1>3, <2>1, <2>3, <4>2 DEF Scope
        <4> QED BY <1>1, <4>1, <4>2
      <3>4. r \in held'[Node] => at[r] # Node
        BY <1>1, <1>3
      <3> QED BY <2>3, <3>1, <3>3, <3>4
    <2> QED BY <2>2, <2>3
  <1> QED BY <1>0, <1>1, <1>2, <1>4, MovedKeeps DEF Release, Typed

\* The type invariant survives the arming of the front.
LEMMA WakeFrontType == ASSUME TypeOK, NEW r \in Demand, WakeFront(r) PROVE TypeOK'
  <1>0. Typed /\ Shares /\ Lines /\ Wakers
    BY TypeParts
  <1>1. /\ PeerOf(r) # Node /\ at[r] \in {PeerOf(r), Node} /\ at[r] \in Scope
        /\ Node \in Scope /\ queue[at[r]] \in Seq(Demand)
    BY <1>0, ScopeFacts DEF Typed
  <1>2. /\ OnlyMoves(r) /\ phase[r] = "freed" /\ held' = held /\ queue' = queue
        /\ phase'[r] = (IF r \in held[Node] THEN "release" ELSE "idle")
        /\ at'[r] = (IF r \in held[Node] THEN Node ELSE at[r])
        /\ phase' \in [Demand -> Phase] /\ at' \in [Demand -> Scope]
    BY <1>0, <1>1 DEF WakeFront, Typed, OnlyMoves, Phase
  <1>3. Shares'
    <2>1. ~HoldsPeer(r) /\ ~HoldsPeer(r)'
      BY <1>1, <1>2 DEF HoldsPeer
    <2>2. (r \in held[Node] => MayHoldNode(r)') /\ (MustHoldNode(r)' => r \in held[Node])
      BY <1>1, <1>2 DEF MayHoldNode, MustHoldNode
    <2> QED BY <1>0, <1>2, <2>1, <2>2, SharesMoved
  <1>4. Lines'
    BY <1>0, <1>2, LinesKept
  <1> DEFINE new == arm_front(queue[at[r]])
  <1>5. /\ new \subseteq Demand
        /\ \A d \in new : \E j \in DOMAIN queue[at[r]] : queue[at[r]][j] = d
    BY <1>1, ArmFacts
  <1>6. Armed(r, new)
    BY DEF WakeFront
  <1> HIDE DEF new
  <1>7. Typed'
    BY <1>0, <1>1, <1>2, <1>5, <1>6 DEF Typed, OnlyMoves, Armed
  <1>8. Wakers'
    <2>1. ASSUME NEW d \in new PROVE phase'[d] = "wait"
      <3>1. phase[d] = "wait"
        BY <1>0, <1>1, <1>5 DEF Lines, Queued
      <3> QED BY <1>2, <1>5, <3>1 DEF OnlyMoves
    <2> QED BY <1>0, <1>2, <1>5, <1>6, <2>1 DEF Wakers, OnlyMoves, Armed
  <1> QED BY <1>3, <1>4, <1>7, <1>8 DEF TypeOK, Typed, Shares, Lines, Wakers

\* Every step keeps TypeOK.
LEMMA StepType == ASSUME TypeOK, [Next]_vars PROVE TypeOK'
  <1>1. ASSUME UNCHANGED vars PROVE TypeOK'
    BY <1>1 DEF vars, TypeOK, HoldsPeer, MayHoldNode, MustHoldNode, Queued
  <1>2. ASSUME NEW r \in Demand,
               Acquire(r) \/ Proceed(r) \/ Poll(r) \/ Cancel(r) \/ End(r)
        PROVE  TypeOK'
    BY <1>2, AcquireType, TryReservedType, UnqueuedType, AdmitOrWaitType, ReleaseType,
       WakeFrontType, PollType, CancelType, EndType DEF Proceed
  <1> QED BY <1>1, <1>2 DEF Next

\* A transfer that gives up half way, waits with one share in its hands, is
\* cancelled in the queue or ends returns exactly what it took and leaves no
\* entry behind (outbound/capacity.rs, fair_admission/wait_queue.rs).
THEOREM TypeInvariant == Spec => []TypeOK
  <1>1. Init => TypeOK
    BY InitType
  <1>2. TypeOK /\ [Next]_vars => TypeOK'
    BY StepType
  <1> QED BY <1>1, <1>2, PTL DEF Spec

-----------------------------------------------------------------------------
(* No wake-up is lost.  The inductive invariant joins what NoLostWake says *)
(* to Due: an armed waiter stands first, and a waiter that left no waker   *)
(* is due to be polled anyway, so whoever is armed is polled.              *)

\* The wake-up of the first waiter of scope s is under way.
WakeDue(s) ==
    queue[s] # <<>> /\ Fits(s, held[s], Head(queue[s])) =>
        \/ Head(queue[s]) \in armed \cap woken
        \/ \E r \in Demand : phase[r] = "freed" /\ at[r] = s

Inv == TypeOK /\ Due /\ \A s \in Scope : WakeDue(s)

\* What the provers need of a queue that is not empty.
LEMMA FrontFacts ==
  ASSUME TypeOK, NEW s \in Scope, queue[s] # <<>>
  PROVE  /\ Head(queue[s]) \in Demand /\ phase[Head(queue[s])] = "wait"
         /\ at[Head(queue[s])] = s /\ 1 \in DOMAIN queue[s] /\ queue[s][1] = Head(queue[s])
  <1>1. Typed /\ Lines
    BY TypeParts
  <1>2. queue[s] \in Seq(Demand)
    BY <1>1 DEF Typed
  <1>3. Head(queue[s]) \in Demand /\ 1 \in DOMAIN queue[s] /\ queue[s][1] = Head(queue[s])
    BY <1>2
  <1> QED BY <1>1, <1>3 DEF Lines, Queued

\* The law of the reservations: who fits among more holders fits among fewer.
LEMMA FitsFewer ==
  ASSUME NEW s \in Scope, NEW r \in Demand, NEW H \in SUBSET Demand, NEW G \in SUBSET H,
         Fits(s, H, r)
  PROVE  Fits(s, G, r)
  BY ReservationAssumption

\* A demand outside the queues moves, taking a share at most.
LEMMA MoveKeepsDue ==
  ASSUME Inv, NEW r \in Demand, OnlyMoves(r), phase[r] # "wait", phase'[r] # "wait",
         phase[r] # "freed", \A s \in Scope : held'[s] \in SUBSET Demand /\ held[s] \subseteq held'[s],
         UNCHANGED <<queue, armed, waker, woken>>
  PROVE  Due' /\ \A s \in Scope : WakeDue(s)'
  <1>1. TypeOK /\ Due
    BY DEF Inv
  <1>2. Due'
    <2>1. r \notin armed
      BY <1>1 DEF TypeOK
    <2> QED BY <1>1, <2>1 DEF Due, AtFront, OnlyMoves
  <1>3. ASSUME NEW s \in Scope, queue[s] # <<>>, Fits(s, held'[s], Head(queue[s]))
        PROVE  \/ Head(queue[s]) \in armed \cap woken
               \/ \E d \in Demand : phase'[d] = "freed" /\ at'[d] = s
    <2>1. Head(queue[s]) \in Demand
      BY <1>1, <1>3, FrontFacts
    <2>2. Fits(s, held[s], Head(queue[s]))
      BY <1>3, <2>1, FitsFewer
    <2> QED BY <1>3, <2>2 DEF Inv, WakeDue, OnlyMoves
  <1> QED BY <1>2, <1>3 DEF WakeDue

\* What taking a share does to the holders.
LEMMA AdmittedGrows ==
  ASSUME Typed, NEW r \in Demand, Admitted(r)
  PROVE  \A s \in Scope : held'[s] \in SUBSET Demand /\ held[s] \subseteq held'[s]
  BY DEF Typed, Admitted

\* Every wake-up stays due across the start of a request.
LEMMA AcquireDue ==
  ASSUME Inv, NEW r \in Demand, Acquire(r) PROVE Due' /\ \A s \in Scope : WakeDue(s)'
  <1>1. Typed
    BY TypeParts DEF Inv
  <1>2. OnlyMoves(r) /\ phase[r] = "idle" /\ phase'[r] = "reserve"
    BY <1>1 DEF Acquire, OnlyMoves, Typed
  <1>3. \A s \in Scope : held'[s] \in SUBSET Demand /\ held[s] \subseteq held'[s]
    BY <1>1 DEF Acquire, Typed
  <1> QED BY <1>2, <1>3, MoveKeepsDue DEF Acquire

\* Every wake-up stays due across the end of a transfer.
LEMMA EndDue ==
  ASSUME Inv, NEW r \in Demand, End(r) PROVE Due' /\ \A s \in Scope : WakeDue(s)'
  <1>1. Typed
    BY TypeParts DEF Inv
  <1>2. OnlyMoves(r) /\ phase[r] = "held" /\ phase'[r] = "release"
    BY <1>1 DEF End, OnlyMoves, Typed
  <1>3. \A s \in Scope : held'[s] \in SUBSET Demand /\ held[s] \subseteq held'[s]
    BY <1>1 DEF End, Typed
  <1> QED BY <1>2, <1>3, MoveKeepsDue DEF End

\* Every wake-up stays due across the attempt on the class's reservation.
LEMMA TryReservedDue ==
  ASSUME Inv, NEW r \in Demand, TryReserved(r) PROVE Due' /\ \A s \in Scope : WakeDue(s)'
  <1>1. Typed /\ Shares
    BY TypeParts DEF Inv
  <1>2. OnlyMoves(r) /\ phase'[r] # "wait" /\ phase[r] = "reserve"
    <2>1. CASE Admitted(r)
      BY <1>1, <2>1, AdmittedKeeps DEF TryReserved
    <2>2. CASE phase' = [phase EXCEPT ![r] = "share"] /\ UNCHANGED <<at, held>>
      BY <1>1, <2>2 DEF TryReserved, Typed, OnlyMoves
    <2> QED BY <2>1, <2>2 DEF TryReserved
  <1>3. \A s \in Scope : held'[s] \in SUBSET Demand /\ held[s] \subseteq held'[s]
    BY <1>1, AdmittedGrows DEF TryReserved, Typed
  <1> QED BY <1>2, <1>3, MoveKeepsDue DEF TryReserved

\* Every wake-up stays due across a request that does not wait.
LEMMA UnqueuedDue ==
  ASSUME Inv, NEW r \in Demand, try_admit_unqueued(r)
  PROVE  Due' /\ \A s \in Scope : WakeDue(s)'
  <1>1. Typed /\ Shares
    BY TypeParts DEF Inv
  <1>2. OnlyMoves(r) /\ phase'[r] # "wait" /\ phase[r] = "share"
    BY <1>1, AdmittedKeeps, RefusedKeeps DEF try_admit_unqueued
  <1>3. \A s \in Scope : held'[s] \in SUBSET Demand /\ held[s] \subseteq held'[s]
    BY <1>1, AdmittedGrows DEF try_admit_unqueued, Typed
  <1> QED BY <1>2, <1>3, MoveKeepsDue DEF try_admit_unqueued

\* Every wake-up stays due across a request that may wait.
LEMMA AdmitOrWaitDue ==
  ASSUME Inv, NEW r \in Demand, admit_or_wait(r) PROVE Due' /\ \A s \in Scope : WakeDue(s)'
  <1>1. Typed /\ Shares /\ TypeOK /\ Due
    BY TypeParts DEF Inv
  <1>2. CASE UNCHANGED <<queue, woken>> /\ (Admitted(r) \/ (Refused(r) /\ held' = held))
    <2>1. OnlyMoves(r) /\ phase'[r] # "wait" /\ phase[r] = "share"
      BY <1>1, <1>2, AdmittedKeeps, RefusedKeeps DEF admit_or_wait
    <2>2. \A s \in Scope : held'[s] \in SUBSET Demand /\ held[s] \subseteq held'[s]
      BY <1>1, <1>2, AdmittedGrows DEF Typed
    <2> QED BY <1>2, <2>1, <2>2, MoveKeepsDue DEF admit_or_wait
  <1>3. CASE /\ ~(queue[at[r]] = <<>> /\ Fits(at[r], held[at[r]], r))
             /\ queue' = [queue EXCEPT ![at[r]] = Append(@, r)]
             /\ phase' = [phase EXCEPT ![r] = "wait"]
             /\ woken' = woken \cup {r}
             /\ UNCHANGED <<at, held>>
    <2>1. /\ OnlyMoves(r) /\ phase'[r] = "wait" /\ phase[r] = "share"
          /\ armed' = armed /\ waker' = waker
      BY <1>1, <1>3 DEF Typed, OnlyMoves, admit_or_wait
    <2>2. /\ at[r] \in Scope /\ queue[at[r]] \in Seq(Demand)
          /\ queue'[at[r]] = Append(queue[at[r]], r)
          /\ \A s \in Scope \ {at[r]} : queue'[s] = queue[s]
      BY <1>1, <1>3 DEF Typed
    <2>3. \A s \in Scope : queue[s] # <<>> => queue'[s] # <<>> /\ Head(queue'[s]) = Head(queue[s])
      <3> SUFFICES ASSUME NEW s \in Scope, queue[s] # <<>>
                   PROVE  queue'[s] # <<>> /\ Head(queue'[s]) = Head(queue[s])
        OBVIOUS
      <3>1. CASE s = at[r]
        BY <2>2, <3>1
      <3>2. CASE s # at[r]
        BY <2>2, <3>2
      <3> QED BY <3>1, <3>2
    <2>4. Due'
      <3>1. r \notin armed
        BY <1>1, <2>1 DEF TypeOK
      <3>2. \A d \in Demand \ {r} : AtFront(d) => AtFront(d)'
        BY <1>1, <1>3, <2>3 DEF AtFront, Typed
      <3> QED BY <1>1, <1>3, <2>1, <3>1, <3>2 DEF Due, OnlyMoves
    <2>5. ASSUME NEW s \in Scope PROVE WakeDue(s)'
      <3>1. CASE queue[s] # <<>>
        BY <1>3, <2>1, <2>3, <3>1 DEF Inv, WakeDue, OnlyMoves
      <3>2. CASE queue[s] = <<>> /\ s = at[r]
        <4>1. Head(queue'[s]) = r
          BY <2>2, <3>2
        <4> QED BY <1>3, <3>2, <4>1 DEF WakeDue
      <3>3. CASE queue[s] = <<>> /\ s # at[r]
        BY <2>2, <3>3 DEF WakeDue
      <3> QED BY <3>1, <3>2, <3>3
    <2> QED BY <2>4, <2>5
  <1> QED BY <1>2, <1>3 DEF admit_or_wait

\* Every wake-up stays due across the return of a share.
LEMMA ReleaseDue ==
  ASSUME Inv, NEW r \in Demand, Release(r) PROVE Due' /\ \A s \in Scope : WakeDue(s)'
  <1>1. Typed /\ Shares /\ TypeOK /\ Due
    BY TypeParts DEF Inv
  <1>2. /\ OnlyMoves(r) /\ phase[r] = "release" /\ phase'[r] = "freed" /\ at' = at
        /\ UNCHANGED <<queue, armed, waker, woken>> /\ at[r] \in Scope
        /\ \A s \in Scope \ {at[r]} : held'[s] = held[s]
    BY <1>1 DEF Release, Typed, OnlyMoves
  <1>3. Due'
    BY <1>1, <1>2 DEF Due, AtFront, OnlyMoves, TypeOK
  <1>4. ASSUME NEW s \in Scope PROVE WakeDue(s)'
    <2>1. CASE s = at[r]
      BY <1>2, <2>1 DEF WakeDue
    <2>2. CASE s # at[r]
      BY <1>2, <2>2 DEF Inv, WakeDue, OnlyMoves
    <2> QED BY <2>1, <2>2
  <1> QED BY <1>3, <1>4

\* A first waiter that gets armed, or is armed already, is due to be polled.
LEMMA ArmedIsDue ==
  ASSUME Inv, NEW r \in Demand, NEW q \in Seq(Demand), q # <<>>, Head(q) # r,
         phase[Head(q)] = "wait", Armed(r, arm_front(q))
  PROVE  Head(q) \in armed' \cap woken'
  <1>1. Head(q) \in Demand
    OBVIOUS
  <1>2. Head(q) \in woken \/ Head(q) \in waker
    BY <1>1 DEF Inv, Due
  <1>3. Head(q) \in armed => Head(q) \in woken
    BY <1>1 DEF Inv, Due
  <1> QED BY <1>2, <1>3 DEF Armed, arm_front

\* Every wake-up stays due across the arming of the front.
LEMMA WakeFrontDue ==
  ASSUME Inv, NEW r \in Demand, WakeFront(r) PROVE Due' /\ \A s \in Scope : WakeDue(s)'
  <1>1. Typed /\ TypeOK /\ Due
    BY TypeParts DEF Inv
  <1>2. /\ OnlyMoves(r) /\ phase[r] = "freed" /\ phase'[r] # "wait" /\ held' = held
        /\ queue' = queue /\ at[r] \in Scope /\ queue[at[r]] \in Seq(Demand)
        /\ Armed(r, arm_front(queue[at[r]]))
    BY <1>1 DEF WakeFront, Typed, OnlyMoves
  <1>3. r \notin armed /\ r \notin waker /\ r \notin woken
    BY <1>1, <1>2 DEF TypeOK
  <1>4. queue[at[r]] # <<>> =>
          /\ Head(queue[at[r]]) \in armed' \cap woken' /\ Head(queue[at[r]]) # r
          /\ at[Head(queue[at[r]])] = at[r]
    BY <1>1, <1>2, FrontFacts, ArmedIsDue
  <1>5. /\ \A d \in Demand : d \in armed' => d \in armed \/ (queue[at[r]] # <<>> /\ d = Head(queue[at[r]]))
        /\ armed \subseteq armed' /\ woken \subseteq woken' /\ waker' = waker
    BY <1>2, <1>3, ArmFacts DEF Armed
  <1>6. Due'
    <2> SUFFICES ASSUME NEW d \in Demand
                 PROVE  /\ d \in armed' => AtFront(d)' /\ d \in woken'
                        /\ phase'[d] = "wait" /\ d \notin waker' => d \in woken'
      BY DEF Due
    <2>1. CASE d = r
      BY <1>2, <1>3, <1>4, <1>5, <2>1
    <2>2. CASE d # r
      <3>1. phase'[d] = phase[d] /\ at'[d] = at[d]
        BY <1>2, <2>2 DEF OnlyMoves
      <3>2. AtFront(d)' <=> AtFront(d)
        BY <1>2, <3>1 DEF AtFront
      <3>3. ASSUME d \in armed' PROVE AtFront(d) /\ d \in woken'
        <4>1. CASE d \in armed
          BY <1>1, <1>5, <4>1 DEF Due
        <4>2. CASE queue[at[r]] # <<>> /\ d = Head(queue[at[r]])
          BY <1>4, <4>2 DEF AtFront
        <4> QED BY <1>5, <3>3, <4>1, <4>2
      <3> QED BY <1>1, <1>5, <3>1, <3>2, <3>3 DEF Due
    <2> QED BY <2>1, <2>2
  <1>7. ASSUME NEW s \in Scope PROVE WakeDue(s)'
    <2>1. CASE s = at[r]
      BY <1>2, <1>4, <2>1 DEF WakeDue
    <2>2. CASE s # at[r]
      <3>1. \A d \in Demand : phase[d] = "freed" /\ at[d] = s => phase'[d] = "freed" /\ at'[d] = s
        BY <1>2, <2>2 DEF OnlyMoves
      <3> QED BY <1>2, <1>5, <3>1 DEF Inv, WakeDue
    <2> QED BY <2>1, <2>2
  <1> QED BY <1>6, <1>7

\* A waiter leaves its queue: at the front it arms the next, elsewhere it
\* arms no one.
LEMMA DepartureDue ==
  ASSUME Inv, NEW r \in Demand, phase[r] = "wait", phase'[r] # "wait", OnlyMoves(r),
         \A s \in Scope : held'[s] \in SUBSET Demand /\ held[s] \subseteq held'[s],
         NEW i \in DOMAIN queue[at[r]], queue[at[r]][i] = r,
         NEW q \in Seq(Demand), DOMAIN q = 1..(Len(queue[at[r]]) - 1),
         \A j \in 1..(Len(queue[at[r]]) - 1) :
            q[j] = IF j < i THEN queue[at[r]][j] ELSE queue[at[r]][j + 1],
         queue' = [queue EXCEPT ![at[r]] = q],
         NEW new \in SUBSET Demand, new = IF i = 1 THEN arm_front(q) ELSE {},
         Armed(r, new)
  PROVE  Due' /\ \A s \in Scope : WakeDue(s)'
  <1> DEFINE p == queue[at[r]]
  <1>1. Typed /\ Lines /\ TypeOK /\ Due
    BY TypeParts DEF Inv
  <1>2. /\ at[r] \in Scope /\ p \in Seq(Demand) /\ Len(p) \in Nat /\ DOMAIN p = 1..Len(p)
        /\ queue'[at[r]] = q /\ \A s \in Scope \ {at[r]} : queue'[s] = queue[s]
    BY <1>1 DEF Typed
  <1>3. \A j \in 1..Len(p) : p[j] = r => j = i
    BY <1>1, <1>2 DEF Lines
  <1>4. p # <<>> /\ Head(p) = p[1] /\ (i = 1 <=> Head(p) = r)
    BY <1>2, <1>3
  \* who stands in what is left of the queue waited in it before
  <1>5. q # <<>> => Head(q) = q[1] /\ Head(q) # r /\ phase[Head(q)] = "wait"
                    /\ Head(q) \in Demand /\ at[Head(q)] = at[r]
    <2> SUFFICES ASSUME q # <<>>
                 PROVE  Head(q) = q[1] /\ Head(q) # r /\ phase[Head(q)] = "wait"
                        /\ Head(q) \in Demand /\ at[Head(q)] = at[r]
      OBVIOUS
    <2>1. Head(q) = q[1] /\ 1 \in 1..(Len(p) - 1) /\ Head(q) \in Demand
      BY <1>2
    <2>2. PICK k \in 1..Len(p) : q[1] = p[k] /\ k # i
      <3>1. CASE 1 < i
        BY <1>2, <2>1, <3>1
      <3>2. CASE ~(1 < i)
        <4>1. i = 1 /\ 2 \in 1..Len(p) /\ q[1] = p[2]
          BY <1>2, <2>1, <3>2
        <4> QED BY <4>1
      <3> QED BY <3>1, <3>2
    <2>3. q[1] # r
      BY <1>3, <2>2
    <2>4. Queued(q[1], at[r])
      BY <1>2, <2>2 DEF Queued
    <2> QED BY <1>1, <1>2, <2>1, <2>3, <2>4 DEF Lines
  <1>6. i = 1 /\ q # <<>> => Head(q) \in armed' \cap woken'
    BY <1>5, ArmedIsDue
  <1>7. i # 1 => q # <<>> /\ Head(q) = Head(p)
    <2> SUFFICES ASSUME i # 1 PROVE q # <<>> /\ Head(q) = Head(p)
      OBVIOUS
    <2>1. 1 \in DOMAIN q /\ q[1] = p[1]
      BY <1>2
    <2> QED BY <1>4, <1>5, <2>1
  <1>8. /\ \A d \in Demand : d \in armed' =>
              (d \in armed /\ d # r) \/ (i = 1 /\ q # <<>> /\ d = Head(q))
        /\ armed \ {r} \subseteq armed' /\ woken \ {r} \subseteq woken' /\ waker' = waker \ {r}
    BY <1>5, ArmFacts DEF Armed
  <1>9. Due'
    <2> SUFFICES ASSUME NEW d \in Demand
                 PROVE  /\ d \in armed' => AtFront(d)' /\ d \in woken'
                        /\ phase'[d] = "wait" /\ d \notin waker' => d \in woken'
      BY DEF Due
    <2>1. CASE d = r
      BY <1>5, <1>8, <2>1
    <2>2. CASE d # r
      <3>1. phase'[d] = phase[d] /\ at'[d] = at[d]
        BY <2>2 DEF OnlyMoves
      <3>2. ASSUME d \in armed' PROVE AtFront(d)' /\ d \in woken'
        <4>1. CASE i = 1 /\ q # <<>> /\ d = Head(q)
          <5>1. at'[d] = at[r]
            BY <1>5, <3>1, <4>1
          <5> QED BY <1>2, <1>6, <4>1, <5>1 DEF AtFront
        <4>2. CASE d \in armed
          <5>1. AtFront(d) /\ d \in woken'
            BY <1>1, <1>8, <2>2, <4>2 DEF Due
          <5>2. CASE at[d] = at[r]
            <6>1. i # 1 /\ Head(p) = d
              BY <1>4, <2>2, <5>1, <5>2 DEF AtFront
            <6>2. queue'[at'[d]] = q /\ q # <<>> /\ Head(q) = d
              BY <1>2, <1>7, <3>1, <5>2, <6>1
            <6> QED BY <5>1, <6>2 DEF AtFront
          <5>3. CASE at[d] # at[r]
            <6>1. queue'[at'[d]] = queue[at[d]]
              BY <1>1, <1>2, <3>1, <5>3 DEF Typed
            <6> QED BY <5>1, <6>1 DEF AtFront
          <5> QED BY <5>2, <5>3
        <4> QED BY <1>8, <3>2, <4>1, <4>2
      <3> QED BY <1>1, <1>8, <2>2, <3>1, <3>2 DEF Due
    <2> QED BY <2>1, <2>2
  <1>10. ASSUME NEW s \in Scope, queue'[s] # <<>>, Fits(s, held'[s], Head(queue'[s]))
         PROVE  \/ Head(queue'[s]) \in armed' \cap woken'
                \/ \E d \in Demand : phase'[d] = "freed" /\ at'[d] = s
    <2>1. CASE s = at[r] /\ i = 1
      BY <1>2, <1>6, <1>10, <2>1
    <2>2. CASE ~(s = at[r] /\ i = 1)
      <3>1. queue[s] # <<>> /\ Head(queue'[s]) = Head(queue[s])
        BY <1>2, <1>4, <1>7, <1>10, <2>2
      <3>2. Head(queue[s]) \in Demand /\ Head(queue[s]) # r
        <4>1. Head(queue[s]) \in Demand /\ at[Head(queue[s])] = s
          BY <1>1, <3>1, FrontFacts
        <4> QED BY <1>4, <2>2, <4>1
      <3>3. Fits(s, held[s], Head(queue[s]))
        BY <1>10, <3>1, <3>2, FitsFewer
      <3>4. \A d \in Demand : phase[d] = "freed" /\ at[d] = s => phase'[d] = "freed" /\ at'[d] = s
        BY DEF OnlyMoves
      <3> QED BY <1>8, <3>1, <3>2, <3>3, <3>4 DEF Inv, WakeDue
    <2> QED BY <2>1, <2>2
  <1> QED BY <1>9, <1>10 DEF WakeDue

\* Every wake-up stays due across the poll of a waiter.
LEMMA PollDue ==
  ASSUME Inv, NEW r \in Demand, Poll(r) PROVE Due' /\ \A s \in Scope : WakeDue(s)'
  <1>1. Typed /\ Shares /\ TypeOK /\ Due
    BY TypeParts DEF Inv
  \* not the first, or not armed, or it does not fit: it only leaves its waker
  <1>2. CASE /\ UNCHANGED <<phase, at, held, queue>> /\ armed' = armed \ {r}
             /\ waker' = waker \cup {r} /\ woken' = woken \ {r}
             /\ ~AtFront(r) \/ r \notin armed \/ ~Fits(at[r], held[at[r]], r)
    <2>1. Due'
      BY <1>1, <1>2 DEF Due, AtFront
    <2>2. ASSUME NEW s \in Scope PROVE WakeDue(s)'
      <3>1. CASE queue[s] # <<>> /\ Head(queue[s]) = r
        <4>1. at[r] = s /\ AtFront(r)
          BY <1>1, <3>1, FrontFacts DEF AtFront
        <4> QED BY <1>2, <3>1, <4>1 DEF Inv, WakeDue
      <3>2. CASE queue[s] = <<>> \/ Head(queue[s]) # r
        BY <1>2, <3>2 DEF Inv, WakeDue
      <3> QED BY <3>1, <3>2
    <2> QED BY <2>1, <2>2
  <1>3. CASE /\ AtFront(r) /\ Admitted(r)
             /\ Departs(r, Tail(queue[at[r]]))
             /\ Armed(r, arm_front(Tail(queue[at[r]])))
    <2> DEFINE p == queue[at[r]]  new == arm_front(Tail(p))
    <2>1. at[r] \in Scope /\ p \in Seq(Demand) /\ p # <<>> /\ Head(p) = r
      BY <1>1, <1>3 DEF Typed, AtFront
    <2>2. /\ Tail(p) \in Seq(Demand) /\ Len(Tail(p)) = Len(p) - 1
          /\ \A j \in 1..Len(Tail(p)) : Tail(p)[j] = p[j + 1]
          /\ DOMAIN Tail(p) = 1..(Len(p) - 1) /\ 1 \in DOMAIN p /\ p[1] = r
      BY <2>1, TailFacts
    <2>3. \A j \in 1..(Len(p) - 1) : Tail(p)[j] = IF j < 1 THEN p[j] ELSE p[j + 1]
      BY <2>2
    <2>4. new \in SUBSET Demand /\ new = (IF 1 = 1 THEN arm_front(Tail(p)) ELSE {})
      BY <2>2, ArmFacts
    <2>5. /\ phase[r] = "wait" /\ phase'[r] # "wait" /\ OnlyMoves(r)
          /\ \A s \in Scope : held'[s] \in SUBSET Demand /\ held[s] \subseteq held'[s]
      BY <1>1, <1>3, AdmittedKeeps, AdmittedGrows DEF Poll
    <2>6. queue' = [queue EXCEPT ![at[r]] = Tail(p)] /\ Armed(r, new)
      BY <1>3 DEF Departs
    <2> HIDE DEF new
    <2> QED BY <2>2, <2>3, <2>4, <2>5, <2>6, DepartureDue
  <1>4. ~AtFront(r) \/ r \notin armed => armed = armed \ {r}
    BY <1>1 DEF Due
  <1> QED BY <1>2, <1>3, <1>4 DEF Poll

\* Every wake-up stays due across a wait given up.
LEMMA CancelDue ==
  ASSUME Inv, NEW r \in Demand, Cancel(r) PROVE Due' /\ \A s \in Scope : WakeDue(s)'
  <1>0. Typed /\ Shares
    BY TypeParts DEF Inv
  <1> DEFINE p == queue[at[r]]
  <1>1. PICK i \in DOMAIN p :
          /\ p[i] = r
          /\ Departs(r, remove(p, i))
          /\ Armed(r, IF i = 1 THEN arm_front(remove(p, i)) ELSE {})
    BY DEF Cancel
  <1>2. p \in Seq(Demand)
    BY <1>0 DEF Typed
  <1>3. /\ remove(p, i) \in Seq(Demand) /\ DOMAIN remove(p, i) = 1..(Len(p) - 1)
        /\ \A j \in 1..(Len(p) - 1) : remove(p, i)[j] = IF j < i THEN p[j] ELSE p[j + 1]
    BY <1>2, RemoveFacts
  <1> DEFINE new == IF i = 1 THEN arm_front(remove(p, i)) ELSE {}
  <1>4. new \in SUBSET Demand /\ new = (IF i = 1 THEN arm_front(remove(p, i)) ELSE {})
    BY <1>3, ArmFacts
  <1>5. /\ phase[r] = "wait" /\ phase'[r] # "wait" /\ OnlyMoves(r)
        /\ \A s \in Scope : held'[s] \in SUBSET Demand /\ held[s] \subseteq held'[s]
    BY <1>0, RefusedKeeps DEF Cancel, Typed
  <1>6. queue' = [queue EXCEPT ![at[r]] = remove(p, i)] /\ Armed(r, new)
    BY <1>1 DEF Departs
  <1> HIDE DEF new
  <1> QED BY <1>1, <1>3, <1>4, <1>5, <1>6, DepartureDue

\* Every step keeps the inductive invariant.
LEMMA StepInv == ASSUME Inv, [Next]_vars PROVE Inv'
  <1>0. TypeOK'
    BY StepType DEF Inv
  <1>1. ASSUME UNCHANGED vars PROVE Due' /\ \A s \in Scope : WakeDue(s)'
    BY <1>1 DEF vars, Inv, Due, AtFront, WakeDue
  <1>2. ASSUME NEW r \in Demand,
               Acquire(r) \/ Proceed(r) \/ Poll(r) \/ Cancel(r) \/ End(r)
        PROVE  Due' /\ \A s \in Scope : WakeDue(s)'
    BY <1>2, AcquireDue, TryReservedDue, UnqueuedDue, AdmitOrWaitDue, ReleaseDue,
       WakeFrontDue, PollDue, CancelDue, EndDue DEF Proceed
  <1>3. Due' /\ \A s \in Scope : WakeDue(s)'
    BY <1>1, <1>2 DEF Next
  <1> QED BY <1>0, <1>3 DEF Inv

\* The inductive invariant holds throughout.
LEMMA InvHolds == Spec => []Inv
  <1>1. Init => Inv
    BY InitType DEF Init, Inv, Due, WakeDue
  <1>2. Inv /\ [Next]_vars => Inv'
    BY StepInv
  <1> QED BY <1>1, <1>2, PTL DEF Spec

\* A first waiter that fits is armed and due to be polled, or the thread that
\* freed the share is about to arm it: although the share is returned before
\* the queue's lock is taken (outbound/capacity.rs: ScopedCapacity::release)
\* and any step may fall in between, no wake-up is lost.
THEOREM WakeupsKept == Spec => []NoLostWake
  <1>1. Inv => NoLostWake
    BY DEF Inv, WakeDue, NoLostWake
  <1> QED BY <1>1, InvHolds, PTL

-----------------------------------------------------------------------------
(* The refinement: every step is a step of FairShare, or leaves its state  *)
(* alone.                                                                  *)

\* The same set of waiters, the same removal.
LEMMA SameNames ==
  /\ \A s, r : r \in Abstract!Waiting(s) <=> Queued(r, s)
  /\ \A q, i : Abstract!remove(q, i) = remove(q, i)
  BY DEF Abstract!Waiting, Queued, Abstract!remove, remove

\* Where a demand tries for a share, it neither holds one nor waits.
LEMMA NotYet ==
  ASSUME TypeOK, NEW r \in Demand, phase[r] \in {"reserve", "share"}
  PROVE  at[r] \in Scope /\ r \notin held[at[r]] /\ r \notin Abstract!Waiting(at[r])
  <1>1. Typed /\ Shares /\ Lines
    BY TypeParts
  <1>2. PeerOf(r) \in Peers /\ PeerOf(r) # Node /\ at[r] \in {PeerOf(r), Node} /\ at[r] \in Scope
    BY <1>1, ScopeFacts DEF Typed
  <1>3. r \notin held[at[r]]
    <2>1. CASE at[r] = Node
      BY <1>1, <2>1 DEF Shares, MayHoldNode
    <2>2. CASE at[r] = PeerOf(r)
      BY <1>1, <1>2, <2>2 DEF Shares, HoldsPeer
    <2> QED BY <1>2, <2>1, <2>2
  <1>4. ~Queued(r, at[r])
    BY <1>1, <1>2 DEF Lines
  <1> QED BY <1>2, <1>3, <1>4, SameNames

\* Every step of the threads is one of FairShare's or a stutter.
LEMMA StepRefines == ASSUME TypeOK, [Next]_vars PROVE [Abstract!Next]_Abstract!vars
  <1> DEFINE Same == held' = held /\ queue' = queue
  <1>0. Same => [Abstract!Next]_Abstract!vars
    BY DEF Abstract!vars
  <1>1. CASE UNCHANGED vars
    BY <1>0, <1>1 DEF vars
  <1>2. ASSUME NEW r \in Demand,
               Acquire(r) \/ Proceed(r) \/ Poll(r) \/ Cancel(r) \/ End(r)
        PROVE  Same \/ Abstract!Next
    <2>0. at[r] \in Scope
      BY DEF TypeOK
    <2>1. CASE Acquire(r) \/ End(r) \/ WakeFront(r)
      BY <2>1 DEF Acquire, End, WakeFront
    <2>2. CASE TryReserved(r)
      <3>1. Same \/ Abstract!TakeReserved(at[r], r)
        BY <2>2, NotYet DEF TryReserved, Admitted, Abstract!TakeReserved, Abstract!Join
      <3> QED BY <2>0, <3>1 DEF Abstract!Next
    <2>3. CASE try_admit_unqueued(r)
      <3>1. Same \/ Abstract!Borrow(at[r], r)
        BY <2>3, NotYet DEF try_admit_unqueued, Admitted, Abstract!Borrow, Abstract!Join
      <3> QED BY <2>0, <3>1 DEF Abstract!Next
    <2>4. CASE admit_or_wait(r)
      <3>1. Same \/ Abstract!Borrow(at[r], r) \/ Abstract!Enqueue(at[r], r)
        BY <2>4, NotYet DEF admit_or_wait, Admitted, Abstract!Borrow, Abstract!Join,
           Abstract!Enqueue
      <3> QED BY <2>0, <3>1 DEF Abstract!Next
    <2>5. CASE Poll(r)
      <3>1. Same \/ Abstract!Serve(at[r], r)
        BY <2>5 DEF Poll, AtFront, Admitted, Departs, Abstract!Serve, Abstract!Join
      <3> QED BY <2>0, <3>1 DEF Abstract!Next
    <2>6. CASE Cancel(r)
      <3>1. Abstract!Leave(at[r], r)
        BY <2>6, SameNames DEF Cancel, Departs, Abstract!Leave
      <3> QED BY <2>0, <3>1 DEF Abstract!Next
    <2>7. CASE Release(r)
      <3>1. Same \/ Abstract!GiveBack(at[r], r)
        BY <2>7 DEF Release, TypeOK, Abstract!GiveBack
      <3> QED BY <2>0, <3>1 DEF Abstract!Next
    <2> QED BY <1>2, <2>1, <2>2, <2>3, <2>4, <2>5, <2>6, <2>7 DEF Proceed
  <1> QED BY <1>0, <1>1, <1>2 DEF Next

\* The queues under their locks, the permits and the wakers implement the
\* first-come-first-served scopes of FairShare: no request that may wait
\* overtakes a queued one, nothing is admitted that does not fit, and a share
\* is returned once (the liveness half of ImplementsFairShare is
\* model-checked).
THEOREM Refinement == Spec => Abstract!Spec
  <1>1. Init => Abstract!Init
    BY DEF Init, Abstract!Init
  <1>2. TypeOK /\ [Next]_vars => [Abstract!Next]_Abstract!vars
    BY StepRefines
  <1> QED BY <1>1, <1>2, TypeInvariant, PTL DEF Spec, Abstract!Spec
=============================================================================
