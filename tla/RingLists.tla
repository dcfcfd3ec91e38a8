------------------------------ MODULE RingLists ------------------------------
(***************************************************************************)
(* The list algorithms of crates/core/src/dht/topology.rs as they are      *)
(* written (retain, sort, dedup, truncate; folds; the run-removal loop),   *)
(* checked on the successors and finger tables that PeerRing reaches       *)
(* against the set-level definitions of RingGeometry that the state        *)
(* machines use.                                                           *)
(***************************************************************************)
EXTENDS PeerRing, SequencesExt

-----------------------------------------------------------------------------
push_unique(xs, x) == IF Contains(xs, x) THEN xs ELSE Append(xs, x)

\* Vec::retain: the elements other than the node itself, in order.
keep_remote(kept, x) == IF x = Local THEN kept ELSE Append(kept, x)
retain_remote(xs) == FoldLeft(keep_remote, <<>>, xs)

\* slice::sort_by_key is a stable sort, which has one result: an element stands
\* behind all that are no farther.
insert_by_distance(sorted, x) ==
    LET behind == Cardinality({i \in 1 .. Len(sorted) :
                                 dist(Local, sorted[i]) <= dist(Local, x)})
    IN  SubSeq(sorted, 1, behind) \o <<x>> \o SubSeq(sorted, behind + 1, Len(sorted))

sort_by_distance(xs) == FoldLeft(insert_by_distance, <<>>, xs)

\* Vec::dedup: drops an element equal to its left neighbour.
keep_new(kept, x) == IF kept # <<>> /\ Last(kept) = x THEN kept ELSE Append(kept, x)
dedup(xs) == FoldLeft(keep_new, <<>>, xs)

truncate(xs, n) == SubSeq(xs, 1, IF Len(xs) < n THEN Len(xs) ELSE n)

\* Mutant of sorted_list: the list is cut before it is sorted.
sorted_list_cut_first(candidates) ==
    dedup(sort_by_distance(truncate(retain_remote(candidates), Capacity)))

sorted_list(candidates) ==
    truncate(dedup(sort_by_distance(retain_remote(candidates))), Capacity)

\* stabilize_successors: everything known, each once, then normalized.
stabilize_list(cur, report, pred) ==
    LET arrivals == cur \o (IF pred = None THEN <<>> ELSE <<pred>>) \o report
    IN  sorted_list(FoldLeft(push_unique, <<Local>>, arrivals))

\* step_stabilize folds finger_join over the new successor list.
join_peer(table, p) == finger_join(Local, table, {p})
join_list(table, peers) == FoldLeft(join_peer, table, peers)

\* The loop of remove_finger_peer over slot indices: from a table and an index
\* to the table the loop ends with.
remove_loop(p) ==
    LET loop[state \in [Slot -> Option(Peers)] \X (0 .. Slots)] ==
          LET next  == state[1]
              index == state[2]
              after == CHOOSE e \in index .. Slots :
                          /\ \A k \in index .. e - 1 : next[k] = p
                          /\ e = Slots \/ next[e] # p
              replacement == IF after = Slots THEN None ELSE next[after]
          IN  IF index >= Slots THEN next
              ELSE IF next[index] # p THEN loop[<<next, index + 1>>]
              ELSE loop[<<[i \in Slot |-> IF i \in index .. after - 1
                                          THEN replacement ELSE next[i]], after>>]
    IN  loop

-----------------------------------------------------------------------------
Members(xs) == {xs[i] : i \in 1 .. Len(xs)}

\* A list is the enumeration by distance of a set.
Enumerates(xs, S) ==
    /\ Members(xs) = S
    /\ \A i \in 1 .. Len(xs) - 1 : dist(Local, xs[i]) < dist(Local, xs[i + 1])

\* In whatever order the successors stand and a report names peers, the merged
\* list is the distance-ordered enumeration of the Capacity nearest known
\* peers, so modelling it by a set loses nothing.
MergeIsASet ==
    \A cur \in SetToSeqs(successors_), S \in SUBSET Peers, pred \in {None, Local} \cup Peers :
        \A report \in SetToSeqs(S) :
            Enumerates(stabilize_list(cur, report \o cur, pred),
                       stabilize_successors(Local, successors_, S \cup successors_, pred))

\* Folding finger_join over the successor list gives, slot by slot, the nearest
\* peer that reaches it, whichever the order and whatever the table holds.
JoinIsASet ==
    \A order \in SetToSeqs(successors_) :
        join_list(fingers, order) = finger_join(Local, fingers, successors_)

\* The run-removal loop removes every occurrence, including the last slot and
\* runs that follow one another, and gives a slot the first hint after its run.
RemovalByRuns ==
    \A p \in Peers :
        /\ remove_loop(p)[<<fingers, 0>>] = remove_finger_peer(fingers, p)
        /\ \A i \in Slot : remove_loop(p)[<<fingers, 0>>][i] # p
=============================================================================
