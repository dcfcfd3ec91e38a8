-------------------------- MODULE MCInboundAdmission --------------------------
(* Small workloads of InboundAdmission for TLC. *)
EXTENDS InboundAdmission

Arrival(peer, lane, stream, charge, bytes) ==
    [peer |-> peer, lane |-> lane, stream |-> stream, charge |-> charge, bytes |-> bytes,
     introducer |-> "s"]

OneSlot == <<"s">>
OnePerLane == [l \in Lanes |-> 1]
TwoPerLane == [l \in Lanes |-> 2]

\* Two frames that share lane 1, the larger beyond its reservation; on lane 2 two first chunks of
\* one introducer, the second followed by a covered chunk of its stream.
Mixed == <<Arrival(2, 1, 1, "Bytes", 2), Arrival(1, 2, 2, "Message", 1),
           Arrival(1, 1, 3, "Bytes", 1), Arrival(3, 2, 4, "Message", 1),
           Arrival(3, 2, 4, "Covered", 0)>>
=============================================================================
