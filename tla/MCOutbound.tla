------------------------------ MODULE MCOutbound ------------------------------
(* Small workloads of the outbound capacity for TLC. *)
EXTENDS OutboundCapacity

Transfer(peer, class, bytes, waits) ==
    [peer |-> peer, class |-> class, bytes |-> bytes, waits |-> waits]

OneEach == [c \in {"control", "data"} |-> 1]

\* Large demands of two peers that wait, and a small one that does not: the
\* three of peer p compete for its bytes, all for the node's.
Load == <<Transfer("p", "data", 2, TRUE), Transfer("p", "data", 3, TRUE),
          Transfer("q", "data", 3, TRUE), Transfer("p", "data", 1, FALSE)>>
=============================================================================
