----------------------------- MODULE MCRerouting -----------------------------
(* A small workload around one placement for TLC. *)
EXTENDS MCOutbound, Rerouting

\* The placement, a large rival for the node's bytes and the peer's slots, and
\* a small transfer that can be ahead of the placement on the link.
Jam == <<Transfer("p", "data", 2, TRUE), Transfer("p", "data", 2, TRUE),
         Transfer("p", "data", 1, FALSE)>>
=============================================================================
