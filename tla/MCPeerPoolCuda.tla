--------------------------- MODULE MCPeerPoolCuda ---------------------------
(***************************************************************************)
(* PeerPoolCuda on small instances.                                        *)
(***************************************************************************)
EXTENDS PeerPoolCuda, FiniteSets

\* States behind an unlock of another thread's mutex are left out.
NotBroken == ~broken

\* No third thread fills the memory while two do: each adds a batch as large
\* as the whole memory at most.
Bounded ==
  NotBroken /\ Cardinality({t \in Thread : pc[t] \in Filling}) <= 2
=============================================================================
