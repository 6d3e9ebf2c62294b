--------------------------- MODULE MCPeerPoolCpu ---------------------------
(***************************************************************************)
(* PeerPoolCpu on small instances.                                         *)
(***************************************************************************)
EXTENDS PeerPoolCpu

\* States behind an unlock of another thread's mutex are left out.
NotBroken == ~broken
=============================================================================
