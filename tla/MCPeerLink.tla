----------------------------- MODULE MCPeerLink -----------------------------
(***************************************************************************)
(* PeerLink on a small instance.                                           *)
(***************************************************************************)
EXTENDS PeerLink

\* States nothing is said of are left out: those behind an unlock of another
\* thread's mutex, a read of a part of a tuple, or a second start command.
Told == ~broken /\ ~misaligned /\ ~overlap
=============================================================================
