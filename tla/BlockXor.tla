------------------------------ MODULE BlockXor ------------------------------
(***************************************************************************)
(* Exclusive or of memory blocks, as the client and the servers use it.    *)
(*                                                                         *)
(* The content of a buffer of BLOCKSIZE bytes is represented by the set of *)
(* database blocks whose exclusive or it holds, and a query (one bit per   *)
(* block) by the set of blocks whose bit is set.  On both, exclusive or is *)
(* symmetric difference.  The representation loses nothing the protocol    *)
(* depends on: it never looks at the bytes of a block.                     *)
(***************************************************************************)
EXTENDS Naturals, FiniteSets

\* xorBytes / xorFullBlocks: dest ^= data.
Xor(dest, data) == (dest \ data) \cup (data \ dest)

Odd(n) == n % 2 = 1

(***************************************************************************)
(* What a buffer holds that started at zero and was xor-ed once with f[s]  *)
(* for each s in S, in any order: the blocks that occur in an odd number   *)
(* of the f[s].                                                            *)
(***************************************************************************)
XorOf(f, S, Block) ==
  {b \in Block : Odd(Cardinality({s \in S : b \in f[s]}))}
=============================================================================
