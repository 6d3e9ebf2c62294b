------------------------------ MODULE SeedQueue ------------------------------
(***************************************************************************)
(* What the seed memory of a server promises: a bounded queue of tuples    *)
(* (a seed and the value precomputed for it).  Every tuple that is         *)
(* precomputed is handed out exactly once and in order, and its value is   *)
(* the one that belongs to its seed.                                       *)
(*                                                                         *)
(* A tuple is named by its place in the order of precomputation.  The      *)
(* promise ends when the memory is degraded: from then on nothing is said. *)
(***************************************************************************)
EXTENDS Naturals, Sequences

CONSTANT MaxSeeds \* NUMBER_SEEDS

VARIABLES
  queue,   \* the tuples waiting, the oldest first
  handed,  \* the tuples handed out so far
  degraded

vars == <<queue, handed, degraded>>

Init ==
  /\ queue = <<>>
  /\ handed = <<>>
  /\ degraded = FALSE

NextTuple ==
  LET n == Len(handed) + Len(queue) + 1 IN [seed |-> n, value |-> n]

Put ==
  /\ Len(queue) < MaxSeeds
  /\ queue' = Append(queue, NextTuple)
  /\ UNCHANGED handed

Take ==
  /\ queue # <<>>
  /\ handed' = Append(handed, Head(queue))
  /\ queue' = Tail(queue)

Next == degraded' \/ (UNCHANGED degraded /\ (Put \/ Take))

Spec == Init /\ [][Next]_vars
=============================================================================
