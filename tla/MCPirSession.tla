---------------------------- MODULE MCPirSession ----------------------------
(***************************************************************************)
(* PirSession on small instances: one block per chunk, so that the seeds   *)
(* and the queries of different servers overlap in every block.            *)
(***************************************************************************)
EXTENDS PirSession, TLC

CONSTANTS b0, b1, b2, c1, c2

OneBlockPerChunk == b0 :> 0 @@ b1 :> 1 @@ b2 :> 2
OneBlock         == b0 :> 0

=============================================================================
