----------------------------- MODULE MCPeerSync -----------------------------
(***************************************************************************)
(* Two peers with the same chain.  From block 1 the way to block 4 takes   *)
(* two requests up to the last irreversible block, or a head catch-up for  *)
(* the last block; a block that a peer announces before its turn, or after *)
(* one that it failed to fetch, is refused.                                *)
(***************************************************************************)
EXTENDS PeerSync

MCPeerHead == <<4, 4>>
MCPeerLib  == <<4, 4>>
=============================================================================
