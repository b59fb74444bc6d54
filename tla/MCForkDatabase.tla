--------------------------- MODULE MCForkDatabase ---------------------------
(***************************************************************************)
(* A small block tree for the fork database: branches that tie at every    *)
(* height until one of them has the higher irreversible number.            *)
(*                                                                         *)
(*        0 (1) --- 1 (2) --- 4 (3) --- 5 (4)          id (block_num)      *)
(*          |         |         \ ----- 7 (4)                              *)
(*          |         \ ----- 8 (3)                                        *)
(*          \ ----- 2 (2) --- 3 (3) --- 6 (4)                              *)
(***************************************************************************)
EXTENDS ForkDatabaseImpl

MCBlock == 0..8
MCPrev  == [b \in 1..8 |-> <<0, 0, 2, 1, 4, 3, 4, 1>>[b]]
MCNum   == [b \in 0..8 |-> <<1, 2, 2, 3, 3, 4, 4, 4, 3>>[b + 1]]
MCLib   == [b \in 0..8 |-> <<1, 1, 1, 1, 2, 2, 3, 3, 1>>[b + 1]]
=============================================================================
