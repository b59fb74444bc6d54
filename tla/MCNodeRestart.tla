---------------------------- MODULE MCNodeRestart ----------------------------
(***************************************************************************)
(* Two branches that tie up to number 4; the second one goes bad there and *)
(* each makes two blocks irreversible at once.  Small, because             *)
(* the node is stopped and started in every state.                         *)
(*                                                                         *)
(*     0 (1) --- 1 (2) --- 4 (3) --- 5 (4)               id (block_num)    *)
(*       \ ----- 2 (2) --- 3 (3) --- 6 (4) bad                             *)
(***************************************************************************)
EXTENDS Node

MCBlock == 0..6
MCPrev  == [b \in 1..6 |-> <<0, 0, 2, 1, 4, 3>>[b]]
MCNum   == [b \in 0..6 |-> <<1, 2, 2, 3, 3, 4, 4>>[b + 1]]
MCLib   == [b \in 0..6 |-> <<1, 1, 1, 1, 1, 3, 3>>[b + 1]]
MCBad   == {6}
=============================================================================
