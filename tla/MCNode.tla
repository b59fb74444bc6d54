------------------------------- MODULE MCNode -------------------------------
(***************************************************************************)
(* Two branches that tie up to number 4, where the second one goes bad,    *)
(* with siblings that tie with the blocks of the first one.  Block 3, the  *)
(* last good one of the second branch, comes before its rival 4 in the     *)
(* index.                                                                  *)
(*                                                                         *)
(*     0 (1) --- 1 (2) --- 4 (3) --- 5 (4) --- 7 (5) bad   id (block_num)  *)
(*       |         |                   \ ----- 9 (5) --- 11 (6)            *)
(*       |         \ ----- 8 (3)                                           *)
(*       \ ----- 2 (2) --- 3 (3) --- 6 (4) bad --- 10 (5)                  *)
(***************************************************************************)
EXTENDS Node

MCBlock == 0..11
MCPrev  == [b \in 1..11 |-> <<0, 0, 2, 1, 4, 3, 5, 1, 5, 6, 9>>[b]]
MCNum   == [b \in 0..11 |-> <<1, 2, 2, 3, 3, 4, 4, 5, 3, 5, 5, 6>>[b + 1]]
MCLib   == [b \in 0..11 |-> <<1, 1, 1, 1, 1, 1, 1, 3, 1, 3, 1, 4>>[b + 1]]
MCBad   == {6, 7}
=============================================================================
