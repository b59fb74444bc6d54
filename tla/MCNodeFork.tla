----------------------------- MODULE MCNodeFork -----------------------------
(***************************************************************************)
(* Two branches that tie up to number 4, then make two and three of their  *)
(* blocks irreversible; the third of the second branch is bad.             *)
(*                                                                         *)
(*     0 (1) --- 1 (2) --- 4 (3) --- 5 (4) --- 7 (5)     id (block_num)    *)
(*       \ ----- 2 (2) --- 3 (3) --- 6 (4) bad --- 8 (5)                   *)
(***************************************************************************)
EXTENDS Node

MCBlock == 0..8
MCPrev  == [b \in 1..8 |-> <<0, 0, 2, 1, 4, 3, 5, 6>>[b]]
MCNum   == [b \in 0..8 |-> <<1, 2, 2, 3, 3, 4, 4, 5, 5>>[b + 1]]
MCLib   == [b \in 0..8 |-> <<1, 1, 1, 1, 1, 2, 1, 3, 4>>[b + 1]]
MCBad   == {6}
=============================================================================
