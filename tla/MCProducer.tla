----------------------------- MODULE MCProducer -----------------------------
(***************************************************************************)
(* Own blocks compete with the branch of 5 and, on top of the own block 1, *)
(* with a peer's block 7, on which another one builds the bad block 8.     *)
(*                                                                         *)
(*     0 (1) --- 1 (2) own --- 3 (3) own           id (block_num)          *)
(*       |         \ ----- 7 (3) --- 8 (4)                                 *)
(*       \ ----- 2 (2) own --- 4 (3) own                                   *)
(*       \ ----- 5 (2) --- 6 (3) --- 9 (4) own                             *)
(***************************************************************************)
EXTENDS Producer

MCBlock == 0..9
MCPrev  == [b \in 1..9 |-> <<0, 0, 1, 2, 0, 5, 1, 7, 6>>[b]]
MCNum   == [b \in 0..9 |-> <<1, 2, 2, 3, 3, 2, 3, 3, 4, 4>>[b + 1]]
MCLib   == [b \in 0..9 |-> <<1, 1, 1, 2, 1, 1, 1, 1, 1, 2>>[b + 1]]
MCOwn   == {1, 2, 3, 4, 9}
=============================================================================
