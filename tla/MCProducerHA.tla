---------------------------- MODULE MCProducerHA ----------------------------
(***************************************************************************)
(* Two nodes, p and q; each may build a first block, p also a second one   *)
(* in its place, and q one on top.                                         *)
(*                                                                         *)
(*     0 (1) --- 1 (2) p                       id (block_num) builders     *)
(*       \ ----- 2 (2) p, q --- 3 (3) q                                    *)
(***************************************************************************)
EXTENDS ProducerHA

CONSTANTS p, q

MCBlock   == 0..3
MCPrev    == [b \in 1..3 |-> <<0, 0, 2>>[b]]
MCNum     == [b \in 0..3 |-> <<1, 2, 2, 3>>[b + 1]]
MCLib     == [b \in 0..3 |-> <<1, 1, 1, 2>>[b + 1]]
MCBuilder == [b \in 1..3 |-> <<{p}, {p, q}, {q}>>[b]]
=============================================================================
