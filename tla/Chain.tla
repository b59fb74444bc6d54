-------------------------------- MODULE Chain --------------------------------
(***************************************************************************)
(* What a running node promises to those who read its chain: the head is   *)
(* on a branch of good blocks, the chain never moves to a worse branch,    *)
(* and the last irreversible block, always on the branch of the head, only *)
(* moves forward along that branch.                                        *)
(***************************************************************************)
EXTENDS BlockTree

CONSTANT Bad        \* blocks whose execution fails

VARIABLES
    head,       \* the head of the chain
    lib         \* the last irreversible block

Init == head = Genesis /\ lib = Genesis

Adopt(h, l) ==
    /\ Anc[h] \cap Bad = {}
    /\ ~FirstPreferred(head, h)
    /\ l \in Anc[h]
    /\ lib \in Anc[l]
    /\ head' = h
    /\ lib' = l

Next == \E h, l \in Block : Adopt(h, l)

Spec == Init /\ [][Next]_<<head, lib>>
=============================================================================
