-------------------------- MODULE ForkDatabaseSpec --------------------------
(***************************************************************************)
(* The fork database under an arbitrary sequence of calls.                 *)
(*                                                                         *)
(* Three calls are made as the controller makes them: remove_head only for *)
(* a head without children, advance_root only along the branch of the      *)
(* head, and a block is marked valid only once its previous block is.      *)
(* Node checks that the controller does (ForkDbWellFormed).                *)
(***************************************************************************)
EXTENDS ForkDatabase

VARIABLE fdb

Init == fdb = ResetTo(Genesis)

AddBlock(b)      == CanAdd(fdb, b) /\ fdb' = Add(fdb, b)
MarkBlockValid(b) == /\ b \in fdb.index
                     /\ Prev[b] \in fdb.valid \cup {fdb.root}
                     /\ fdb' = MarkValid(fdb, b)
RemoveForkAt(b)  == b \in fdb.index /\ CanRemoveFork(fdb, b) /\ fdb' = RemoveFork(fdb, b)
RemoveHeadBlock  == /\ fdb.head # fdb.root
                    /\ \A x \in fdb.index : Prev[x] # fdb.head
                    /\ fdb' = RemoveHead(fdb)
AdvanceRootTo(b) == b \in Anc[fdb.head] /\ CanAdvanceRoot(fdb, b) /\ fdb' = AdvanceRoot(fdb, b)
Rollback         == fdb' = RollbackHeadToRoot(fdb)
ResetRoot(b)     == fdb' = ResetTo(b)

Next ==
    \/ \E b \in Block : \/ AddBlock(b)     \/ MarkBlockValid(b)
                        \/ RemoveForkAt(b) \/ AdvanceRootTo(b)
                        \/ ResetRoot(b)
    \/ RemoveHeadBlock
    \/ Rollback

Spec == Init /\ [][Next]_fdb

-----------------------------------------------------------------------------
(* Properties *)

TypeOK == fdb \in ForkDb

\* The assertion of advance_root, "invariant violation: orphaned branch was
\* present in forked database", never fails, and every block of the index can
\* be walked back to the root.
NoOrphans == Rooted(fdb)

\* What open() asserts of a database read back from its file ("head not set to
\* best available option available") is true of every database there is to save.
HeadIsBest == BestHead(fdb)

\* The branch of the head can be applied again block by block (replay of the
\* reversible blocks, reversal of a failed fork switch).
ValidBranches == ValidOnValid(fdb)

\* The controller only ever switches to pending_head(); it never hides a better
\* block, validated or not.
PendingHeadIsBest == \A b \in fdb.index : ~FirstPreferred(b, PendingHead(fdb))

\* advance_root drops exactly the blocks that do not descend from the new root:
\* no fork survives it and no reversible block of the surviving branches is
\* lost or has to be validated again.
AdvanceKeepsDescendants ==
    [][\A b \in Block : AdvanceRootTo(b) =>
          LET kept == {x \in fdb.index \ {b} : b \in Anc[x]}
          IN  /\ fdb.root \in Anc[b]
              /\ fdb'.index = kept
              /\ fdb'.valid = fdb.valid \cap kept
              /\ fdb.head \in kept \cup {b}]_fdb
=============================================================================
