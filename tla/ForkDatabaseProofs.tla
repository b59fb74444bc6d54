------------------------- MODULE ForkDatabaseProofs -------------------------
(***************************************************************************)
(* Proofs about ForkDatabaseSpec, for every block tree: the inductive      *)
(* invariant is that the database is well formed (FdbOK), which each call  *)
(* keeps by its lemma in ControllerLemmas.                                 *)
(***************************************************************************)
EXTENDS ForkDatabaseSpec, ControllerLemmas

IInv == FdbOK(fdb)

\* Every step of the fork database keeps the inductive invariant.
LEMMA StepOK ==
    ASSUME IInv, [Next]_fdb
    PROVE  IInv'
  <1> USE DEF IInv
  <1>1. ASSUME NEW b \in Block, AddBlock(b) PROVE FdbOK(fdb')
    BY <1>1, AddOK DEF AddBlock
  <1>2. ASSUME NEW b \in Block, MarkBlockValid(b) PROVE FdbOK(fdb')
    BY <1>2, MarkValidOK DEF MarkBlockValid
  <1>3. ASSUME NEW b \in Block, RemoveForkAt(b) PROVE FdbOK(fdb')
    BY <1>3, RemoveForkOK DEF RemoveForkAt
  <1>4. ASSUME NEW b \in Block, AdvanceRootTo(b) PROVE FdbOK(fdb')
    BY <1>4, AdvanceRootOK DEF AdvanceRootTo, CanAdvanceRoot
  <1>5. ASSUME NEW b \in Block, ResetRoot(b) PROVE FdbOK(fdb')
    BY <1>5, ResetOK DEF ResetRoot
  <1>6. ASSUME RemoveHeadBlock PROVE FdbOK(fdb')
    BY <1>6, RemoveHeadOK DEF RemoveHeadBlock
  <1>7. ASSUME Rollback PROVE FdbOK(fdb')
    BY <1>7, RollbackOK DEF Rollback
  <1>8. QED
    BY <1>1, <1>2, <1>3, <1>4, <1>5, <1>6, <1>7 DEF Next

\* The inductive invariant holds of every reachable fork database.
THEOREM Invariance == Spec => []IInv
  <1>1. Init => IInv
    BY ResetOK, BlockTreeAssumption DEF Init, IInv
  <1>2. IInv /\ [Next]_fdb => IInv'
    BY StepOK
  <1>3. QED
    BY <1>1, <1>2, PTL DEF Spec

\* Type correctness.
THEOREM TypeCorrect == Spec => []TypeOK
  <1>1. IInv => TypeOK
    BY DEF IInv, FdbOK, TypeOK
  <1>2. QED BY <1>1, Invariance, PTL

\* No reversible block is ever orphaned (the assertion of advance_root).
THEOREM NeverOrphaned == Spec => []NoOrphans
  <1>1. IInv => NoOrphans
    BY DEF IInv, FdbOK, NoOrphans
  <1>2. QED BY <1>1, Invariance, PTL

\* The head is always a best validated block (the assertions of open).
THEOREM HeadAlwaysBest == Spec => []HeadIsBest
  <1>1. IInv => HeadIsBest
    BY DEF IInv, FdbOK, HeadIsBest
  <1>2. QED BY <1>1, Invariance, PTL

\* Validated blocks always stand on validated blocks.
THEOREM BranchesStayValid == Spec => []ValidBranches
  <1>1. IInv => ValidBranches
    BY DEF IInv, FdbOK, ValidBranches
  <1>2. QED BY <1>1, Invariance, PTL

\* pending_head never hides a better block.
THEOREM PendingHeadAlwaysBest == Spec => []PendingHeadIsBest
  <1>1. IInv => PendingHeadIsBest
    BY OKIsWell, PendingHeadBest DEF IInv, PendingHeadIsBest
  <1>2. QED BY <1>1, Invariance, PTL

\* advance_root keeps exactly the descendants of the new root.
THEOREM RootAdvanceIsExact == Spec => AdvanceKeepsDescendants
  <1> DEFINE A == \A b \in Block : AdvanceRootTo(b) =>
                    LET kept == {x \in fdb.index \ {b} : b \in Anc[x]}
                    IN  /\ fdb.root \in Anc[b]
                        /\ fdb'.index = kept
                        /\ fdb'.valid = fdb.valid \cap kept
                        /\ fdb.head \in kept \cup {b}
  <1>1. ASSUME IInv, NEW b \in Block, AdvanceRootTo(b)
        PROVE  LET kept == {x \in fdb.index \ {b} : b \in Anc[x]}
               IN  /\ fdb.root \in Anc[b]
                   /\ fdb'.index = kept
                   /\ fdb'.valid = fdb.valid \cap kept
                   /\ fdb.head \in kept \cup {b}
    <2>1. FdbOK(fdb) /\ b \in fdb.valid /\ b \in Anc[fdb.head] /\ fdb' = AdvanceRoot(fdb, b)
      BY <1>1 DEF IInv, AdvanceRootTo, CanAdvanceRoot
    <2>2. fdb.root \in Anc[b]
      BY <2>1 DEF FdbOK, BestHead, Rooted
    <2> QED BY <2>1, <2>2, AdvanceRootOK
  <1>2. IInv => A
    BY <1>1
  <1>3. IInv /\ [Next]_fdb => [A]_fdb
    BY <1>2
  <1>4. QED
    BY <1>3, Invariance, PTL DEF AdvanceKeepsDescendants, Spec
=============================================================================
