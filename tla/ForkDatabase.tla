---------------------------- MODULE ForkDatabase ----------------------------
(***************************************************************************)
(* fork_database (libraries/chain/fork_database.cpp): the tree of the      *)
(* reversible blocks a node knows, above the last irreversible block.      *)
(*                                                                         *)
(* The database is a value, so that the controller model can call several  *)
(* operations within one of its steps:                                     *)
(*    root   my->root, the last irreversible block                         *)
(*    index  the blocks of my->index                                       *)
(*    valid  the blocks of my->index whose block_state is validated        *)
(*    head   my->head                                                      *)
(* An operation X is a function of the database; where the code throws     *)
(* before it changes anything, CanX is the condition under which it does   *)
(* not throw.                                                              *)
(***************************************************************************)
EXTENDS BlockTree

ForkDb == [root : Block, index : SUBSET Block, valid : SUBSET Block, head : Block]

-----------------------------------------------------------------------------
(* Queries *)

\* get_block_header( id ) finds the block.
Known(fd, b) == b = fd.root \/ b \in fd.index

\* The blocks of S reached from b by following by_prev, and b itself.
DescendantsIn(S, b) ==
    {x \in S \cup {b} : /\ b \in Anc[x]
                        /\ \A y \in Anc[x] \ {b} : b \in Anc[y] => y \in S}

\* Mutant: compares the block numbers only.
PendingHeadByNumber(fd) ==
    LET unvalidated == fd.index \ fd.valid
        best        == FirstInIndex(unvalidated)
    IN  IF unvalidated # {} /\ Num[best] > Num[fd.head] THEN best ELSE fd.head

PendingHead(fd) ==
    LET unvalidated == fd.index \ fd.valid
        best        == FirstInIndex(unvalidated)
    IN  IF unvalidated # {} /\ FirstPreferred(best, fd.head) THEN best ELSE fd.head

\* fetch_branch( h, n ) as a set: the blocks of the index on the branch of h
\* with a number up to n.
FetchBranch(fd, h, n) == {x \in Anc[h] : x \in fd.index /\ Num[x] <= n}

-----------------------------------------------------------------------------
(* Operations *)

ResetTo(b) == [root |-> b, index |-> {}, valid |-> {}, head |-> b]

\* The end of add: head becomes the first block of the index if that one is
\* validated, also when it merely ties with the head it replaces.
HeadAfterAdd(fd) == IF fd.valid # {} THEN FirstInIndex(fd.valid) ELSE fd.head

CanAdd(fd, b) == b # Genesis /\ Known(fd, Prev[b]) /\ b \notin fd.index
Add(fd, b) == [fd EXCEPT !.index = @ \cup {b}, !.head = HeadAfterAdd(fd)]

\* Mutant: does not look for a better head.
MarkValidOnly(fd, b) == [fd EXCEPT !.valid = @ \cup {b}]

MarkValid(fd, b) ==
    LET valid == fd.valid \cup {b}
        first == FirstInIndex(valid)
    IN  IF b \in fd.valid
        THEN fd
        ELSE [fd EXCEPT !.valid = valid,
                        !.head  = IF FirstPreferred(first, @) THEN first ELSE @]

CanRemoveFork(fd, b) == fd.head \notin DescendantsIn(fd.index, b)
\* Mutant: only marks the block as not validated.
RemoveForkInvalidating(fd, b) == [fd EXCEPT !.valid = @ \ {b}]

RemoveFork(fd, b) ==
    LET gone == DescendantsIn(fd.index, b)
    IN  [fd EXCEPT !.index = @ \ gone, !.valid = @ \ gone]

RemoveHead(fd) ==
    LET valid == fd.valid \ {fd.head}
    IN  [fd EXCEPT !.index = @ \ {fd.head},
                   !.valid = valid,
                   !.head  = IF valid = {} THEN fd.root ELSE FirstInIndex(valid)]

\* Mutant: leaves the forks of the blocks that became irreversible.
RemovedByAdvanceKeepingForks(fd, b) == {x \in Anc[b] : Num[x] >= Num[fd.root]}

\* Mutant: the new root is still in the index when the forks are removed, so
\* everything goes.
RemovedByAdvanceTooMuch(fd, b) == fd.index

\* advance_root erases the new root alone, then each block between it and the
\* old root (included) with everything still built on that block.
RemovedByAdvance(fd, b) ==
    {b} \cup UNION {DescendantsIn(fd.index \ {b}, a) :
                      a \in {x \in Anc[b] \ {b} : Num[x] >= Num[fd.root]}}
CanAdvanceRoot(fd, b) == b \in fd.valid /\ fd.head \notin RemovedByAdvance(fd, b) \ {b}
AdvanceRoot(fd, b) ==
    LET gone == RemovedByAdvance(fd, b)
    IN  [fd EXCEPT !.root = b, !.index = @ \ gone, !.valid = @ \ gone]

\* Mutant: leaves the head null.
RollbackWithoutHead(fd) == [root |-> fd.root, index |-> fd.index, valid |-> {}]

RollbackHeadToRoot(fd) == [fd EXCEPT !.valid = {}, !.head = fd.root]

-----------------------------------------------------------------------------
(* What makes a database well formed. *)

\* No block of the index is orphaned: its previous block is in the index or is
\* the root, and so it descends from the root.
Rooted(fd) ==
    /\ fd.root \notin fd.index
    /\ \A b \in fd.index :
          /\ b # Genesis
          /\ Known(fd, Prev[b])
          /\ fd.root \in Anc[b]

\* The head is the root or a validated block, and no validated block is
\* preferred over it.
BestHead(fd) ==
    /\ fd.valid \subseteq fd.index
    /\ fd.head = fd.root \/ fd.head \in fd.valid
    /\ \A b \in fd.valid : ~FirstPreferred(b, fd.head)

\* A validated block stands on validated blocks down to the root.
ValidOnValid(fd) == \A b \in fd.valid : Prev[b] \in fd.valid \cup {fd.root}
=============================================================================
