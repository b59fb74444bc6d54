-------------------------- MODULE ForkDatabaseImpl --------------------------
(***************************************************************************)
(* The loops of fork_database.cpp as the code runs them, and the file it   *)
(* leaves between two runs of the process.                                 *)
(*                                                                         *)
(* ForkDatabase gives the walks over the tree by what they compute (sets   *)
(* of ancestors and descendants).  Here they are the code's loops: walking *)
(* header.previous through get_block, the removal queue of remove_fork,    *)
(* the merge of close.  A call that may throw yields the set of its        *)
(* results: {r} if it returns r, {} if it throws.  The properties say that *)
(* on every reachable database loop and definition agree, and that close   *)
(* followed by open is invisible (ForkDatabaseSpec under the mapping       *)
(* below).                                                                 *)
(***************************************************************************)
EXTENDS ForkDatabaseSpec, SequencesExt

Returns(r) == {r}
Throws     == {}

-----------------------------------------------------------------------------
(* Walks *)

RECURSIVE FetchBranchLoop(_, _, _)
FetchBranchLoop(fd, s, n) ==
    IF s \notin fd.index THEN <<>>
    ELSE (IF Num[s] <= n THEN <<s>> ELSE <<>>) \o FetchBranchLoop(fd, Prev[s], n)

\* search_on_branch; the result is the set with the block found, or {}.
RECURSIVE SearchOnBranchLoop(_, _, _)
SearchOnBranchLoop(fd, s, n) ==
    IF s \notin fd.index THEN {}
    ELSE IF Num[s] = n THEN {s}
    ELSE SearchOnBranchLoop(fd, Prev[s], n)

\* fetch_branch_from: f and s are the cursors, r1 and r2 the two results.
RECURSIVE FetchBranchFromLoop(_, _, _, _, _)
FetchBranchFromLoop(fd, f, s, r1, r2) ==
    IF ~Known(fd, f) \/ ~Known(fd, s) THEN Throws
    ELSE IF Num[f] > Num[s] THEN FetchBranchFromLoop(fd, Prev[f], s, Append(r1, f), r2)
    ELSE IF Num[s] > Num[f] THEN FetchBranchFromLoop(fd, f, Prev[s], r1, Append(r2, s))
    ELSE IF f = s THEN Returns(<<r1, r2>>)
    ELSE IF Prev[f] = Prev[s] THEN Returns(<<Append(r1, f), Append(r2, s)>>)
    ELSE IF Prev[f] \notin fd.index \/ Prev[s] \notin fd.index THEN Throws
    ELSE FetchBranchFromLoop(fd, Prev[f], Prev[s], Append(r1, f), Append(r2, s))
FetchBranchFrom(fd, first, second) == FetchBranchFromLoop(fd, first, second, <<>>, <<>>)

\* remove_fork: the i-th block of the queue is checked against the head and its
\* children (by_prev) are queued.
RECURSIVE RemoveQueue(_, _, _)
\* Mutant: stops after the children.
RemoveQueueOneLevel(fd, queue, i) ==
    IF i > 2 \/ i > Len(queue) THEN Returns(Range(queue))
    ELSE IF queue[i] = fd.head THEN Throws
    ELSE RemoveQueue(fd,
            queue \o SetToSeq({x \in fd.index : Prev[x] = queue[i]}), i + 1)

RemoveQueue(fd, queue, i) ==
    IF i > Len(queue) THEN Returns(Range(queue))
    ELSE IF queue[i] = fd.head THEN Throws
    ELSE RemoveQueue(fd,
            queue \o SetToSeq({x \in fd.index : Prev[x] = queue[i]}), i + 1)
RemoveForkLoop(fd, b) ==
    {[fd EXCEPT !.index = @ \ gone, !.valid = @ \ gone] : gone \in RemoveQueue(fd, <<b>>, 1)}

\* advance_root: the blocks from the one below b down to the first that is not
\* in the index, which has to be the root.
RECURSIVE BlocksToRemove(_, _)
BlocksToRemove(fd, b) ==
    IF Prev[b] \in fd.index THEN <<Prev[b]>> \o BlocksToRemove(fd, Prev[b]) ELSE <<Prev[b]>>
RECURSIVE RemoveForks(_, _)
RemoveForks(fd, ids) ==
    IF ids = <<>> THEN Returns(fd)
    ELSE UNION {RemoveForks(left, Tail(ids)) : left \in RemoveForkLoop(fd, Head(ids))}
AdvanceRootLoop(fd, b) ==
    LET below  == BlocksToRemove(fd, b)
        erased == [fd EXCEPT !.index = @ \ {b}, !.valid = @ \ {b}]
    IN  IF b \notin fd.valid \/ Last(below) # fd.root THEN Throws
        ELSE {[left EXCEPT !.root = b] : left \in RemoveForks(erased, below)}

-----------------------------------------------------------------------------
(* The file: root, blocks in the order written, which of them are written   *)
(* as validated, and the head.                                              *)

\* begin()..end() of the blocks of one validity.
RECURSIVE InIndexOrder(_)
InIndexOrder(S) ==
    IF S = {} THEN <<>> ELSE <<FirstInIndex(S)>> \o InIndexOrder(S \ {FirstInIndex(S)})

\* The merge of close().
RECURSIVE Merge(_, _)
\* Mutant: writes the two ranges one after the other.
MergeConcatenated(unvalidated, validated) == unvalidated \o validated

Merge(unvalidated, validated) ==
    IF validated = <<>> THEN unvalidated
    ELSE IF unvalidated # <<>> /\ FirstPreferred(Head(validated), Head(unvalidated))
    THEN <<Head(unvalidated)>> \o Merge(Tail(unvalidated), validated)
    ELSE <<Head(validated)>> \o Merge(unvalidated, Tail(validated))

FileOf(fd) ==
    [root   |-> fd.root,
     blocks |-> Merge(Reverse(InIndexOrder(fd.index \ fd.valid)),
                      Reverse(InIndexOrder(fd.valid))),
     valid  |-> fd.valid,
     head   |-> fd.head]

\* add( s ) for a block_state read from the file, with the flag it was written
\* with.
AddRead(fd, b, f) ==
    IF ~CanAdd(fd, b) THEN Throws
    ELSE LET valid == IF b \in f.valid THEN fd.valid \cup {b} ELSE fd.valid
         IN  Returns(Add([fd EXCEPT !.valid = valid], b))

\* The assertions of open() on the head it has read.
HeadAccepted(fd) ==
    /\ Known(fd, fd.head)
    /\ IF fd.valid = {} THEN fd.head = fd.root
       ELSE ~FirstPreferred(FirstInIndex(fd.valid), fd.head)

\* Mutant: keeps the head that adding the blocks left.
OpenFileOwnHead(f) ==
    LET AddNext(fds, b) == UNION {AddRead(fd, b, f) : fd \in fds}
    IN  FoldLeft(AddNext, Returns(ResetTo(f.root)), f.blocks)

\* open(): reset to the root, add every block, take the head by its id.
OpenFile(f) ==
    LET AddNext(fds, b) == UNION {AddRead(fd, b, f) : fd \in fds}
        read == FoldLeft(AddNext, Returns(ResetTo(f.root)), f.blocks)
    IN  {fd \in {[r EXCEPT !.head = f.head] : r \in read} : HeadAccepted(fd)}

-----------------------------------------------------------------------------
VARIABLES up,     \* the process runs and fdb is its database
          file    \* the file, while the process is down
NoFile == [none |-> TRUE]

implVars == <<fdb, up, file>>

ImplInit == Init /\ up = TRUE /\ file = NoFile

\* The destructor of fork_database.
Close == /\ up
         /\ up' = FALSE
         /\ file' = FileOf(fdb)
         /\ fdb' = ResetTo(Genesis)

Open == /\ ~up
        /\ fdb' \in OpenFile(file)
        /\ up' = TRUE
        /\ file' = NoFile     \* fc::remove( fork_db_dat )

ImplNext == \/ up /\ Next /\ UNCHANGED <<up, file>>
            \/ Close
            \/ Open

ImplSpec == ImplInit /\ [][ImplNext]_implVars

-----------------------------------------------------------------------------
(* Properties *)

\* fetch_branch_from never throws for two known blocks and returns the two branches above
\* the common ancestor, newest block first (the order of the index is that order for the
\* blocks of a branch); fetch_branch and search_on_branch return what lies on the branch.
WalksExact ==
    /\ \A a, b \in fdb.index \cup {fdb.root} :
          FetchBranchFrom(fdb, a, b)
            = Returns(<<InIndexOrder(Anc[a] \ Anc[b]), InIndexOrder(Anc[b] \ Anc[a])>>)
    /\ \A h \in fdb.index : \A n \in {Num[b] : b \in Block} :
          /\ FetchBranchLoop(fdb, h, n) = InIndexOrder(FetchBranch(fdb, h, n))
          /\ SearchOnBranchLoop(fdb, h, n) = {b \in FetchBranch(fdb, h, n) : Num[b] = n}

\* The removal queue of remove_fork removes the subtree, or throws exactly when the head
\* is in it, in which case nothing is removed; the walk of advance_root and its successive
\* calls of remove_fork have the combined effect the model gives them.
RemovalsExact ==
    /\ \A b \in fdb.index \cup {fdb.root} :
          RemoveForkLoop(fdb, b)
            = IF CanRemoveFork(fdb, b) THEN Returns(RemoveFork(fdb, b)) ELSE Throws
    /\ \A b \in fdb.index :
          AdvanceRootLoop(fdb, b)
            = IF CanAdvanceRoot(fdb, b) THEN Returns(AdvanceRoot(fdb, b)) ELSE Throws

\* The loops and queues of fork_database.cpp compute what the model's sets say, in every
\* reachable state.
LoopsExact == up => WalksExact /\ RemovalsExact

\* The file written by close() can always be read back: each block follows the
\* block it builds on and the assertions on the head pass.
FileCanBeOpened == ~up => OpenFile(file) # Throws

\* Closing and opening again changes nothing: with the file standing for the
\* database while the process is down, ForkDatabaseSpec holds.
Stored == INSTANCE ForkDatabaseSpec
             WITH fdb <- IF up THEN fdb
                         ELSE [root  |-> file.root,
                               index |-> Range(file.blocks),
                               valid |-> file.valid,
                               head  |-> file.head]
CloseOpenInvisible == Stored!Spec
=============================================================================
