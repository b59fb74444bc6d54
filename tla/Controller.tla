----------------------------- MODULE Controller -----------------------------
(***************************************************************************)
(* controller_impl (libraries/chain/controller.cpp): the object that       *)
(* decides which branch of the fork database is the chain, keeps the state *)
(* database (chainbase) in step with it and moves blocks into the block    *)
(* log once they are irreversible.                                         *)
(*                                                                         *)
(* The controller is a value and its operations are functions of it, since *)
(* a handler of the main thread runs several of them without interruption: *)
(*    mode     read_mode: "speculative" or "irreversible"                  *)
(*    fdb      the fork database (ForkDatabase)                            *)
(*    head     controller_impl::head                                       *)
(*    sparse   head was loaded from a snapshot and has no block            *)
(*    db       the block whose execution produced the state in the state   *)
(*             database, or Mixed                                          *)
(*    rev      db.revision()                                               *)
(*    base     the revision up to which the state is committed: undo       *)
(*             sessions exist for the revisions above it                   *)
(*    blog     the last block of the block log                             *)
(*    outcome  how the last operation ended                                *)
(* `fails' are the blocks whose execution throws during the operation; the *)
(* block log accepts blocks up to number `room' (its file may be full).    *)
(***************************************************************************)
EXTENDS ForkDatabase

CONSTANTS
    Bad,        \* blocks whose execution fails on every node
    Modes       \* the read modes the node is started in

ASSUME ControllerAssumption ==
    /\ Bad \subseteq Block \ {Genesis}
    /\ Modes \subseteq {"speculative", "irreversible"}
    /\ Modes # {}

\* The state of no block: a block was executed on another block's state.
Mixed == -1

\* The operation returned; it threw; an assertion on the fork database failed (a
\* fork_database_exception: the caller logs it and asks the node to quit, but what is
\* in the queue still runs); or the process read back() of an empty branch.
Outcomes == {"ok", "threw", "assert", "empty_back"}

Controllers ==
    [mode : {"speculative", "irreversible"}, fdb : ForkDb, head : Block,
     sparse : BOOLEAN, db : Block \cup {Mixed}, rev : Nat, base : Nat,
     blog : Block, outcome : Outcomes]

MaxNum    == CHOOSE n \in {Num[b] : b \in Block} : \A b \in Block : Num[b] <= n
Newest(S) == CHOOSE b \in S : \A x \in S : Num[x] <= Num[b]
Oldest(S) == CHOOSE b \in S : \A x \in S : Num[b] <= Num[x]
AtLeast(m, n) == IF m >= n THEN m ELSE n
AtMost(m, n)  == IF m <= n THEN m ELSE n

Irreversible(c) == c.mode = "irreversible"
Ended(c, how)   == [c EXCEPT !.outcome = how]

-----------------------------------------------------------------------------
(* The state database *)

\* n times db.undo(), which does nothing once no undo session is left.
Undo(c, n) ==
    LET k == AtMost(n, c.rev - c.base)
    IN  [c EXCEPT !.rev = @ - k,
                  !.db  = IF @ = Mixed THEN @ ELSE OnBranch(@, Num[@] - k)]

\* db.commit( n )
Commit(c, n) == [c EXCEPT !.base = AtLeast(@, AtMost(n, c.rev))]

\* pop_block until block a of the branch of the head is the head.
PopTo(c, a) ==
    IF a = c.head THEN c
    ELSE [Undo(c, Num[c.head] - Num[a]) EXCEPT !.head = a, !.sparse = FALSE]

-----------------------------------------------------------------------------
(* apply_block over a branch *)

\* apply_block rebuilds the block on top of the head and compares the ids, and
\* start_block asserts that the revision is the head's block number.
Linked(c, B) == c.rev = Num[c.head] /\ B # {} /\ Prev[Oldest(B)] = c.head

\* Mutant: a failing block does not stop the application of a branch.
AppliedRegardless(c, B, fails) == IF Linked(c, B) THEN B ELSE {}

\* The blocks of branch B that are applied, oldest first, before one fails.  The first
\* one fails if it is not linked to the head.
Applied(c, B, fails) ==
    IF Linked(c, B) THEN {b \in B : \A x \in B : Num[x] <= Num[b] => x \notin fails} ELSE {}

\* The head and the state once the blocks of S are applied.
MovedTo(c, S) ==
    IF S = {} THEN c
    ELSE [c EXCEPT !.head   = Newest(S),
                   !.sparse = FALSE,
                   !.rev    = @ + Cardinality(S),
                   !.db     = IF @ = c.head THEN Newest(S) ELSE Mixed]

\* mark_valid for each block of a branch, oldest first.
MarkAllValid(fd, S) ==
    LET from == Num[Oldest(S)]
        upTo[n \in from - 1 .. MaxNum] ==
            IF n < from THEN fd
            ELSE MarkValid(upTo[n - 1], CHOOSE b \in S : Num[b] = n)
    IN  IF S = {} THEN fd ELSE upTo[Num[Newest(S)]]

\* apply_block and mark_valid of the blocks of S; of those of B that do not fail.
ApplyBlocks(c, S)        == [MovedTo(c, S) EXCEPT !.fdb = MarkAllValid(@, S)]
ApplyBranch(c, B, fails) == ApplyBlocks(c, Applied(c, B, fails))

-----------------------------------------------------------------------------
(* log_irreversible *)

\* The head whose dpos_irreversible_blocknum counts.
ForkHead(c) == IF Irreversible(c) THEN PendingHead(c.fdb) ELSE c.fdb.head

\* The root moves to the last block logged.
RootMoved(c, b) ==
    IF CanAdvanceRoot(c.fdb, b)
    THEN [Commit(c, Num[b]) EXCEPT !.blog = b, !.fdb = AdvanceRoot(@, b)]
    ELSE Ended([Commit(c, Num[b]) EXCEPT !.blog = b], "assert")
RootFollows(c, S) == IF S = {} THEN c ELSE RootMoved(c, Newest(S))

\* The blocks of a branch that are appended to the log, and those that are tried:
\* the first one that does not fit as well.
Logged(B, room) == {b \in B : Num[b] <= room}
Tried(B, room)  == {b \in B : \A x \in B : Num[x] < Num[b] => Num[x] <= room}

EndedLogging(c, done) == IF done \/ c.outcome = "assert" THEN c ELSE Ended(c, "threw")

\* Mutant: when a block throws, the root follows in irreversible mode only.
LogBlocksOrNone(c, branch, executed, room) ==
    LET done == Logged(executed, room)
    IN  IF Irreversible(c)
        THEN EndedLogging(RootFollows(ApplyBlocks(c, Tried(executed, room)), done),
                          done = branch)
        ELSE IF done = branch THEN RootFollows(c, done)
        ELSE Ended(IF done = {} THEN c ELSE [c EXCEPT !.blog = Newest(done)], "threw")

\* Each block of the branch that became irreversible is, oldest first, applied (in
\* irreversible mode only), appended to the block log and committed.  The root
\* follows also when a block throws.
LogBlocks(c, branch, executed, room) ==
    EndedLogging(
        RootFollows(IF Irreversible(c) THEN ApplyBlocks(c, Tried(executed, room)) ELSE c,
                    Logged(executed, room)),
        Logged(executed, room) = branch)
LogBranch(c, branch, fails, room) ==
    LogBlocks(c, branch, IF Irreversible(c) THEN Applied(c, branch, fails) ELSE branch, room)

\* Mutant: does not compare the root with the head of the block log.
LogUnchecked(c, top, fails, room) ==
    IF Lib[top] <= Num[c.blog] THEN c
    ELSE LogBranch(c, FetchBranch(c.fdb, top, Lib[top]), fails, room)

LogUpTo(c, top, fails, room) ==
    IF c.fdb.root # c.blog THEN Ended(c, "assert")
    ELSE IF Lib[top] <= Num[c.blog] THEN c
    ELSE LogBranch(c, FetchBranch(c.fdb, top, Lib[top]), fails, room)
LogIrreversible(c, fails, room) == LogUpTo(c, ForkHead(c), fails, room)

-----------------------------------------------------------------------------
(* maybe_switch_forks *)

ForgetFork(c, b) ==
    IF CanRemoveFork(c.fdb, b) THEN Ended([c EXCEPT !.fdb = RemoveFork(@, b)], "threw")
    ELSE Ended(c, "assert")

\* new_head extends the head.
ExtendHead(c, b, fails, room) ==
    IF Applied(c, {b}, fails) = {b}
    THEN LogIrreversible(ApplyBlocks(c, {b}), fails, room)
    ELSE ForgetFork(c, b)

\* Mutant: takes the old head again without applying its branch.
ReapplyHeadOnly(c, old, fails) == [c EXCEPT !.head = Newest(old), !.sparse = FALSE]

\* The bad block and what is built on it are forgotten: pop the blocks applied
\* before it and apply the old branch again.
Reapply(c, old, fails) == MovedTo(c, Applied(c, old, fails))
RestoreBranch(c, ancestor, old, fails) ==
    IF c.outcome = "assert" THEN c
    ELSE IF old = {} THEN Ended(PopTo(c, ancestor), "empty_back")
    ELSE Reapply(PopTo(c, ancestor), old, fails)

\* The old branch is popped, the head is the common ancestor: `good' are the blocks
\* of the new branch that are applied.
TryBranch(c, new, good, old, fails, room) ==
    IF good = new THEN LogIrreversible(ApplyBlocks(c, new), fails, room)
    ELSE RestoreBranch(ForgetFork(ApplyBlocks(c, good), Oldest(new \ good)),
                       c.head, old, fails)
ApplyNewBranch(c, new, old, fails, room) ==
    TryBranch(c, new, Applied(c, new, fails), old, fails, room)

\* new_head is on another branch.
CommonAncestor(a, b) == Newest(Anc[a] \cap Anc[b])
SwitchForks(c, b, fails, room) ==
    IF ~Known(c.fdb, c.head) \/ (c.sparse /\ c.head \notin Anc[b]) THEN Ended(c, "threw")
    ELSE ApplyNewBranch(PopTo(c, CommonAncestor(b, c.head)),
                        Anc[b] \ Anc[c.head], Anc[c.head] \ Anc[b], fails, room)

\* Mutant: a block on top of the head is handled as a switch to its branch.
AlwaysSwitchForks(c, b, fails, room) ==
    IF b = c.head THEN c ELSE SwitchForks(c, b, fails, room)

MaybeSwitchForks(c, b, fails, room) ==
    IF b = c.head THEN c
    ELSE IF b # Genesis /\ Prev[b] = c.head THEN ExtendHead(c, b, fails, room)
    ELSE SwitchForks(c, b, fails, room)

-----------------------------------------------------------------------------
(* push_block *)

\* Mutant: switches to the best validated block instead of the best block.
FollowHead(c, fails, room) ==
    IF Irreversible(c) THEN LogIrreversible(c, fails, room)
    ELSE MaybeSwitchForks(c, c.fdb.head, fails, room)

\* What follows fork_db.add.
FollowPendingHead(c, fails, room) ==
    IF Irreversible(c) THEN LogIrreversible(c, fails, room)
    ELSE MaybeSwitchForks(c, PendingHead(c.fdb), fails, room)
PushBlock(c, b, fails, room) ==
    FollowPendingHead([c EXCEPT !.fdb = Add(@, b), !.outcome = "ok"], fails, room)

-----------------------------------------------------------------------------
(* Producing *)

\* Mutant: the failed block is popped but stays in the fork database.
PopOnly(c) ==
    IF c.head = c.fdb.head THEN PopTo(c, Prev[c.head]) ELSE Ended(c, "assert")

\* pop_block, remove_head
DropHead(c) ==
    IF c.head = c.fdb.head
    THEN [PopTo(c, Prev[c.head]) EXCEPT !.fdb = RemoveHead(@)]
    ELSE Ended(PopTo(c, Prev[c.head]), "assert")

\* abort_block: the pending block goes, and a block that failed if it is the head.
Aborts(f, c)      == \E b \in f : c.fdb.head = b
AfterAbort(c, f)  == IF Aborts(f, c) THEN DropHead(c) ELSE c
FailedLeft(c, f)  == IF Aborts(f, c) THEN {} ELSE f

\* add_to_fork_db, create_completed_block
Built(c, b) ==
    LET fd == MarkValid(Add(c.fdb, b), b)
    IN  IF fd.head = b THEN [MovedTo(c, {b}) EXCEPT !.fdb = fd, !.outcome = "ok"]
        ELSE Ended([c EXCEPT !.fdb = fd, !.head = fd.head], "assert")

-----------------------------------------------------------------------------
(* Starting *)

\* A controller about to be initialised with the state of block b.
NewController(mode, fd, blog, b) ==
    [mode |-> mode, fdb |-> fd, head |-> b, sparse |-> TRUE, db |-> b,
     rev |-> Num[b], base |-> Num[b], blog |-> blog, outcome |-> "ok"]

\* The root of a fork database read from its file follows the replayed blocks.
AdvanceTo(c, fd, b) ==
    IF CanAdvanceRoot(fd, b) THEN [c EXCEPT !.fdb = AdvanceRoot(fd, b)]
    ELSE Ended([c EXCEPT !.fdb = fd], "threw")
CatchUpRoot(c, top) ==
    IF Num[top] < Num[c.head] \/ Num[c.head] < Num[c.fdb.root]
    THEN [c EXCEPT !.fdb = ResetTo(c.head)]
    ELSE IF Num[c.head] = Num[c.fdb.root] THEN c
    ELSE AdvanceTo(c, MarkValid(c.fdb, OnBranch(top, Num[c.head])), OnBranch(top, Num[c.head]))
CaughtUp(c, opened) == IF opened THEN CatchUpRoot(c, PendingHead(c.fdb)) ELSE c

\* Mutant: takes the head of the block log without executing its blocks.
ReplayLogUnexecuted(c, opened, fails) ==
    IF Num[c.head] >= Num[c.blog] THEN c
    ELSE CaughtUp([c EXCEPT !.head = c.blog, !.rev = Num[c.blog], !.base = Num[c.blog]], opened)

\* replay, first part: the blocks of the block log above the head.  They are
\* executed without undo sessions.
ReplayLog(c, opened, fails) ==
    IF Num[c.head] >= Num[c.blog] THEN c
    ELSE IF c.head \notin Anc[c.blog] \/ (Anc[c.blog] \ Anc[c.head]) \cap fails # {}
    THEN Ended(c, "threw")
    ELSE CaughtUp([MovedTo(c, Anc[c.blog] \ Anc[c.head])
                      EXCEPT !.rev = Num[c.blog], !.base = Num[c.blog]], opened)

\* replay_push_block of a reversible block: it is put on top of the head.
ReplayPushBlock(c, b, fails, room) ==
    IF Prev[b] # c.head \/ ~Known(c.fdb, Prev[b]) \/ Irreversible(c)
    THEN Ended(c, "threw")
    ELSE ExtendHead(c, b, fails, room)

\* replay, second part: the branch of the fork database's head above the head.
ReplayReversible(c, fails, room) ==
    LET upTo[n \in Num[c.head] .. MaxNum] ==
            IF n = Num[c.head] \/ upTo[n - 1].outcome # "ok"
            THEN IF n = Num[c.head] THEN c ELSE upTo[n - 1]
            ELSE ReplayPushBlock(upTo[n - 1], OnBranch(c.fdb.head, n), fails, room)
    IN  upTo[AtLeast(Num[c.head], Num[c.fdb.head])]

\* A controller that has no fork database yet starts one at its head.
ReplayForkDb(c, opened, fails, room) ==
    IF c.outcome # "ok" THEN c
    ELSE IF opened THEN ReplayReversible(c, fails, room)
    ELSE [c EXCEPT !.fdb = ResetTo(c.head)]

\* Mutant: applies the best branch in every read mode.
ApplyBestBranchAlways(c, top, fails, room) ==
    IF c.outcome = "ok" /\ top # c.fdb.head /\ c.fdb.head = c.fdb.root
    THEN MaybeSwitchForks(c, top, fails, room)
    ELSE c

\* The end of init: the read mode changed from irreversible, so the best branch
\* known has not been applied yet.
ApplyBestBranch(c, top, fails, room) ==
    IF c.outcome = "ok" /\ ~Irreversible(c) /\ top # c.fdb.head /\ c.fdb.head = c.fdb.root
    THEN MaybeSwitchForks(c, top, fails, room)
    ELSE c
ReadyToRun(c, fails, room) == ApplyBestBranch(c, PendingHead(c.fdb), fails, room)

\* init; `opened' says that the fork database was read from its file.
InitController(c, opened, fails, room) ==
    ReadyToRun(ReplayForkDb(ReplayLog(c, opened, fails), opened, fails, room), fails, room)

\* Mutant: writes the header of the best block known.
SnapshotOfPending(c) == [head |-> PendingHead(c.fdb), state |-> c.db]

\* A snapshot pairs the header of one block with the state of one.
Snapshot(c) == [head |-> c.fdb.head, state |-> c.db]

\* Mutant: accepts snapshots of irreversible blocks only.
StartFromOldSnapshot(c, snap, opened, mode, fails, room) ==
    LET new == NewController(mode, c.fdb, c.blog, snap.head)
    IN  IF Num[snap.head] > Num[c.blog] THEN Ended(c, "threw")
        ELSE InitController([new EXCEPT !.db = IF snap.state = snap.head THEN @ ELSE Mixed],
                            opened, fails, room)

\* startup from a snapshot.
StartFromSnapshot(c, snap, opened, mode, fails, room) ==
    LET new   == NewController(mode, c.fdb, c.blog, snap.head)
        known == IF opened THEN AtLeast(Num[c.blog], Num[c.fdb.head]) ELSE Num[c.blog]
    IN  IF Num[snap.head] > known THEN Ended(c, "threw")
        ELSE InitController([new EXCEPT !.db = IF snap.state = snap.head THEN @ ELSE Mixed],
                            opened, fails, room)

\* startup from the genesis state.
StartFromGenesis(c, opened, mode, fails, room) ==
    LET fd == IF mode = "irreversible" /\ c.fdb.head # c.fdb.root
              THEN RollbackHeadToRoot(c.fdb) ELSE c.fdb
    IN  InitController([NewController(mode, fd, c.blog, Genesis) EXCEPT !.sparse = FALSE],
                       opened, fails, room)
=============================================================================
