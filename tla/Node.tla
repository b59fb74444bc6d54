-------------------------------- MODULE Node --------------------------------
(***************************************************************************)
(* One nodeos that does not produce: blocks arrive from its peers in any   *)
(* order and from any branch, it is shut down and started again, possibly  *)
(* in the other read mode, and it crashes.                                 *)
(*                                                                         *)
(* What survives on disk is                                                *)
(*  - the block log (ctl.blog);                                            *)
(*  - the fork database file, written when the node stops and removed when *)
(*    it is opened, so it exists (saved) only after an orderly stop;       *)
(*  - state_snapshot.bin (snap), written by a shutdown, and every Period   *)
(*    blocks by a forked child process (child) that works on a copy of the *)
(*    memory and renames its file into place when it is done, even after   *)
(*    its parent ended (it is an orphan then).                             *)
(* snap and child hold at most one snapshot.  A bound: a node that was     *)
(* restarted while an orphan still runs reaches no block at which it would *)
(* fork a child of its own before the orphan has ended.                    *)
(***************************************************************************)
EXTENDS Controller

CONSTANTS
    Period,         \* background_snapshot_write_period_in_blocks
    LogMayFill      \* appending to the block log may fail

ASSUME NodeAssumption == Period \in Nat \ {0} /\ LogMayFill \in BOOLEAN

VARIABLES
    ctl,        \* the controller; what is on disk of it while the node is down
    up,         \* the node runs
    saved,      \* the fork database file exists
    snap,       \* state_snapshot.bin
    child       \* the background snapshot being written

vars == <<ctl, up, saved, snap, child>>

Snapshots ==
    [head : Block, state : Block \cup {Mixed}, by : {"shutdown", "child", "orphan"}]
WrittenBy(who, c) == [head |-> Snapshot(c).head, state |-> Snapshot(c).state, by |-> who]

\* What remains of the controller of a node that is down.
OnDisk(c, hasForkDb) ==
    [NewController(c.mode, IF hasForkDb THEN c.fdb ELSE ResetTo(c.blog), c.blog, c.blog)
        EXCEPT !.outcome = c.outcome]

\* Which of the blocks S fail when they are executed on a state meant to be that of
\* block h: the bad ones if it is, any if it is not.
FailSets(S, state, h) == IF state = h THEN {Bad} ELSE SUBSET S

\* The numbers up to which the block log file may have room.
Rooms == IF LogMayFill THEN Num[ctl.blog] .. MaxNum ELSE {MaxNum}

Init ==
    /\ \E mode \in Modes : ctl = NewController(mode, ResetTo(Genesis), Genesis, Genesis)
    /\ up = FALSE
    /\ saved = FALSE
    /\ snap = {}
    /\ child = {}

-----------------------------------------------------------------------------
(* Running *)

\* A background snapshot is due; no orphan is still writing one (the bound above).
SnapshotDue(c) == c.outcome \in {"ok", "assert"} /\ Num[c.head] % Period = 0
NoOrphanInTheWay(c) == SnapshotDue(c) => \A s \in child : s.by # "orphan"

\* create_snapshot_background: skipped while the last child still runs.
BackgroundSnapshot(c) ==
    /\ NoOrphanInTheWay(c)
    /\ child' = IF SnapshotDue(c) /\ child = {} THEN {WrittenBy("child", c)} ELSE child

\* Mutant: looks a block up by its number.
FetchedByNumber(b) == Num[b] <= Num[ctl.head]

\* fetch_block_by_id( id )
Fetched(b) == b \in ctl.fdb.index \/ b \in Anc[ctl.blog]

\* A block that is neither known nor unlinkable.
Deliverable(b) == up /\ ~Fetched(b) /\ CanAdd(ctl.fdb, b)

\* The process ended: its child is an orphan.
Orphaned == child' = {[s EXCEPT !.by = "orphan"] : s \in child}

\* push_block left the controller c.  The process ends if that ran into undefined
\* behaviour.
Pushed(c) ==
    IF c.outcome = "empty_back"
    THEN up' = FALSE /\ ctl' = OnDisk(c, FALSE) /\ Orphaned
    ELSE up' = TRUE /\ ctl' = c /\ BackgroundSnapshot(c)

\* on_incoming_block: blocks known or not linkable are ignored.
ReceiveBlock(b) ==
    /\ Deliverable(b)
    /\ \E fails \in FailSets(ctl.fdb.index \cup {b}, ctl.db, ctl.head), room \in Rooms :
          Pushed(PushBlock(ctl, b, fails, room))
    /\ UNCHANGED <<saved, snap>>

-----------------------------------------------------------------------------
(* Stopping and crashing *)

\* plugin_shutdown: the state snapshot, then the fork database file.
Shutdown ==
    /\ up
    /\ up' = FALSE
    /\ saved' = TRUE
    /\ ctl' = Ended(OnDisk(ctl, TRUE), "ok")
    /\ snap' = {WrittenBy("shutdown", ctl)}
    /\ Orphaned

\* The process ends with no warning, or during a shutdown between the two files.
Crash ==
    /\ up
    /\ up' = FALSE
    /\ ctl' = OnDisk(ctl, FALSE)
    /\ snap' \in {snap, {WrittenBy("shutdown", ctl)}}
    /\ UNCHANGED saved
    /\ Orphaned

\* The child process renames its file into place, or dies before.
ChildDone ==
    /\ child # {}
    /\ snap' = child
    /\ child' = {}
    /\ UNCHANGED <<ctl, up, saved>>

ChildDies ==
    /\ child # {}
    /\ child' = {}
    /\ UNCHANGED <<ctl, up, saved, snap>>

\* The operator deletes the state directory.
RemoveState ==
    /\ ~up
    /\ snap # {}
    /\ snap' = {}
    /\ UNCHANGED <<ctl, up, saved, child>>

-----------------------------------------------------------------------------
(* Starting *)

\* A start that throws closes the fork database again.
Started(c) ==
    IF c.outcome = "ok" THEN /\ up' = TRUE
                             /\ ctl' = c
                             /\ saved' = FALSE
    ELSE LET kept == saved /\ c.outcome # "empty_back"
         IN  /\ up' = FALSE
             /\ ctl' = OnDisk(c, kept)
             /\ saved' = kept

Start(mode) ==
    /\ ~up
    /\ \E room \in Rooms :
          \/ \E s \in snap :
             \E fails \in FailSets(ctl.fdb.index \cup Anc[ctl.blog], s.state, s.head) :
                Started(StartFromSnapshot(ctl, s, saved, mode, fails, room))
          \/ snap = {} /\ Started(StartFromGenesis(ctl, saved, mode, Bad, room))
    /\ UNCHANGED <<snap, child>>

-----------------------------------------------------------------------------
Next ==
    \/ \E b \in Block : ReceiveBlock(b)
    \/ \E mode \in Modes : Start(mode)
    \/ Shutdown
    \/ Crash
    \/ ChildDone
    \/ ChildDies
    \/ RemoveState

Spec == Init /\ [][Next]_vars

\* A node that is started once and never stops, and whose peers withhold no good
\* block for ever.  (Weak fairness of Start and ReceiveBlock(b), written without
\* ENABLED: a good block stays deliverable until it is received.)
RunNext ==
    \/ \E b \in Block : ReceiveBlock(b)
    \/ \E mode \in Modes : Start(mode)
    \/ ChildDone
    \/ ChildDies
RunSpec ==
    /\ Init /\ [][RunNext]_vars
    /\ []<>up
    /\ \A b \in Block : Anc[b] \cap Bad = {} => []<>~Deliverable(b)

-----------------------------------------------------------------------------
(* Properties *)

\* Types; at most one snapshot file and one background child (create_snapshot_background).
TypeOK ==
    /\ ctl \in Controllers
    /\ up \in BOOLEAN /\ saved \in BOOLEAN
    /\ snap \subseteq Snapshots /\ Cardinality(snap) <= 1
    /\ child \subseteq Snapshots /\ Cardinality(child) <= 1

\* start_block asserts that the revision of the state is the head's block number;
\* what is meant is that the state database holds the state of the head.
StateMatchesHead == up => ctl.db = ctl.head

\* After every incoming block, whether it was applied, lost a tie, failed or made
\* the node switch forks, no known block is preferred over the head.
HeadIsBestKnown ==
    up /\ ~Irreversible(ctl) => \A b \in ctl.fdb.index : ~FirstPreferred(b, ctl.head)

\* The fork database stays well formed under the calls the controller makes.
ForkDbWellFormed == up => Rooted(ctl.fdb) /\ BestHead(ctl.fdb) /\ ValidOnValid(ctl.fdb)

\* Head, state database and fork database fit together after every handler, whatever
\* failed in it: a fork switch that fails half way leaves none of them behind.
Consistent == TypeOK /\ StateMatchesHead /\ ForkDbWellFormed

\* The assertions on the fork database ("root does not match block log head", those
\* of remove_fork and advance_root) never fail and a failed fork switch always
\* finds the old branch to restore.
AssertionsHold == ctl.outcome \notin {"assert", "empty_back"}

\* The node keeps the promises of Chain: no bad block, even of a fork switch that
\* fails half way, ever stays in the chain; irreversible blocks stay.
TheChain == INSTANCE Chain WITH head <- ctl.head, lib <- ctl.blog
ImplementsChain == TheChain!Spec

\* A speculative node that is sent every block ends on a best good branch.
Converges ==
    \A b \in Block : Anc[b] \cap Bad = {} =>
        <>[](Irreversible(ctl) \/ ~FirstPreferred(b, ctl.head))

\* Irreversible blocks are never replaced or lost, whatever happens.
LogNeverForks == [][ctl.blog \in Anc[ctl'.blog]]_vars

\* A node that was shut down starts again in the same read mode, from the
\* snapshot and the fork database the shutdown wrote, with the head and the state
\* it had, wherever the block log was full or a block failed before.  No start has
\* failed in between (one in the other mode may have forgotten a branch), and the
\* log is not ahead of that head (then its blocks are replayed first).
CleanRestart ==
    [][\A s \in snap :
          /\ ~up /\ saved /\ ctl.outcome = "ok" /\ Num[ctl.blog] <= Num[s.head]
          /\ s.by = "shutdown" /\ s.state = s.head
          /\ Start(ctl.mode) /\ ctl'.mode = ctl.mode
          => up' /\ ctl'.head = s.head /\ ctl'.db = s.head]_vars

\* The block log alone is enough to recover: with the state directory and the fork
\* database file gone the node starts at the last irreversible block, whatever
\* state it was in before, unless a bad block got into the log.
RecoversByReplay ==
    [][\A mode \in Modes :
          ~up /\ snap = {} /\ ~saved /\ Anc[ctl.blog] \cap Bad = {} /\ Start(mode)
          => up' /\ ctl'.head = ctl.blog /\ ctl'.db = ctl.blog]_vars

\* A snapshot holds the state of the block it names.
SnapshotConsistent == \A s \in snap \cup child : s.state = s.head

\* In irreversible mode the head is the last irreversible block, and "fork database root
\* does not match block log head" is never found, through restarts and crashes.
IrreversibleHeadIsLib ==
    up => ctl.fdb.root = ctl.blog /\ (Irreversible(ctl) => ctl.head = ctl.blog)

\* "Do it before commit so that in case it throws, DB can be rolled back": once the
\* block log has room again a speculative node goes on, and a block that makes a good
\* branch the best one is applied and logged, whatever failed before.
ResumesAfterFailure ==
    up /\ ~Irreversible(ctl) => \A b \in Block :
        Deliverable(b) /\ Anc[PendingHead(Add(ctl.fdb, b))] \cap Bad = {}
        => PushBlock(ctl, b, Bad, MaxNum).outcome = "ok"
=============================================================================
