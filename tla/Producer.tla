------------------------------ MODULE Producer ------------------------------
(***************************************************************************)
(* A nodeos that produces blocks (plugins/producer_plugin and the parts of *)
(* the controller that build blocks), without producer HA.                 *)
(*                                                                         *)
(* The main thread runs handlers one at a time; step says where it is:     *)
(*    "idle"     between two handlers                                      *)
(*    "loop"     about to run schedule_production_loop                     *)
(*    "process"  in start_block, with a pending block, before the          *)
(*               unapplied transactions are processed                      *)
(*    "stopped"  the node was shut down                                    *)
(* A produced block is put on top of the chain at once.  Another thread    *)
(* signs it (job), marks it ready and posts a task to the main thread,     *)
(* which publishes the block or, if it could not be signed, takes it out   *)
(* of the chain.  Meanwhile the next block is already being built on it.   *)
(*                                                                         *)
(* Clocks are left out: whether it is this node's turn, too early, or the  *)
(* head is old, is chosen each time it is asked.                           *)
(***************************************************************************)
EXTENDS Controller

CONSTANTS
    Own,                \* the blocks this node may build; the others come from peers
    LogMayFill          \* appending to the block log may fail

ASSUME ProducerAssumption ==
    /\ Own \subseteq Block \ (Bad \cup {Genesis})
    /\ LogMayFill \in BOOLEAN

VARIABLES
    ctl,        \* the controller
    pending,    \* {the block the pending block is built on}, or {}
    mode,       \* _pending_block_mode
    paused,     \* _pause_production
    tracker,    \* _produce_block_tracker: its status and the block of its future
    signing,    \* the blocks with the signing thread
    signed,     \* the blocks it has signed
    posted,     \* completion tasks in the queue of the main thread
    failed,     \* completing_failed_blockid
    timer,      \* _producer_timer
    step,       \* where the main thread is
    quitting,   \* app().quit() was called
    built,      \* every block built so far: an id never comes back
    published,  \* the own blocks completed, accepted_block was emitted for them
    filled,     \* history: the failed block on which a transaction filled the pending one
    skipped,    \* history: the failed blocks on which such a block was produced
    spoiled     \* history: a switch failed that could not be taken back

vars == <<ctl, pending, mode, paused, tracker, signing, signed, posted, failed, timer,
          step, quitting, built, published, filled, skipped, spoiled>>

\* What the production loop and the timer leave alone.
signer == <<tracker, signing, signed, posted, built, published, skipped, spoiled>>

\* A timer that expired has its handler in the queue, where cancel does not reach it.
Timers    == {"none"} \X {"none"} \cup {"loop", "produce"} \X {"armed", "queued"}
NoTimer   == <<"none", "none">>
Armed(k)  == <<k, "armed">>
Cancelled == IF timer[2] = "queued" THEN timer ELSE NoTimer

\* The numbers up to which the block log file may have room.
Rooms == IF LogMayFill THEN Num[ctl.blog] .. MaxNum ELSE {MaxNum}

Init ==
    /\ ctl = [NewController("speculative", ResetTo(Genesis), Genesis, Genesis)
                 EXCEPT !.sparse = FALSE]
    /\ pending = {}
    /\ mode = "speculating"
    /\ paused = FALSE
    /\ tracker = [status |-> "none", block |-> {}]
    /\ signing = {}
    /\ signed = {}
    /\ posted = 0
    /\ failed = {}
    /\ timer = NoTimer
    /\ step = "loop"
    /\ quitting = FALSE
    /\ built = {}
    /\ published = {}
    /\ filled = {}
    /\ skipped = {}
    /\ spoiled = FALSE

-----------------------------------------------------------------------------
(* The controller's part in producing *)

\* Mutant: the pending block stays.
AbortFailedOnly(c, f) ==
    /\ ctl' = AfterAbort(c, f)
    /\ failed' = FailedLeft(c, f)
    /\ UNCHANGED <<pending, filled>>

Abort(c, f) ==
    /\ ctl' = AfterAbort(c, f)
    /\ failed' = FailedLeft(c, f)
    /\ pending' = {}
    /\ filled' = {}

\* complete_produced_block of the tracker and of the controller: the block of the
\* tracker is published, or marked failed.  A fork_database_exception ends the node.
Completed(b, c) ==
    IF b \in signed /\ c.outcome = "ok"
    THEN [ok |-> TRUE, ctl |-> c, failed |-> failed, published |-> published \cup {b}]
    ELSE [ok |-> FALSE, ctl |-> IF b \in signed THEN c ELSE ctl, failed |-> {b},
          published |-> published]
Completions ==
    {Completed(b, LogIrreversible([ctl EXCEPT !.outcome = "ok"], {}, room)) :
       b \in tracker.block, room \in Rooms}
Quits(c) == quitting' = (quitting \/ c.outcome = "assert")

\* set_none
NoTracker == [status |-> "none", block |-> {}]

-----------------------------------------------------------------------------
(* The production loop *)

\* start_block returns before it touches the pending block.  The turn of this node,
\* the production window and the age of the head depend on the time.
ReturnEarly(newMode) ==
    /\ step = "loop"
    /\ step' = "idle"
    /\ mode' = newMode
    /\ UNCHANGED <<ctl, pending, failed, filled, paused, quitting, signer>>

WaitForBlock ==
    /\ ReturnEarly("speculating")
    /\ timer' \in IF paused THEN {Cancelled} ELSE {Cancelled, Armed("loop")}

WaitForProduction ==
    /\ \/ ReturnEarly("producing") /\ ~paused
       \/ ReturnEarly("speculating") /\ mode = "producing"
    /\ timer' = Armed("loop")

\* Mutant: the pending block is dropped, the block that failed is not.
StartOnFailed(newMode) ==
    /\ step = "loop"
    /\ newMode = "producing" => ~paused
    /\ mode' = newMode
    /\ UNCHANGED <<ctl, failed, filled>>

\* start_block, past its early returns.  A node that was producing speculates only if
\* the block turns out to be another producer's.
StartOn(newMode) ==
    /\ step = "loop"
    /\ newMode = "producing" \/ mode = "producing" => ~paused
    /\ mode' = newMode
    /\ ctl' = AfterAbort(ctl, failed)
    /\ failed' = FailedLeft(ctl, failed)
    /\ filled' = {}

StartBlock ==
    /\ \E newMode \in {"producing", "speculating"} : StartOn(newMode)
    /\ pending' = {ctl'.head}
    /\ timer' = Cancelled
    /\ step' = "process"
    /\ UNCHANGED <<paused, quitting, signer>>

\* The controller cannot start a block: tried again later.  A guard exception ends
\* the node.
StartFails ==
    /\ \E newMode \in {"producing", "speculating"} : StartOn(newMode)
    /\ pending' = {}
    /\ timer' = Armed("loop")
    /\ step' = "idle"
    /\ quitting' \in {quitting, TRUE}
    /\ UNCHANGED <<paused, signer>>

\* The timer once the pending block is there.  A speculating node that is paused or
\* not in the schedule sets none.
Scheduled ==
    timer' \in IF mode = "producing" THEN {Armed("produce")}
               ELSE IF paused THEN {timer} ELSE {timer, Armed("loop")}

\* process_unapplied_trxs_start_block: nothing to complete, or out of time before; or
\* a guard exception.
ProcessUnapplied ==
    /\ step = "process"
    /\ step' = "idle"
    /\ \/ Scheduled /\ UNCHANGED quitting
       \/ timer' = Armed("loop") /\ quitting' = TRUE
    /\ UNCHANGED <<ctl, pending, mode, paused, failed, filled, signer>>

\* process_unapplied_trxs_start_block completes the last block.  If that fails,
\* start_block fails and is tried again later; the pending block stays.
ProcessCompleting ==
    /\ step = "process"
    /\ step' = "idle"
    /\ tracker.status = "ready"
    /\ tracker' = NoTracker
    /\ \E r \in Completions :
          /\ ctl' = r.ctl
          /\ failed' = r.failed
          /\ published' = r.published
          /\ Quits(r.ctl)
          /\ IF r.ok THEN Scheduled ELSE timer' = Armed("loop")
    /\ UNCHANGED <<pending, mode, paused, signing, signed, posted, built, filled, skipped,
                   spoiled>>

-----------------------------------------------------------------------------
(* The timer *)

\* The timer expires: its handler is queued.
Expire ==
    /\ timer[2] = "armed"
    /\ step # "stopped"
    /\ timer' = <<timer[1], "queued">>
    /\ UNCHANGED <<ctl, pending, mode, paused, failed, filled, step, quitting, signer>>

LoopTimer ==
    /\ step = "idle" /\ timer = <<"loop", "queued">>
    /\ timer' = NoTimer
    /\ step' = "loop"
    /\ UNCHANGED <<ctl, pending, mode, paused, failed, filled, quitting, signer>>

\* waiting()
Waiting == tracker.status # "none"

\* maybe_produce_block: the production loop runs when it is done.
MaybeProduce ==
    /\ step = "idle" /\ timer = <<"produce", "queued">>
    /\ timer' = NoTimer
    /\ step' = "loop"
    /\ UNCHANGED <<mode, paused, posted, signed, published, spoiled>>

\* The last block has not been completed yet.
ProduceLater ==
    /\ MaybeProduce
    /\ Waiting
    /\ UNCHANGED <<ctl, pending, failed, filled, quitting, tracker, signing, built, skipped>>

\* There is nothing to produce, or no key to sign it; or the state database is full, a
\* guard exception that finalize_block throws after set_pending.
ProduceThrows ==
    /\ MaybeProduce
    /\ ~Waiting
    /\ \/ UNCHANGED <<tracker, quitting>>
       \/ /\ mode = "producing" /\ pending # {}
          /\ tracker' = [tracker EXCEPT !.status = "pending"]
          /\ quitting' = TRUE
    /\ Abort(ctl, failed)
    /\ UNCHANGED <<signing, built, skipped>>

\* The pending block is produced even if the block it is built on has failed since:
\* nothing tells it apart once the timer says so.
ProduceBlock(b) ==
    /\ MaybeProduce
    /\ ~Waiting
    /\ mode = "producing"
    /\ Prev[b] \in pending
    /\ b \notin built
    /\ built' = built \cup {b}
    /\ ctl' = Built(ctl, b)
    /\ pending' = {}
    /\ tracker' = [status |-> "pending", block |-> {b}]
    /\ signing' = signing \cup {b}
    /\ skipped' = skipped \cup (filled \cap pending)
    /\ filled' = {}
    /\ UNCHANGED <<failed, quitting>>

-----------------------------------------------------------------------------
(* Signing and completing *)

\* Mutant: a block that cannot be signed is not reported.
ReportSigned(b) ==
    /\ tracker' = [tracker EXCEPT !.status = IF b \in signed' THEN "ready" ELSE @]
    /\ posted' = posted + 1

\* on_exit of the signing thread
Report(b) ==
    /\ tracker' = [tracker EXCEPT !.status = "ready"]
    /\ posted' = posted + 1

\* The signing thread signs the block, or fails to.
Sign(b) ==
    /\ b \in signing
    /\ step # "stopped"
    /\ signing' = signing \ {b}
    /\ signed' \in {signed, signed \cup {b}}
    /\ Report(b)
    /\ UNCHANGED <<ctl, pending, mode, paused, failed, timer, step, quitting, built,
                   published, filled, skipped, spoiled>>

\* The task the signing thread posted: nothing to do if the block was completed.
CompletionTask ==
    /\ step = "idle"
    /\ posted > 0
    /\ posted' = posted - 1
    /\ \/ /\ tracker.status # "ready"
          /\ UNCHANGED <<ctl, pending, tracker, failed, filled, quitting, published>>
       \/ /\ tracker.status = "ready"
          /\ tracker' = NoTracker
          /\ \E r \in Completions :
                /\ published' = r.published
                /\ Quits(r.ctl)
                /\ IF r.ok THEN ctl' = r.ctl /\ failed' = r.failed /\ UNCHANGED <<pending, filled>>
                   ELSE Abort(r.ctl, r.failed)
    /\ UNCHANGED <<mode, paused, signing, signed, timer, step, built, skipped, spoiled>>

-----------------------------------------------------------------------------
(* Other handlers of the main thread *)

\* The handler aborts the pending block and runs the production loop.
AbortAndLoop ==
    /\ Abort(ctl, failed)
    /\ step' = "loop"
    /\ UNCHANGED timer

\* The switch that follows the addition of b fails once a part of the new branch was
\* applied, or when there is no old branch to go back to.
Spoils(c, b) ==
    LET best == PendingHead(Add(c.fdb, b))
        new  == Anc[best] \ Anc[c.head]
    IN  /\ new \cap Bad # {}
        /\ Oldest(new) \notin Bad \/ (c.head \in Anc[best] /\ Prev[best] # c.head)

\* on_incoming_block: dropped by a node that is producing, ignored if known.  A peer
\* can only build on own blocks that were published, or that a published one stands on.
\* The process ends if the controller ran into undefined behaviour.
ReceiveBlock(b) ==
    /\ step = "idle"
    /\ mode = "speculating"
    /\ b \notin Own /\ Anc[b] \cap Own \subseteq published \cup skipped
    /\ b \notin ctl.fdb.index \cup Anc[ctl.blog] /\ CanAdd(ctl.fdb, b)
    /\ \E room \in Rooms : ctl' = PushBlock(AfterAbort(ctl, failed), b, Bad, room)
    /\ spoiled' = (spoiled \/ Spoils(AfterAbort(ctl, failed), b))
    /\ failed' = FailedLeft(ctl, failed)
    /\ pending' = {} /\ filled' = {}
    /\ step' = IF ctl'.outcome = "empty_back" THEN "stopped" ELSE "loop"
    /\ Quits(ctl')
    /\ UNCHANGED <<mode, paused, timer, tracker, signing, signed, posted, built, published,
                   skipped>>

\* block_exhausted: an incoming transaction did not fit into the pending block.  Whether
\* the block below has failed is not asked.
BlockExhausted ==
    /\ step = "idle"
    /\ pending # {}
    /\ IF mode = "producing"
       THEN /\ timer' = Armed("produce")
            /\ filled' = failed \cap pending
            /\ UNCHANGED <<ctl, failed, pending, step>>
       ELSE AbortAndLoop
    /\ UNCHANGED <<mode, paused, quitting, signer>>

\* get_integrity_hash and create_snapshot, while a block is pending;
\* update_runtime_options, while speculating.
RestartBlock ==
    /\ step = "idle"
    /\ pending # {} \/ mode = "speculating"
    /\ AbortAndLoop
    /\ UNCHANGED <<mode, paused, quitting, signer>>

Pause ==
    /\ step = "idle"
    /\ paused' = TRUE
    /\ UNCHANGED <<ctl, pending, mode, failed, filled, timer, step, quitting, signer>>

Resume ==
    /\ step = "idle"
    /\ paused' = FALSE
    /\ IF mode = "speculating" THEN AbortAndLoop
       ELSE UNCHANGED <<ctl, failed, pending, filled, step, timer>>
    /\ UNCHANGED <<mode, quitting, signer>>

\* Mutant: forgets that a block is being signed.
FailedAtShutdownUnmarked == failed

\* shutdown marks the block being signed or completed as failed.
FailedAtShutdown == IF tracker.block = {} THEN failed ELSE tracker.block

\* ~controller, past abort_block.  pop_block throws at the last irreversible block, which
\* is caught.
DropUnsigned(c) ==
    IF c.fdb.head \in Own \ signed /\ c.head # c.fdb.root THEN DropHead(c) ELSE c

\* The plugins are shut down and the controller is destroyed; tasks that are still in
\* the queue do not run.
Stop ==
    /\ step = "idle"
    /\ step' = "stopped"
    /\ ctl' = DropUnsigned(AfterAbort(ctl, FailedAtShutdown))
    /\ failed' = FailedLeft(ctl, FailedAtShutdown)
    /\ pending' = {} /\ filled' = {}
    /\ timer' = NoTimer
    /\ UNCHANGED <<mode, paused, quitting, signer>>

-----------------------------------------------------------------------------
Next ==
    \/ WaitForBlock \/ WaitForProduction \/ StartBlock \/ StartFails
    \/ ProcessUnapplied \/ ProcessCompleting
    \/ Expire \/ LoopTimer \/ ProduceLater \/ ProduceThrows
    \/ \E b \in Own : ProduceBlock(b) \/ Sign(b)
    \/ CompletionTask
    \/ \E b \in Block \ Own : ReceiveBlock(b)
    \/ BlockExhausted \/ RestartBlock \/ Pause \/ Resume \/ Stop

\* The main thread finishes what it has begun and runs the tasks of high priority in
\* the order they were posted, the signing thread ends (a signature provider has a
\* time limit), and a node that was told to quit stops.  Written without ENABLED.
Spec ==
    /\ Init /\ [][Next]_vars
    /\ []<>(step \in {"idle", "stopped"})
    /\ []<>(signing = {} \/ step = "stopped")
    /\ []<>(posted = 0 \/ step = "stopped")
    /\ []<>(~quitting \/ step = "stopped")

-----------------------------------------------------------------------------
(* Properties *)

\* Types; what is signed was built, and what is published was signed.
TypeOK ==
    /\ ctl \in Controllers
    /\ pending \subseteq Block /\ Cardinality(pending) <= 1
    /\ mode \in {"producing", "speculating"} /\ paused \in BOOLEAN
    /\ tracker \in [status : {"none", "pending", "ready"}, block : SUBSET Own]
    /\ signing \subseteq built /\ signed \subseteq built /\ published \subseteq signed
    /\ built \subseteq Own
    /\ posted \in Nat
    /\ failed \subseteq Own /\ Cardinality(failed) <= 1
    /\ timer \in Timers
    /\ step \in {"idle", "loop", "process", "stopped"}
    /\ quitting \in BOOLEAN

\* "the pending block cannot be produced immediately to ensure that no more than one
\* block is signed at any time": the signing thread has at most the tracker's block.
OneBlockInFlight == signing \subseteq tracker.block /\ Cardinality(tracker.block) <= 1

\* The pending block is built on the head and the state database holds the head's
\* state, whatever was popped or switched since it was started.
PendingOnHead == pending \subseteq {ctl.head} /\ ctl.db = ctl.head

\* Signing, the tracker, the pending block and the controller fit together whatever is
\* aborted, popped, received or, if it is bad, forgotten in between, until a switch fails
\* that maybe_switch_forks cannot take back.
Consistent == ~spoiled => TypeOK /\ OneBlockInFlight /\ PendingOnHead

\* "committed block did not become the new head in fork database", "trying to remove
\* non-head block": neither happens, nor do the other assertions on the fork database,
\* until a switch fails that maybe_switch_forks cannot take back.
AssertionsHold == ~spoiled => ctl.outcome \notin {"assert", "empty_back"}

\* The own blocks that b is built on were published; or they had failed, and a transaction
\* filled the pending block on top, which the node then produced.
OnPassed(b) == Anc[b] \cap Own \subseteq published \cup skipped

\* A block is published only once every own block it is built on was.  The one exception
\* is a block that had failed, was not taken off yet, and had a block produced on it
\* since a transaction filled that one: no other way leads around a failure.
PublishedOnPublished == ~spoiled => \A b \in published : OnPassed(b)

\* A stopped node keeps no own block in its chain that its peers do not know, except for
\* those it had failed to complete and built on: one being signed is taken off, wherever
\* signing and the production loop were.
StopsOnPublished == ~spoiled /\ step = "stopped" => OnPassed(ctl.head)

\* A block in flight is completed or given up in the end, so that the next one can be
\* produced.
TrackerIsReleased ==
    tracker.status # "none" ~> tracker.status = "none" \/ step = "stopped"
=============================================================================
