--------------------------- MODULE ProducerProofs ---------------------------
(***************************************************************************)
(* A nodeos that produces (Producer), for every block tree, whichever of   *)
(* its blocks are the node's own and whichever are bad, and whenever the   *)
(* block log is full, until spoiled is set: until a switch fails that      *)
(* maybe_switch_forks cannot take back.                                    *)
(*                                                                         *)
(* The head is not always the best block known: when a failed block is     *)
(* taken off, a block of a peer that was no better than it may be better   *)
(* than the one below.  So ControllerOK, the invariant of a node that only *)
(* receives blocks, does not hold.  What is left is that the head is       *)
(* preferred over every other validated block (Leading), and that a head   *)
(* that may still be taken off stands on a block that is, too: then        *)
(* remove_head of the fork database and pop_block agree on the new head.   *)
(*                                                                         *)
(* That only the last block of a branch is ever taken off needs that an    *)
(* own block is built on, by this node or by a peer, once it is published  *)
(* or given up as failed only (Passed), and that the block of the head is  *)
(* one of these, with the tracker or marked failed: nothing else is lost   *)
(* sight of.                                                               *)
(***************************************************************************)
EXTENDS Producer, ControllerLemmas

-----------------------------------------------------------------------------
(* The inductive invariant *)

\* The own blocks that the branch of b is built on are among those of S.
OnOwn(b, S) == Anc[b] \cap Own \subseteq S \cup {b}

\* The controller and the own blocks: those in the fork database were built and validated,
\* no block but a published one has another on top or is in the log, and one that may be
\* taken off stands on a block that leads the rest.
OwnBlocks(c, made, known) ==
    /\ c.fdb.index \cap Own \subseteq c.fdb.valid \cap made
    /\ \A x \in c.fdb.index : OnOwn(x, known)
    /\ Anc[c.blog] \cap Own \subseteq known
    /\ c.head \in Own \ known => Leads(Prev[c.head], c.fdb.valid \ {c.head})

\* The own blocks that may have another on top.
Passed == published \cup skipped

\* The tracker, the signing thread and what became of the own blocks.
Tracking ==
    /\ tracker.block = {} \/ \E b \in Own : tracker.block = {b}
    /\ failed = {} \/ \E b \in Own : failed = {b}
    /\ tracker.block \cup failed \subseteq built \ published
    /\ skipped \subseteq built /\ tracker.block \cap skipped = {}
    /\ step # "stopped" => tracker.block \cap failed = {}
    /\ \A b \in tracker.block : OnOwn(b, Passed)
    /\ signing \subseteq tracker.block
    /\ tracker.status \in {"none", "ready"} => signing = {}
    /\ tracker.status = "none" => tracker.block = {}

\* The block of the head: passed, with the tracker, or marked failed.
HeadTracked ==
    /\ ctl.head \in Own \ Passed => ctl.head \in tracker.block \cup failed
    /\ ctl.head \in failed => tracker.block = {} /\ ctl.head \notin skipped

\* What is published stands on passed blocks.
Ordered == \A b \in published : Anc[b] \cap Own \subseteq Passed

\* The pending block stands on the head; if that one failed, the timer makes a block of it
\* only if a transaction filled it.
PendingOK ==
    /\ pending = {} \/ pending = {ctl.head}
    /\ filled \subseteq failed \cap pending
    /\ timer[1] = "produce" => failed \cap pending \subseteq filled
    /\ step = "process" => failed \cap pending = {}

\* Types of the variables that matter for themselves only.
Others ==
    /\ mode \in {"producing", "speculating"} /\ paused \in BOOLEAN
    /\ tracker \in [status : {"none", "pending", "ready"}, block : SUBSET Own]
    /\ signed \subseteq built /\ published \subseteq signed /\ built \subseteq Own
    /\ posted \in Nat
    /\ timer \in Timers
    /\ step \in {"idle", "loop", "process", "stopped"}
    /\ quitting \in BOOLEAN

\* The controller and the own blocks.
Core ==
    /\ Leading(ctl)
    /\ OwnBlocks(ctl, built, Passed)
    /\ Tracking
    /\ HeadTracked
    /\ Ordered

\* The node has not stopped.
Alive == step # "stopped"

\* What holds until then.
Running == Core /\ PendingOK /\ Others /\ Alive

\* What is left afterwards.
Halted ==
    /\ step = "stopped" /\ Tracking /\ Ordered /\ Others
    /\ ctl \in Controllers /\ ctl.head \in Block /\ ctl.db = ctl.head
    /\ ctl.outcome \in {"ok", "threw"}
    /\ Anc[ctl.head] \cap Own \subseteq Passed
    /\ pending = {}

\* The inductive invariant.
Inv == Running \/ Halted

-----------------------------------------------------------------------------
(* What the controller's operations make of a leading head *)

\* pop_block and remove_head of an own block that was not published: both end at the block
\* below it, which is published unless a peer built it.
LEMMA DropHeadOK ==
    ASSUME NEW c, Leading(c), NEW made, NEW known, OwnBlocks(c, made, known),
           c.head \in Own \ known
    PROVE  LET r == DropHead(c)
           IN  /\ Leading(r) /\ OwnBlocks(r, made, known)
               /\ r.head = Prev[c.head] /\ Anc[r.head] \cap Own \subseteq known
               /\ r.fdb.index = c.fdb.index \ {c.head} /\ r.blog = c.blog
               /\ r.outcome = c.outcome
  <1>1. PICK fd : fd = c.fdb
    OBVIOUS
  <1>2. PICK h : h = c.head
    OBVIOUS
  <1>3. /\ Sound(c) /\ c \in Controllers /\ h \in Block /\ c.blog \in Block
        /\ fd.head = h /\ FdbOK(fd) /\ fd.root = c.blog /\ c.blog \in Anc[h]
        /\ fd.valid \subseteq fd.index /\ fd.index \in SUBSET Block
        /\ h \in fd.valid \cup {fd.root}
    BY <1>1, <1>2, LeadingFacts
  <1>4. /\ h \in Own \ known /\ fd.index \cap Own \subseteq fd.valid \cap made
        /\ \A x \in fd.index : OnOwn(x, known)
        /\ Anc[c.blog] \cap Own \subseteq known
        /\ Leads(Prev[h], fd.valid \ {h})
    BY <1>1, <1>2 DEF OwnBlocks
  <1>5. h # fd.root /\ h \in fd.valid /\ h \in fd.index
    BY <1>3, <1>4, AncBasic
  <1>6. h \in Block \ {Genesis}
    BY <1>4, ProducerAssumption
  <1>7. PICK p : p = Prev[h]
    OBVIOUS
  <1>8. /\ p \in Block /\ p \in Anc[h] /\ p # h /\ p \in fd.valid \cup {fd.root}
        /\ Anc[p] \subseteq Anc[h] /\ h \notin Anc[p]
    <2>1. p \in Block /\ Anc[h] = {h} \cup Anc[p] /\ Num[h] = Num[p] + 1
      BY <1>6, <1>7, AncStep, BlockTreeAssumption
    <2>2. p \in Anc[p] /\ Num[p] \in Nat
      BY <2>1, AncBasic, Numbers
    <2>3. h \notin Anc[p]
      BY <2>1, <2>2, AncNumbers
    <2>4. p \in fd.valid \cup {fd.root}
      BY <1>3, <1>5, <1>7 DEF FdbOK, ValidOnValid
    <2> QED BY <2>1, <2>2, <2>3, <2>4
  <1>9. Anc[p] \cap Own \subseteq known
    BY <1>4, <1>5, <1>8 DEF OnOwn
  <1>10. \A x \in fd.index : Prev[x] # h
    <2>1. SUFFICES ASSUME NEW x \in fd.index, Prev[x] = h PROVE FALSE
      OBVIOUS
    <2>2. x \in Block \ {Genesis}
      BY <1>3 DEF FdbOK, Rooted
    <2>3. Anc[x] = {x} \cup Anc[h] /\ Num[x] = Num[h] + 1 /\ h \in Anc[h] /\ Num[h] \in Nat
      BY <1>3, <2>1, <2>2, AncStep, AncBasic, Numbers, BlockTreeAssumption
    <2>4. h \in known \cup {x}
      BY <1>4, <2>1, <2>3 DEF OnOwn
    <2> QED BY <1>4, <2>3, <2>4
  <1>11. PICK r : r = DropHead(c)
    OBVIOUS
  <1>12. /\ Leading(r) /\ r.head = p /\ r.blog = c.blog /\ r.outcome = c.outcome
         /\ r.fdb.index = fd.index \ {h} /\ r.fdb.valid = fd.valid \ {h}
    <2>1. c.head # c.blog /\ \A x \in c.fdb.index : Prev[x] # c.head
      BY <1>1, <1>2, <1>3, <1>5, <1>10
    <2>2. Leads(Prev[c.head], c.fdb.valid \ {c.head})
      BY <1>1, <1>2, <1>4
    <2> QED BY <1>1, <1>2, <1>7, <1>11, <2>1, <2>2, DropHeadLeading
  <1>13. OwnBlocks(r, made, known)
    <2>1. p \notin Own \ known
      BY <1>8, <1>9, AncBasic
    <2> QED BY <1>4, <1>12, <2>1 DEF OwnBlocks
  <1> QED BY <1>1, <1>2, <1>7, <1>9, <1>11, <1>12, <1>13

\* abort_block: a failed block goes if it is the head, otherwise nothing changes.
LEMMA AbortOK ==
    ASSUME NEW c, Leading(c), NEW made, NEW known, OwnBlocks(c, made, known),
           NEW f, c.head \in f => c.head \in Own \ known
    PROVE  LET r    == AfterAbort(c, f)
               left == FailedLeft(c, f)
           IN  /\ Leading(r) /\ OwnBlocks(r, made, known)
               /\ \/ /\ c.head \in f /\ left = {} /\ Anc[r.head] \cap Own \subseteq known
                     /\ r.head \in Block
                     /\ r.fdb.index = c.fdb.index \ {c.head} /\ r.blog = c.blog
                  \/ c.head \notin f /\ left = f /\ r = c
  <1>1. c.fdb.head = c.head
    BY LeadingFacts
  <1>2. CASE c.head \in f
    <2>1. Aborts(f, c)
      BY <1>1, <1>2 DEF Aborts
    <2>2. AfterAbort(c, f) = DropHead(c) /\ FailedLeft(c, f) = {}
      BY <2>1 DEF AfterAbort, FailedLeft
    <2>3. PICK r : r = DropHead(c)
      OBVIOUS
    <2>4. /\ Leading(r) /\ OwnBlocks(r, made, known) /\ Anc[r.head] \cap Own \subseteq known
          /\ r.fdb.index = c.fdb.index \ {c.head} /\ r.blog = c.blog
      BY <1>2, <2>3, DropHeadOK
    <2>5. r.head \in Block
      BY <2>4, LeadingFacts
    <2> QED BY <1>2, <2>2, <2>3, <2>4, <2>5
  <1>3. CASE c.head \notin f
    <2>1. ~Aborts(f, c)
      BY <1>1, <1>3 DEF Aborts
    <2> QED BY <1>3, <2>1 DEF AfterAbort, FailedLeft
  <1> QED BY <1>2, <1>3

\* The own blocks that the head is built on.
LEMMA HeadOnOwn ==
    ASSUME NEW c, Leading(c), NEW made, NEW known, OwnBlocks(c, made, known)
    PROVE  Anc[c.head] \cap Own \subseteq known \cup {c.head}
  <1>1. c.head \in c.fdb.index \/ c.head = c.blog
    BY LeadingFacts
  <1> QED BY <1>1 DEF OwnBlocks, OnOwn

-----------------------------------------------------------------------------
(* Steps that leave the core alone *)

\* Nothing that Core speaks of changes.
LEMMA CoreKept ==
    ASSUME Core, step # "stopped",
           UNCHANGED <<ctl, tracker, signing, built, published, skipped, failed>>
    PROVE  Core'
  <1>1. Passed' = Passed
    BY DEF Passed
  <1> QED BY <1>1 DEF Core, Tracking, HeadTracked, Ordered

\* What is left of the timer once it is cancelled, or armed.
LEMMA TimerIs ==
    ASSUME timer \in Timers
    PROVE  /\ Cancelled \in Timers /\ NoTimer \in Timers
           /\ Cancelled[1] = "produce" => timer[1] = "produce"
           /\ NoTimer[1] # "produce"
           /\ Armed("loop") \in Timers /\ Armed("loop")[1] # "produce"
           /\ Armed("produce") \in Timers
           /\ <<timer[1], "queued">> \in Timers \/ timer[2] # "armed"
           /\ <<timer[1], "queued">>[1] = timer[1]
           /\ <<"loop", "queued">>[1] = "loop" /\ <<"produce", "queued">>[1] = "produce"
  <1>1. timer = <<timer[1], timer[2]>>
    BY DEF Timers
  <1>2. \/ timer[1] = "none" /\ timer[2] = "none"
        \/ timer[1] \in {"loop", "produce"} /\ timer[2] \in {"armed", "queued"}
    BY DEF Timers
  <1>3. NoTimer \in Timers /\ Armed("loop") \in Timers /\ Armed("produce") \in Timers
    BY DEF Timers, NoTimer, Armed
  <1>4. Cancelled = timer \/ Cancelled = NoTimer
    BY DEF Cancelled
  <1>5. timer[2] = "armed" => <<timer[1], "queued">> \in Timers
    BY <1>2 DEF Timers
  <1> QED BY <1>2, <1>3, <1>4, <1>5 DEF NoTimer, Armed

\* The production loop returns early, the timer expires, nothing is produced yet, pause.
LEMMA QuietOK ==
    ASSUME Running, \/ WaitForBlock \/ WaitForProduction \/ ProcessUnapplied \/ Expire
                \/ LoopTimer \/ ProduceLater \/ Pause
    PROVE  Running'
  <1>1. Core /\ PendingOK /\ Others /\ Alive /\ timer \in Timers
    BY DEF Running, Others
  <1>2. UNCHANGED <<ctl, pending, failed, tracker, signing, signed, posted, built, published,
                    filled, skipped>>
    BY DEF WaitForBlock, WaitForProduction, ReturnEarly, ProcessUnapplied, Expire, LoopTimer,
           ProduceLater, MaybeProduce, Pause, signer
  <1>3. /\ step # "stopped" /\ step' \in {"idle", "loop", "process"}
        /\ step' = "process" => step = "process"
        /\ mode' \in {"producing", "speculating"} /\ paused' \in BOOLEAN /\ quitting' \in BOOLEAN
    BY <1>1 DEF WaitForBlock, WaitForProduction, ReturnEarly, ProcessUnapplied, Expire,
           LoopTimer, ProduceLater, MaybeProduce, Pause, Others
  <1>4. Core'
    BY <1>1, <1>2, <1>3, CoreKept
  <1>5. /\ timer' \in Timers
        /\ timer'[1] = "produce" => failed \cap pending \subseteq filled
    <2>1. CASE WaitForBlock
      <3>1. timer' = Cancelled \/ timer' = Armed("loop")
        BY <2>1 DEF WaitForBlock
      <3> QED BY <1>1, <3>1, TimerIs DEF PendingOK
    <2>2. CASE WaitForProduction
      BY <1>1, <2>2, TimerIs DEF WaitForProduction
    <2>3. CASE ProcessUnapplied
      <3>1. timer' = timer \/ timer' = Armed("loop") \/ timer' = Armed("produce")
        BY <2>3 DEF ProcessUnapplied, Scheduled
      <3>2. failed \cap pending = {}
        BY <1>1, <2>3 DEF ProcessUnapplied, PendingOK
      <3> QED BY <1>1, <3>1, <3>2, TimerIs
    <2>4. CASE Expire
      BY <1>1, <2>4, TimerIs DEF Expire, PendingOK
    <2>5. CASE LoopTimer \/ ProduceLater
      BY <1>1, <2>5, TimerIs DEF LoopTimer, ProduceLater, MaybeProduce
    <2>6. CASE Pause
      BY <1>1, <2>6 DEF Pause, PendingOK
    <2> QED BY <2>1, <2>2, <2>3, <2>4, <2>5, <2>6
  <1>6. PendingOK'
    BY <1>1, <1>2, <1>3, <1>5 DEF PendingOK
  <1>7. Others'
    BY <1>1, <1>2, <1>3, <1>5 DEF Others
  <1>8. Alive'
    BY <1>3 DEF Alive
  <1> QED BY <1>4, <1>6, <1>7, <1>8 DEF Running

-----------------------------------------------------------------------------
(* Steps that abort the pending block *)

\* Nothing but a failed block at the head goes.
LEMMA AbortCore ==
    ASSUME Core, step # "stopped", ctl' = AfterAbort(ctl, failed), failed' = FailedLeft(ctl, failed),
           UNCHANGED <<signing, built, published, skipped>>,
           tracker' = tracker \/ (tracker'.block = tracker.block /\ tracker'.status = "pending")
    PROVE  Core' /\ ctl'.head \notin failed'
  <1>1. /\ Leading(ctl) /\ OwnBlocks(ctl, built, Passed) /\ Tracking /\ HeadTracked
        /\ Ordered
    BY DEF Core
  <1>2. Passed' = Passed /\ (ctl.head \in failed => ctl.head \in Own \ Passed)
    BY <1>1 DEF Tracking, HeadTracked, Passed
  <1>3. PICK r : r = AfterAbort(ctl, failed)
    OBVIOUS
  <1>4. PICK left : left = FailedLeft(ctl, failed)
    OBVIOUS
  <1>5. /\ Leading(r) /\ OwnBlocks(r, built, Passed)
        /\ \/ /\ ctl.head \in failed /\ left = {} /\ Anc[r.head] \cap Own \subseteq Passed
              /\ r.head \in Block
           \/ ctl.head \notin failed /\ left = failed /\ r = ctl
    BY <1>1, <1>2, <1>3, <1>4, AbortOK
  <1>6. tracker'.block = tracker.block
    OBVIOUS
  <1>7. Tracking'
    BY <1>1, <1>2, <1>4, <1>5, <1>6 DEF Tracking
  <1>8. HeadTracked' /\ ctl'.head \notin failed'
    <2>1. CASE left = {} /\ Anc[r.head] \cap Own \subseteq Passed /\ r.head \in Block
      <3>1. r.head \notin Own \ Passed
        BY <2>1, AncBasic
      <3> QED BY <1>2, <1>3, <1>4, <2>1, <3>1 DEF HeadTracked
    <2>2. CASE ctl.head \notin failed /\ left = failed /\ r = ctl
      BY <1>1, <1>2, <1>3, <1>4, <1>6, <2>2 DEF HeadTracked
    <2> QED BY <1>5, <2>1, <2>2
  <1>9. Ordered'
    BY <1>1, <1>2 DEF Ordered
  <1>10. Leading(ctl') /\ OwnBlocks(ctl', built', Passed')
    BY <1>2, <1>3, <1>5
  <1> QED BY <1>7, <1>8, <1>9, <1>10 DEF Core

\* start_block, past its early returns
LEMMA StartOK ==
    ASSUME Running, StartBlock \/ StartFails
    PROVE  Running'
  <1>1. Core /\ PendingOK /\ Others /\ Alive /\ timer \in Timers
    BY DEF Running, Others
  <1>2. /\ ctl' = AfterAbort(ctl, failed) /\ failed' = FailedLeft(ctl, failed)
        /\ UNCHANGED <<paused, tracker, signing, signed, posted, built, published, skipped>>
        /\ mode' \in {"producing", "speculating"} /\ quitting' \in BOOLEAN
        /\ pending' = {ctl'.head} \/ pending' = {}
        /\ filled' = {}
        /\ step = "loop" /\ step' \in {"process", "idle"}
        /\ timer' = Cancelled \/ timer' = Armed("loop")
    BY <1>1 DEF StartBlock, StartFails, StartOn, signer, Others
  <1>3. Core' /\ ctl'.head \notin failed'
    BY <1>1, <1>2, AbortCore
  <1>4. PendingOK'
    BY <1>2, <1>3 DEF PendingOK
  <1>5. Others'
    BY <1>1, <1>2, TimerIs DEF Others
  <1>6. Alive'
    BY <1>2 DEF Alive
  <1> QED BY <1>3, <1>4, <1>5, <1>6 DEF Running

\* A handler that aborts the pending block, and nothing to produce
LEMMA AbortInv ==
    ASSUME Running, ProduceThrows \/ BlockExhausted \/ RestartBlock \/ Resume
    PROVE  Running'
  <1>1. Core /\ PendingOK /\ Others /\ Alive /\ timer \in Timers
    BY DEF Running, Others
  <1>2. /\ UNCHANGED <<mode, signing, signed, posted, built, published, skipped>>
        /\ paused' \in BOOLEAN /\ quitting' \in BOOLEAN /\ step = "idle"
    BY <1>1 DEF ProduceThrows, MaybeProduce, BlockExhausted, RestartBlock, Resume, signer, Others
  <1>3. /\ tracker' = tracker \/ (tracker'.block = tracker.block /\ tracker'.status = "pending")
        /\ tracker' \in [status : {"none", "pending", "ready"}, block : SUBSET Own]
    <2>1. tracker \in [status : {"none", "pending", "ready"}, block : SUBSET Own]
      BY <1>1 DEF Others
    <2>2. tracker' = tracker \/ tracker' = [tracker EXCEPT !.status = "pending"]
      BY DEF ProduceThrows, BlockExhausted, RestartBlock, Resume, signer
    <2> QED BY <2>1, <2>2
  <1>4. CASE Abort(ctl, failed) /\ step' = "loop" /\ timer' \in {timer, NoTimer}
    <2>1. Core' /\ ctl'.head \notin failed'
      BY <1>1, <1>2, <1>3, <1>4, AbortCore DEF Abort
    <2>2. PendingOK'
      BY <1>4 DEF PendingOK, Abort
    <2>3. Others'
      BY <1>1, <1>2, <1>3, <1>4, TimerIs DEF Others
    <2>4. Alive'
      BY <1>4 DEF Alive
    <2> QED BY <2>1, <2>2, <2>3, <2>4 DEF Running
  <1>5. CASE /\ UNCHANGED <<ctl, failed, pending, step, tracker>> /\ step = "idle"
             /\ \/ UNCHANGED <<timer, filled>>
                \/ timer' = Armed("produce") /\ filled' = failed \cap pending
    <2>1. Core'
      BY <1>1, <1>2, <1>5, CoreKept
    <2>2. PendingOK'
      BY <1>1, <1>5 DEF PendingOK
    <2>3. Others'
      BY <1>1, <1>2, <1>3, <1>5, TimerIs DEF Others
    <2>4. Alive'
      BY <1>5 DEF Alive
    <2> QED BY <2>1, <2>2, <2>3, <2>4 DEF Running
  <1>6. CASE ProduceThrows
    BY <1>4, <1>6 DEF ProduceThrows, MaybeProduce
  <1>7. CASE BlockExhausted
    BY <1>4, <1>5, <1>7 DEF BlockExhausted, AbortAndLoop, signer
  <1>8. CASE RestartBlock
    BY <1>4, <1>8 DEF RestartBlock, AbortAndLoop
  <1>9. CASE Resume
    BY <1>4, <1>5, <1>9 DEF Resume, AbortAndLoop, signer
  <1> QED BY <1>6, <1>7, <1>8, <1>9

-----------------------------------------------------------------------------
(* Producing, signing and completing *)

\* A block is produced on a head that is passed or a peer's: otherwise the tracker waits, or
\* that block failed and is passed now.
LEMMA ProduceBlockOK ==
    ASSUME Running, NEW b \in Own, ProduceBlock(b)
    PROVE  Running'
  <1>1. Core /\ PendingOK /\ Others /\ Alive /\ timer \in Timers
    BY DEF Running, Others
  <1>2. /\ Leading(ctl) /\ OwnBlocks(ctl, built, Passed) /\ Tracking /\ HeadTracked
        /\ Ordered
    BY <1>1 DEF Core
  <1>3. /\ step = "idle" /\ timer = <<"produce", "queued">> /\ timer' = NoTimer /\ step' = "loop"
        /\ UNCHANGED <<mode, paused, posted, signed, published, failed, quitting>>
        /\ tracker.status = "none" /\ Prev[b] \in pending /\ b \notin built
        /\ built' = built \cup {b} /\ ctl' = Built(ctl, b) /\ pending' = {}
        /\ tracker' = [status |-> "pending", block |-> {b}]
        /\ signing' = signing \cup {b} /\ skipped' = skipped \cup (filled \cap pending)
        /\ filled' = {}
    BY DEF ProduceBlock, MaybeProduce, Waiting
  <1>4. /\ Prev[b] = ctl.head /\ pending = {ctl.head} /\ tracker.block = {} /\ signing = {}
        /\ skipped' = skipped \cup (failed \cap pending)
    <2>1. timer[1] = "produce"
      BY <1>3
    <2>2. filled = failed \cap pending
      BY <1>1, <2>1 DEF PendingOK
    <2> QED BY <1>1, <1>2, <1>3, <2>2 DEF PendingOK, Tracking
  <1>5. PICK known : known = Passed'
    OBVIOUS
  <1>6. Passed \subseteq known /\ Anc[ctl.head] \cap Own \subseteq known
    <2>1. Passed \subseteq known
      BY <1>3, <1>5 DEF Passed
    <2>2. ctl.head \notin Own \ known
      BY <1>2, <1>3, <1>4, <1>5, <2>1 DEF HeadTracked, Passed
    <2>3. Anc[ctl.head] \cap Own \subseteq Passed \cup {ctl.head}
      BY <1>2, HeadOnOwn
    <2> QED BY <2>1, <2>2, <2>3
  <1>7. /\ b \in Block \ (Bad \cup {Genesis}) /\ b \notin ctl.fdb.index /\ b \notin published
        /\ b \notin failed /\ b \notin skipped'
    <2>1. published \subseteq built /\ failed \subseteq built /\ skipped \subseteq built
      BY <1>1, <1>2 DEF Others, Tracking
    <2> QED BY <1>2, <1>3, <1>4, <2>1, ProducerAssumption DEF OwnBlocks
  <1>8. PICK r : r = Built(ctl, b)
    OBVIOUS
  <1>9. /\ Leading(r) /\ r.head = b /\ r.blog = ctl.blog
        /\ r.fdb.index = ctl.fdb.index \cup {b} /\ r.fdb.valid = ctl.fdb.valid \cup {b}
    BY <1>2, <1>4, <1>7, <1>8, BuiltLeading
  <1>10. Anc[b] = {b} \cup Anc[ctl.head]
    BY <1>4, <1>7, AncStep
  <1>11. OnOwn(b, known)
    BY <1>6, <1>10 DEF OnOwn
  <1>12. OwnBlocks(r, built', known)
    <2>1. r.fdb.index \cap Own \subseteq r.fdb.valid \cap built'
      BY <1>2, <1>3, <1>9 DEF OwnBlocks
    <2>2. \A x \in r.fdb.index : OnOwn(x, known)
      BY <1>2, <1>6, <1>9, <1>11 DEF OwnBlocks, OnOwn
    <2>3. Anc[r.blog] \cap Own \subseteq known
      BY <1>2, <1>6, <1>9 DEF OwnBlocks
    <2>4. Leads(Prev[r.head], r.fdb.valid \ {r.head})
      BY <1>2, <1>4, <1>9 DEF Leading, Leads
    <2> QED BY <2>1, <2>2, <2>3, <2>4 DEF OwnBlocks
  <1>13. Tracking'
    <2>1. tracker'.block = {b} /\ tracker'.status = "pending"
      BY <1>3
    <2>2. \A x \in tracker'.block : OnOwn(x, Passed')
      BY <1>5, <1>11, <2>1
    <2>3. tracker'.block \cup failed' \subseteq built' \ published'
      BY <1>2, <1>3, <1>7, <2>1 DEF Tracking
    <2>4. skipped' \subseteq built' /\ tracker'.block \cap skipped' = {}
      BY <1>2, <1>3, <1>4, <1>7, <2>1 DEF Tracking
    <2> QED BY <1>2, <1>3, <1>4, <1>7, <2>1, <2>2, <2>3, <2>4 DEF Tracking
  <1>14. HeadTracked'
    BY <1>3, <1>7, <1>8, <1>9 DEF HeadTracked
  <1>15. Ordered'
    BY <1>2, <1>3, <1>5, <1>6 DEF Ordered
  <1>16. Core'
    BY <1>3, <1>5, <1>8, <1>9, <1>12, <1>13, <1>14, <1>15 DEF Core
  <1>17. PendingOK'
    BY <1>3 DEF PendingOK
  <1>18. Others'
    BY <1>1, <1>3, TimerIs DEF Others
  <1>19. Alive'
    BY <1>3 DEF Alive
  <1> QED BY <1>16, <1>17, <1>18, <1>19 DEF Running

\* The signing thread is done with the block of the tracker.
LEMMA SignOK ==
    ASSUME Running, NEW b \in Own, Sign(b)
    PROVE  Running'
  <1>1. Core /\ PendingOK /\ Others /\ Alive
    BY DEF Running
  <1>2. /\ Leading(ctl) /\ OwnBlocks(ctl, built, Passed) /\ Tracking /\ HeadTracked
        /\ Ordered
    BY <1>1 DEF Core
  <1>3. /\ b \in signing /\ step # "stopped" /\ signing' = signing \ {b}
        /\ signed' = signed \/ signed' = signed \cup {b}
        /\ tracker' = [tracker EXCEPT !.status = "ready"] /\ posted' = posted + 1
        /\ UNCHANGED <<ctl, pending, mode, paused, failed, timer, step, quitting, built,
                       published, filled, skipped>> /\ Passed' = Passed
    BY DEF Sign, Report, Passed
  <1>4. tracker \in [status : {"none", "pending", "ready"}, block : SUBSET Own]
    BY <1>1 DEF Others
  <1>5. /\ tracker' \in [status : {"none", "pending", "ready"}, block : SUBSET Own]
        /\ tracker'.block = tracker.block /\ tracker'.status = "ready"
    BY <1>3, <1>4
  <1>6. tracker.block = {b} /\ signing' = {}
    BY <1>2, <1>3 DEF Tracking
  <1>7. Tracking'
    BY <1>2, <1>3, <1>5, <1>6 DEF Tracking
  <1>8. HeadTracked' /\ Ordered'
    BY <1>2, <1>3, <1>5 DEF HeadTracked, Ordered
  <1>9. Core'
    BY <1>2, <1>3, <1>7, <1>8 DEF Core
  <1>10. PendingOK'
    BY <1>1, <1>3 DEF PendingOK
  <1>11. Others'
    <2>1. b \in built
      BY <1>2, <1>6 DEF Tracking
    <2> QED BY <1>1, <1>3, <1>5, <2>1 DEF Others
  <1>12. Alive'
    BY <1>3 DEF Alive
  <1> QED BY <1>9, <1>10, <1>11, <1>12 DEF Running

\* The block log has room up to some number.
LEMMA RoomsAreNumbers ==
    ASSUME Leading(ctl)
    PROVE  Rooms \subseteq Nat
  <1>1. MaxNum \in Nat /\ Num[ctl.blog] \in Nat
    BY LeadingFacts, MaxNumIs, Numbers
  <1> QED BY <1>1 DEF Rooms

\* complete_produced_block: the block of the tracker is published, or marked failed and then
\* neither logged nor built on.
LEMMA CompletionOK ==
    ASSUME Running, step # "stopped", NEW r \in Completions, NEW known, known = r.published \cup skipped
    PROVE  /\ Leading(r.ctl) /\ OwnBlocks(r.ctl, built, known) /\ r.ctl.head = ctl.head
           /\ r.published \subseteq signed
           /\ \A x \in r.published : Anc[x] \cap Own \subseteq known
           /\ r.failed = {} \/ \E x \in Own : r.failed = {x}
           /\ r.failed \subseteq built \ r.published
           /\ ctl.head \in Own \ known => ctl.head \in r.failed
           /\ ctl.head \in r.failed => ctl.head \notin skipped
  <1>1. Core /\ Others
    BY DEF Running
  <1>2. /\ Leading(ctl) /\ OwnBlocks(ctl, built, Passed) /\ Tracking /\ HeadTracked
        /\ Ordered
    BY <1>1 DEF Core
  <1>3. PICK b \in tracker.block, room \in Rooms :
              r = Completed(b, LogIrreversible([ctl EXCEPT !.outcome = "ok"], {}, room))
    BY DEF Completions
  <1>4. room \in Nat
    BY <1>2, RoomsAreNumbers
  <1>5. /\ tracker.block = {b} /\ b \in Own /\ b \in built \ published /\ OnOwn(b, Passed)
        /\ b \notin skipped
        /\ failed = {} \/ \E x \in Own : failed = {x}
        /\ failed \subseteq built \ published /\ b \notin failed
    BY <1>2 DEF Tracking
  <1>6. PICK h : h = ctl.head
    OBVIOUS
  <1>7. h \notin failed /\ (h \in Own \ Passed => h = b)
    BY <1>2, <1>5, <1>6 DEF HeadTracked
  <1>8. /\ h \in Block /\ ctl \in Controllers /\ ctl.fdb.valid \subseteq ctl.fdb.index
    BY <1>2, <1>6, LeadingFacts
  <1>9. Anc[h] \cap Own \subseteq Passed \cup {h}
    BY <1>2, <1>6, HeadOnOwn
  <1>10. PICK e : e = [ctl EXCEPT !.outcome = "ok"]
    OBVIOUS
  <1>11. Leading(e) /\ e.outcome = "ok" /\ e.head = h /\ e.fdb = ctl.fdb /\ e.blog = ctl.blog
    <2>1. e = Ended(ctl, "ok") /\ "ok" \in Outcomes
      BY <1>10 DEF Ended, Outcomes
    <2>2. Sound(ctl) /\ ~Irreversible(ctl) /\ Leads(ctl.head, ctl.fdb.valid)
      BY <1>2 DEF Leading
    <2>3. PICK how \in Outcomes : how = "ok"
      BY <2>1
    <2>4. /\ Sound(e) /\ e.outcome = "ok" /\ SameLog(e, ctl) /\ e.fdb = ctl.fdb
          /\ e.head = ctl.head
      BY <1>8, <2>1, <2>2, <2>3, EndedIs, EndedSound
    <2> QED BY <1>6, <2>2, <2>4 DEF Leading, SameLog, Irreversible
  <1>12. PICK none : none = {}
    OBVIOUS
  <1>13. PICK c : c = LogIrreversible(e, none, room)
    OBVIOUS
  <1>14. /\ Leading(c) /\ c.head = h /\ c.fdb.index \subseteq ctl.fdb.index
         /\ c.fdb.valid \subseteq ctl.fdb.valid
         /\ c.fdb.index \cap ctl.fdb.valid \subseteq c.fdb.valid
         /\ c.blog \in Anc[h]
         /\ c.blog = ctl.blog \/ c.blog # h \/ c.outcome = "ok"
    BY <1>4, <1>11, <1>13, LogLeading
  <1>15. r = Completed(b, c)
    BY <1>3, <1>10, <1>12, <1>13, Zenon
  <1>16. PICK pub : pub = published \cup {b}
    OBVIOUS
  <1>17. ASSUME Passed \subseteq known, Anc[c.blog] \cap Own \subseteq known
         PROVE  OwnBlocks(c, built, known)
    <2>1. c.fdb.index \cap Own \subseteq c.fdb.valid \cap built
      BY <1>2, <1>14 DEF OwnBlocks
    <2>2. \A x \in c.fdb.index : OnOwn(x, known)
      BY <1>2, <1>14, <1>17 DEF OwnBlocks, OnOwn
    <2>3. h \in Own \ known => Leads(Prev[h], c.fdb.valid \ {h})
      <3>1. h \in Own \ Passed => Leads(Prev[h], ctl.fdb.valid \ {h})
        BY <1>2, <1>6 DEF OwnBlocks
      <3> QED BY <1>14, <1>17, <3>1 DEF Leads
    <2> QED BY <1>14, <1>17, <2>1, <2>2, <2>3 DEF OwnBlocks
  <1>18. CASE b \in signed /\ c.outcome = "ok"
    <2>1. r = [ok |-> TRUE, ctl |-> c, failed |-> failed, published |-> pub]
      BY <1>15, <1>16, <1>18 DEF Completed
    <2>0. known = Passed \cup {b}
      BY <1>16, <2>1 DEF Passed
    <2>2. Anc[c.blog] \subseteq Anc[h]
      BY <1>8, <1>14, AncTransitive
    <2>3. Anc[c.blog] \cap Own \subseteq known
      BY <1>7, <1>9, <2>0, <2>2
    <2>4. OwnBlocks(c, built, known)
      BY <1>17, <2>0, <2>3
    <2>5. \A x \in pub : Anc[x] \cap Own \subseteq known
      BY <1>2, <1>5, <1>16, <2>0 DEF Ordered, OnOwn
    <2>6. failed \subseteq built \ pub
      BY <1>5, <1>16
    <2>7. pub \subseteq signed
      BY <1>1, <1>16, <1>18 DEF Others
    <2> QED BY <1>5, <1>6, <1>7, <1>14, <2>0, <2>1, <2>4, <2>5, <2>6, <2>7
  <1>19. CASE ~(b \in signed /\ c.outcome = "ok")
    <2>1. PICK d : d = IF b \in signed THEN c ELSE ctl
      OBVIOUS
    <2>2. r = [ok |-> FALSE, ctl |-> d, failed |-> {b}, published |-> published]
      BY <1>15, <1>19, <2>1 DEF Completed
    <2>0. known = Passed
      BY <2>2 DEF Passed
    <2>3. Leading(d) /\ OwnBlocks(d, built, known) /\ d.head = h
      <3>1. CASE b \in signed
        <4>1. c.blog = ctl.blog \/ c.blog # h
          BY <1>14, <1>19, <3>1
        <4>2. Anc[c.blog] \cap Own \subseteq known
          <5>1. CASE c.blog = ctl.blog
            BY <1>2, <2>0, <5>1 DEF OwnBlocks
          <5>2. CASE c.blog # h
            <6>1. c.blog \in Block /\ Anc[c.blog] \subseteq Anc[h] /\ Num[c.blog] < Num[h]
              BY <1>8, <1>14, <5>2, AncTransitive, AncNumbers
            <6>2. h \notin Anc[c.blog]
              BY <1>8, <6>1, AncNumbers, Numbers
            <6> QED BY <1>9, <2>0, <6>1, <6>2
          <5> QED BY <4>1, <5>1, <5>2
        <4> QED BY <1>14, <1>17, <2>0, <2>1, <3>1, <4>2
      <3>2. CASE b \notin signed
        BY <1>2, <1>6, <2>0, <2>1, <3>2
      <3> QED BY <3>1, <3>2
    <2>4. \A x \in published : Anc[x] \cap Own \subseteq known
      BY <1>2, <2>0 DEF Ordered
    <2> QED BY <1>1, <1>5, <1>6, <1>7, <2>0, <2>2, <2>3, <2>4 DEF Others
  <1> QED BY <1>18, <1>19

\* The tracker is released.
LEMMA ReleasedTracking ==
    ASSUME tracker' = NoTracker, signing' = {}, skipped' \subseteq built',
           failed' = {} \/ \E x \in Own : failed' = {x}, failed' \subseteq built' \ published'
    PROVE  /\ Tracking' /\ tracker'.block = {}
           /\ tracker' \in [status : {"none", "pending", "ready"}, block : SUBSET Own]
  <1>1. tracker'.block = {} /\ tracker'.status = "none"
    BY DEF NoTracker
  <1>2. tracker' \in [status : {"none", "pending", "ready"}, block : SUBSET Own]
    BY DEF NoTracker
  <1> QED BY <1>1, <1>2 DEF Tracking

\* process_unapplied_trxs_start_block completes the last block.
LEMMA ProcessCompletingOK ==
    ASSUME Running, ProcessCompleting
    PROVE  Running'
  <1>1. Core /\ PendingOK /\ Others /\ Alive /\ timer \in Timers
    BY DEF Running, Others
  <1>2. PICK r \in Completions :
              /\ ctl' = r.ctl /\ failed' = r.failed /\ published' = r.published
              /\ Quits(r.ctl)
              /\ IF r.ok THEN Scheduled ELSE timer' = Armed("loop")
    BY DEF ProcessCompleting
  <1>3. /\ step = "process" /\ step' = "idle" /\ tracker.status = "ready"
        /\ tracker' = NoTracker /\ UNCHANGED <<pending, mode, paused, signing, signed, posted, built, filled, skipped>>
    BY DEF ProcessCompleting
  <1>4. PICK known : known = r.published \cup skipped
    OBVIOUS
  <1>5. /\ Leading(r.ctl) /\ OwnBlocks(r.ctl, built, known) /\ r.ctl.head = ctl.head
        /\ r.published \subseteq signed
        /\ \A x \in r.published : Anc[x] \cap Own \subseteq known
        /\ r.failed = {} \/ \E x \in Own : r.failed = {x}
        /\ r.failed \subseteq built \ r.published
        /\ ctl.head \in Own \ known => ctl.head \in r.failed
        /\ ctl.head \in r.failed => ctl.head \notin skipped
    BY <1>3, <1>4, CompletionOK
  <1>6. signing' = {} /\ skipped' \subseteq built' /\ Passed' = known
    BY <1>1, <1>2, <1>3, <1>4 DEF Core, Tracking, Passed
  <1>7. /\ Tracking' /\ tracker'.block = {}
        /\ tracker' \in [status : {"none", "pending", "ready"}, block : SUBSET Own]
    BY <1>2, <1>3, <1>5, <1>6, ReleasedTracking
  <1>8. Core'
    <2>1. Leading(ctl') /\ OwnBlocks(ctl', built', Passed')
      BY <1>2, <1>3, <1>5, <1>6
    <2>2. HeadTracked'
      BY <1>2, <1>3, <1>5, <1>6, <1>7 DEF HeadTracked
    <2>3. Ordered'
      BY <1>2, <1>5, <1>6 DEF Ordered
    <2> QED BY <1>7, <2>1, <2>2, <2>3 DEF Core
  <1>9. PendingOK' /\ timer' \in Timers
    <2>1. pending' = {} \/ pending' = {ctl'.head}
      BY <1>1, <1>2, <1>3, <1>5 DEF PendingOK
    <2>2. failed \cap pending = {} /\ filled' = {} /\ step' # "process"
      BY <1>1, <1>3 DEF PendingOK
    <2>3. CASE r.ok
      <3>1. failed' = failed
        BY <1>2, <2>3 DEF Completions, Completed
      <3>2. timer' = timer \/ timer' = Armed("loop") \/ timer' = Armed("produce")
        BY <1>2, <2>3 DEF Scheduled
      <3> QED BY <1>1, <1>3, <2>1, <2>2, <3>1, <3>2, TimerIs DEF PendingOK
    <2>4. CASE ~r.ok
      BY <1>1, <1>2, <2>1, <2>2, <2>4, TimerIs DEF PendingOK
    <2> QED BY <2>3, <2>4
  <1>10. Others'
    BY <1>1, <1>2, <1>3, <1>5, <1>7, <1>9 DEF Others, Quits
  <1>11. Alive'
    BY <1>3 DEF Alive
  <1> QED BY <1>8, <1>9, <1>10, <1>11 DEF Running

\* The task the signing thread posted
LEMMA CompletionTaskOK ==
    ASSUME Running, CompletionTask
    PROVE  Running'
  <1>1. Core /\ PendingOK /\ Others /\ Alive /\ timer \in Timers
    BY DEF Running, Others
  <1>2. /\ step = "idle" /\ posted > 0 /\ posted' = posted - 1
        /\ UNCHANGED <<mode, paused, signing, signed, timer, step, built, skipped>>
    BY DEF CompletionTask
  <1>3. posted' \in Nat /\ Alive'
    BY <1>1, <1>2 DEF Others, Alive
  <1>4. CASE UNCHANGED <<ctl, pending, tracker, failed, filled, quitting, published>>
    <2>1. Core'
      BY <1>1, <1>2, <1>4, CoreKept
    <2> QED BY <1>1, <1>2, <1>3, <1>4, <2>1 DEF Running, PendingOK, Others
  <1>5. ASSUME tracker.status = "ready", tracker' = NoTracker,
               NEW r \in Completions, published' = r.published, Quits(r.ctl),
               IF r.ok THEN ctl' = r.ctl /\ failed' = r.failed /\ UNCHANGED <<pending, filled>>
               ELSE Abort(r.ctl, r.failed)
        PROVE  Running'
    <2>0. PICK known : known = r.published \cup skipped
      OBVIOUS
    <2>1. /\ Leading(r.ctl) /\ OwnBlocks(r.ctl, built, known) /\ r.ctl.head = ctl.head
          /\ r.published \subseteq signed
          /\ \A x \in r.published : Anc[x] \cap Own \subseteq known
          /\ r.failed = {} \/ \E x \in Own : r.failed = {x}
          /\ r.failed \subseteq built \ r.published
          /\ ctl.head \in Own \ known => ctl.head \in r.failed
          /\ ctl.head \in r.failed => ctl.head \notin skipped
      BY <1>2, <2>0, CompletionOK
    <2>2. /\ signing' = {} /\ built \subseteq Own /\ skipped' \subseteq built'
          /\ Passed' = known /\ r.failed \subseteq Own
      BY <1>1, <1>2, <1>5, <2>0, <2>1 DEF Core, Tracking, Others, Passed
    <2>3. /\ Leading(ctl') /\ OwnBlocks(ctl', built', known)
          /\ failed' = {} \/ \E x \in Own : failed' = {x}
          /\ failed' \subseteq built' \ published'
          /\ ctl'.head \in Own \ known => ctl'.head \in failed'
          /\ ctl'.head \in failed' => ctl'.head \notin skipped'
          /\ pending' = {} \/ pending' = {ctl'.head}
      <3>1. CASE r.ok
        BY <1>1, <1>2, <1>5, <2>1, <3>1 DEF PendingOK
      <3>2. CASE ~r.ok
        <4>1. /\ ctl' = AfterAbort(r.ctl, r.failed) /\ failed' = FailedLeft(r.ctl, r.failed)
              /\ pending' = {}
          BY <1>5, <3>2 DEF Abort
        <4>2. PICK c : c = r.ctl
          OBVIOUS
        <4>3. PICK f : f = r.failed
          OBVIOUS
        <4>4. PICK d : d = AfterAbort(c, f)
          OBVIOUS
        <4>5. PICK left : left = FailedLeft(c, f)
          OBVIOUS
        <4>6. c.head \in f => c.head \in Own \ known
          BY <2>0, <2>1, <2>2, <4>2, <4>3
        <4>7. /\ Leading(d) /\ OwnBlocks(d, built, known)
              /\ \/ /\ left = {} /\ Anc[d.head] \cap Own \subseteq known /\ d.head \in Block
                 \/ c.head \notin f /\ left = f /\ d = c
          BY <2>1, <4>2, <4>3, <4>4, <4>5, <4>6, AbortOK
        <4>8. (d.head \in Own \ known => d.head \in left) /\ d.head \notin left
          <5>1. CASE left = {} /\ Anc[d.head] \cap Own \subseteq known /\ d.head \in Block
            BY <5>1, AncBasic
          <5>2. CASE c.head \notin f /\ left = f /\ d = c
            BY <2>1, <4>2, <4>3, <5>2
          <5> QED BY <4>7, <5>1, <5>2
        <4>9. /\ left = {} \/ \E x \in Own : left = {x}
              /\ left \subseteq built \ r.published
          BY <2>1, <4>3, <4>7
        <4> QED BY <1>2, <1>5, <4>1, <4>2, <4>3, <4>4, <4>5, <4>7, <4>8, <4>9
      <3> QED BY <3>1, <3>2
    <2>4. /\ Tracking' /\ tracker'.block = {}
          /\ tracker' \in [status : {"none", "pending", "ready"}, block : SUBSET Own]
      BY <1>5, <2>2, <2>3, ReleasedTracking
    <2>5. Core'
      <3>1. HeadTracked'
        BY <2>2, <2>3, <2>4 DEF HeadTracked
      <3>2. Ordered'
        BY <1>5, <2>1, <2>2 DEF Ordered
      <3>3. OwnBlocks(ctl', built', Passed')
        BY <2>2, <2>3
      <3> QED BY <2>3, <2>4, <3>1, <3>2, <3>3 DEF Core
    <2>6. PendingOK'
      <3>1. CASE r.ok
        <4>1. failed' = failed
          BY <1>5, <3>1 DEF Completions, Completed
        <4> QED BY <1>1, <1>2, <1>5, <2>3, <3>1, <4>1 DEF PendingOK
      <3>2. CASE ~r.ok
        BY <1>5, <3>2 DEF PendingOK, Abort
      <3> QED BY <3>1, <3>2
    <2>7. Others'
      BY <1>1, <1>2, <1>3, <1>5, <2>1, <2>4 DEF Others, Quits
    <2> QED BY <1>3, <2>5, <2>6, <2>7 DEF Running
  <1> QED BY <1>4, <1>5 DEF CompletionTask

-----------------------------------------------------------------------------
(* Blocks of peers, and the end *)

\* on_incoming_block: the new head, if there is one, is a peer's.
LEMMA ReceiveBlockOK ==
    ASSUME Running, NEW b \in Block \ Own, ReceiveBlock(b), ~spoiled'
    PROVE  Running'
  <1>1. Core /\ PendingOK /\ Others /\ Alive
    BY DEF Running
  <1>2. /\ Leading(ctl) /\ OwnBlocks(ctl, built, Passed) /\ Tracking /\ HeadTracked
        /\ Ordered
    BY <1>1 DEF Core
  <1>3. PICK room \in Rooms : ctl' = PushBlock(AfterAbort(ctl, failed), b, Bad, room)
    BY DEF ReceiveBlock
  <1>4. /\ step = "idle" /\ failed' = FailedLeft(ctl, failed) /\ pending' = {} /\ filled' = {}
        /\ step' = IF ctl'.outcome = "empty_back" THEN "stopped" ELSE "loop"
        /\ Anc[b] \cap Own \subseteq Passed /\ CanAdd(ctl.fdb, b)
        /\ quitting' = (quitting \/ ctl'.outcome = "assert")
        /\ ~Spoils(AfterAbort(ctl, failed), b) /\ Passed' = Passed
        /\ UNCHANGED <<mode, paused, timer, tracker, signing, signed, posted, built, published,
                       skipped>>
    BY DEF ReceiveBlock, Quits, Passed
  <1>5. room \in Nat
    BY <1>2, RoomsAreNumbers
  <1>6. failed \subseteq Own /\ (ctl.head \in failed => ctl.head \in Own \ Passed)
    BY <1>2 DEF Tracking, HeadTracked, Passed
  <1>7. PICK c : c = AfterAbort(ctl, failed)
    OBVIOUS
  <1>8. PICK left : left = FailedLeft(ctl, failed)
    OBVIOUS
  <1>9. /\ Leading(c) /\ OwnBlocks(c, built, Passed)
        /\ \/ /\ ctl.head \in failed /\ left = {} /\ Anc[c.head] \cap Own \subseteq Passed
              /\ c.head \in Block /\ c.fdb.index = ctl.fdb.index \ {ctl.head}
              /\ c.blog = ctl.blog
           \/ ctl.head \notin failed /\ left = failed /\ c = ctl
    BY <1>2, <1>6, <1>7, <1>8, AbortOK
  <1>10. /\ c.head \in Own \ Passed => c.head \in tracker.block \cup left
         /\ c.head \notin left
    <2>1. CASE left = {} /\ Anc[c.head] \cap Own \subseteq Passed /\ c.head \in Block
      BY <2>1, AncBasic
    <2>2. CASE ctl.head \notin failed /\ left = failed /\ c = ctl
      BY <1>2, <2>2 DEF HeadTracked
    <2> QED BY <1>9, <2>1, <2>2
  <1>11. CanAdd(c.fdb, b)
    <2>1. CASE ctl.head \in failed /\ c.fdb.index = ctl.fdb.index \ {ctl.head} /\ c.blog = ctl.blog
      <3>1. b # Genesis /\ Known(ctl.fdb, Prev[b]) /\ b \notin ctl.fdb.index
        BY <1>4 DEF CanAdd
      <3>2. Prev[b] \in Anc[b]
        BY <3>1, AncStep, AncBasic
      <3>3. Prev[b] # ctl.head
        BY <1>4, <1>6, <2>1, <3>2
      <3>4. c.fdb.root = c.blog /\ ctl.fdb.root = ctl.blog
        BY <1>2, <1>9, LeadingFacts
      <3> QED BY <2>1, <3>1, <3>3, <3>4 DEF CanAdd, Known
    <2> QED BY <1>4, <1>9, <2>1
  <1>12. PICK r : r = PushBlock(c, b, Bad, room)
    OBVIOUS
  <1>13. /\ Leading(r) /\ r.fdb.index \subseteq c.fdb.index \cup {b}
         /\ r.fdb.index \cap c.fdb.valid \subseteq r.fdb.valid
         /\ \/ r.head = c.head /\ r.fdb.valid = c.fdb.valid /\ r.blog = c.blog
            \/ /\ r.head \in (c.fdb.index \cup {b}) \ c.fdb.valid
               /\ r.blog \in Anc[r.head]
    <2>1. PICK t : t = PendingHead(Add(c.fdb, b))
      OBVIOUS
    <2>2. \/ (Anc[t] \ Anc[c.head]) \cap Bad = {}
          \/ /\ (Anc[t] \ Anc[c.head]) \cap Bad # {}
             /\ Oldest(Anc[t] \ Anc[c.head]) \in Bad
             /\ c.head \in Anc[t] => Prev[t] = c.head
      BY <1>4, <1>7, <2>1 DEF Spoils
    <2>3. CASE (Anc[t] \ Anc[c.head]) \cap Bad = {}
      <3>1. NoneBad(Anc[t] \ Anc[c.head])
        BY <2>3 DEF NoneBad
      <3> QED BY <1>5, <1>9, <1>11, <1>12, <2>1, <3>1, PushLeading
    <2>4. CASE /\ (Anc[t] \ Anc[c.head]) \cap Bad # {}
               /\ Oldest(Anc[t] \ Anc[c.head]) \in Bad
               /\ c.head \in Anc[t] => Prev[t] = c.head
      <3>1. t # c.head
        BY <2>4
      <3>2. /\ Leading(r) /\ r.fdb.index \subseteq c.fdb.index \cup {b}
            /\ r.head = c.head /\ r.fdb.valid = c.fdb.valid /\ r.blog = c.blog
        BY <1>5, <1>9, <1>11, <1>12, <2>1, <2>4, <3>1, PushForgets
      <3> QED BY <3>2
    <2> QED BY <2>2, <2>3, <2>4
  <1>14. \A x \in c.fdb.index \cup {b} : OnOwn(x, Passed)
    BY <1>4, <1>9 DEF OwnBlocks, OnOwn
  <1>15. ASSUME r.head \in (c.fdb.index \cup {b}) \ c.fdb.valid
         PROVE  r.head \notin Own /\ Anc[r.head] \cap Own \subseteq Passed
    <2>1. r.head \notin Own
      BY <1>9, <1>15 DEF OwnBlocks
    <2> QED BY <1>14, <1>15, <2>1 DEF OnOwn
  <1>16. OwnBlocks(r, built, Passed)
    <2>1. r.fdb.index \cap Own \subseteq r.fdb.valid \cap built
      BY <1>9, <1>13 DEF OwnBlocks
    <2>2. \A x \in r.fdb.index : OnOwn(x, Passed)
      BY <1>13, <1>14
    <2>3. CASE r.head = c.head /\ r.fdb.valid = c.fdb.valid /\ r.blog = c.blog
      BY <1>9, <2>1, <2>2, <2>3 DEF OwnBlocks
    <2>4. CASE /\ r.head \in (c.fdb.index \cup {b}) \ c.fdb.valid
               /\ r.blog \in Anc[r.head]
      <3>1. r.head \notin Own /\ Anc[r.head] \cap Own \subseteq Passed
        BY <1>15, <2>4
      <3>2. r.head \in Block
        BY <1>13, LeadingFacts
      <3>3. Anc[r.blog] \subseteq Anc[r.head]
        BY <2>4, <3>2, AncTransitive
      <3> QED BY <2>1, <2>2, <3>1, <3>3 DEF OwnBlocks
    <2> QED BY <1>13, <2>3, <2>4
  <1>17. /\ r.head \in Own \ Passed => r.head \in tracker.block \cup left
         /\ r.head \notin left
    <2>1. left \subseteq Own
      BY <1>6, <1>9
    <2>2. CASE r.head = c.head
      BY <1>10, <2>2
    <2>3. CASE r.head \in (c.fdb.index \cup {b}) \ c.fdb.valid
      BY <1>15, <2>1, <2>3
    <2> QED BY <1>13, <2>2, <2>3
  <1>18. Core' /\ step' = "loop"
    <2>1. ctl' = r /\ failed' = left
      BY <1>3, <1>4, <1>7, <1>8, <1>12
    <2>2. left = {} \/ left = failed
      BY <1>9
    <2>3. Tracking'
      BY <1>2, <1>4, <2>1, <2>2 DEF Tracking
    <2>4. HeadTracked' /\ Ordered'
      BY <1>2, <1>4, <1>17, <2>1 DEF HeadTracked, Ordered
    <2>5. step' = "loop"
      BY <1>4, <1>13, <2>1 DEF Leading
    <2> QED BY <1>4, <1>13, <1>16, <2>1, <2>3, <2>4, <2>5 DEF Core
  <1>19. PendingOK' /\ Alive'
    BY <1>4, <1>18 DEF PendingOK, Alive
  <1>20. Others'
    BY <1>1, <1>4, <1>18 DEF Others
  <1> QED BY <1>18, <1>19, <1>20 DEF Running

\* remove_head leaves a fork database, whatever was built on the head.
LEMMA RemovedIsForkDb ==
    ASSUME NEW fd \in ForkDb, FdbOK(fd)
    PROVE  RemoveHead(fd) \in ForkDb
  <1>1. PICK valid : valid = fd.valid \ {fd.head}
    OBVIOUS
  <1>2. /\ fd.index \in SUBSET Block /\ valid \in SUBSET Block /\ fd.root \in Block
    BY <1>1 DEF ForkDb
  <1>3. PICK head : head = IF valid = {} THEN fd.root ELSE FirstInIndex(valid)
    OBVIOUS
  <1>4. head \in Block
    BY <1>2, <1>3, FirstInIndexIsFirst
  <1>5. RemoveHead(fd) = [fd EXCEPT !.index = @ \ {fd.head}, !.valid = valid, !.head = head]
    BY <1>1, <1>3 DEF RemoveHead
  <1> QED BY <1>2, <1>4, <1>5 DEF ForkDb

\* shutdown and ~controller: what is not published is taken off.
LEMMA StopOK ==
    ASSUME Running, Stop
    PROVE  Halted'
  <1>1. Core /\ PendingOK /\ Others /\ timer \in Timers
    BY DEF Running, Others
  <1>2. /\ Leading(ctl) /\ OwnBlocks(ctl, built, Passed) /\ Tracking /\ HeadTracked
        /\ Ordered
    BY <1>1 DEF Core
  <1>3. PICK f : f = FailedAtShutdown
    OBVIOUS
  <1>4. /\ step = "idle" /\ step' = "stopped" /\ ctl' = DropUnsigned(AfterAbort(ctl, f))
        /\ failed' = FailedLeft(ctl, f) /\ pending' = {} /\ timer' = NoTimer
        /\ UNCHANGED <<mode, paused, quitting, tracker, signing, signed, posted, built, published,
                       skipped>> /\ Passed' = Passed
    BY <1>3 DEF Stop, signer, Passed
  <1>5. /\ f = IF tracker.block = {} THEN failed ELSE tracker.block
        /\ f \subseteq built \ published
        /\ ctl.head \in f => ctl.head \in Own \ Passed
        /\ f = {} \/ \E x \in Own : f = {x}
    BY <1>2, <1>3 DEF FailedAtShutdown, Tracking, HeadTracked, Passed
  <1>6. PICK c : c = AfterAbort(ctl, f)
    OBVIOUS
  <1>7. PICK left : left = FailedLeft(ctl, f)
    OBVIOUS
  <1>8. /\ Leading(c) /\ OwnBlocks(c, built, Passed)
        /\ \/ /\ ctl.head \in f /\ left = {} /\ Anc[c.head] \cap Own \subseteq Passed
              /\ c.head \in Block
           \/ ctl.head \notin f /\ left = f /\ c = ctl
    BY <1>2, <1>5, <1>6, <1>7, AbortOK
  <1>9. c.head \in Block /\ c.fdb.head = c.head
    BY <1>8, LeadingFacts
  <1>10. Anc[c.head] \cap Own \subseteq Passed /\ c.head \notin left
    <2>1. CASE left = {} /\ Anc[c.head] \cap Own \subseteq Passed
      BY <2>1
    <2>2. CASE ctl.head \notin f /\ left = f /\ c = ctl
      <3>1. ctl.head \notin Own \ Passed
        BY <1>2, <1>5, <2>2 DEF HeadTracked
      <3>2. Anc[ctl.head] \cap Own \subseteq Passed \cup {ctl.head}
        BY <1>2, HeadOnOwn
      <3> QED BY <2>2, <3>1, <3>2
    <2> QED BY <1>8, <2>1, <2>2
  <1>11. PICK d : d = DropUnsigned(c)
    OBVIOUS
  <1>12. ctl' = d /\ failed' = left
    BY <1>4, <1>6, <1>7, <1>11
  <1>13. /\ d \in Controllers /\ d.head \in Block /\ d.db = d.head
         /\ d.outcome \in {"ok", "threw"} /\ Anc[d.head] \cap Own \subseteq Passed
    <2>1. CASE c.fdb.head \in Own \ signed /\ c.head # c.fdb.root
      <3>1. d = DropHead(c)
        BY <1>11, <2>1 DEF DropUnsigned
      <3>2. PICK p : p = Prev[c.head]
        OBVIOUS
      <3>3. PICK q : q = PopTo(c, p)
        OBVIOUS
      <3>4. /\ Sound(c) /\ FdbOK(c.fdb) /\ c.fdb.root = c.blog /\ c.blog \in Anc[c.head]
            /\ c.outcome \in {"ok", "threw"} /\ c.head \in Block \ {Genesis}
        BY <1>8, <1>9, <2>1, LeadingFacts, ProducerAssumption DEF Leading
      <3>5. /\ p \in Block /\ Anc[c.head] = {c.head} \cup Anc[p] /\ p \in Anc[p]
            /\ p \in Anc[c.head] /\ c.blog \in Anc[p]
        BY <2>1, <3>2, <3>4, AncStep, AncBasic, BlockTreeAssumption
      <3>6. Sound(q) /\ q.head = p /\ q.fdb = c.fdb /\ q.outcome = c.outcome
        BY <3>3, <3>4, <3>5, PopToSound
      <3>7. q \in Controllers /\ q.db = p /\ q.fdb \in ForkDb
        BY <3>6, SoundFacts DEF Synced, FdbOK
      <3>8. d = [q EXCEPT !.fdb = RemoveHead(c.fdb)]
        BY <1>9, <3>1, <3>2, <3>3, <3>6, <3>7 DEF DropHead, Controllers
      <3>9. RemoveHead(c.fdb) \in ForkDb
        BY <3>6, <3>7, <3>4, RemovedIsForkDb
      <3>10. /\ d \in Controllers /\ d.head = q.head /\ d.db = q.db /\ d.outcome = q.outcome
        BY <3>7, <3>8, <3>9, Zenon DEF Controllers
      <3> QED BY <1>10, <3>4, <3>5, <3>6, <3>7, <3>10
    <2>2. CASE ~(c.fdb.head \in Own \ signed /\ c.head # c.fdb.root)
      <3>1. d = c
        BY <1>11, <2>2 DEF DropUnsigned
      <3> QED BY <1>8, <1>9, <1>10, <3>1, LeadingFacts DEF Leading
    <2> QED BY <2>1, <2>2
  <1>14. left = {} \/ left = f
    BY <1>8
  <1>15. Tracking'
    BY <1>2, <1>4, <1>5, <1>12, <1>14 DEF Tracking
  <1>16. Others' /\ Ordered'
    BY <1>1, <1>2, <1>4, TimerIs DEF Others, Ordered
  <1> QED BY <1>4, <1>12, <1>13, <1>15, <1>16 DEF Halted

-----------------------------------------------------------------------------
(* The theorems *)

\* A node that has just started
LEMMA InitInv == Init => Inv /\ ~spoiled
  <1>1. SUFFICES ASSUME Init PROVE Inv /\ ~spoiled
    OBVIOUS
  <1>2. /\ Genesis \in Block /\ Genesis \in Anc[Genesis] /\ Num[Genesis] \in Nat
        /\ Genesis \notin Own /\ Genesis \notin Bad
    BY BlockTreeAssumption, AncBasic, Numbers, ProducerAssumption, ControllerAssumption
  <1>3. Anc[Genesis] = {Genesis}
    <2>1. Anc[Genesis] \subseteq {Genesis}
      BY <1>2, AncInduction DEF PrevClosed
    <2> QED BY <1>2, <2>1
  <1>4. PICK fd : fd = ResetTo(Genesis)
    OBVIOUS
  <1>5. /\ FdbOK(fd) /\ fd \in ForkDb /\ fd.root = Genesis /\ fd.index = {} /\ fd.valid = {}
        /\ fd.head = Genesis
    BY <1>2, <1>4, ResetOK DEF FdbOK, ResetTo
  <1>6. PICK c : c = [mode |-> "speculative", fdb |-> fd, head |-> Genesis, sparse |-> TRUE,
                      db |-> Genesis, rev |-> Num[Genesis], base |-> Num[Genesis],
                      blog |-> Genesis, outcome |-> "ok"]
    OBVIOUS
  <1>7. c = NewController("speculative", ResetTo(Genesis), Genesis, Genesis)
    BY <1>4, <1>6 DEF NewController
  <1>8. ctl = [c EXCEPT !.sparse = FALSE]
    BY <1>1, <1>7 DEF Init
  <1>9. c \in Controllers
    BY <1>2, <1>5, <1>6 DEF Controllers, Outcomes
  <1>10. /\ ctl \in Controllers /\ ctl.fdb = fd /\ ctl.head = Genesis /\ ctl.sparse = FALSE
         /\ ctl.db = Genesis /\ ctl.rev = Num[Genesis] /\ ctl.base = Num[Genesis]
         /\ ctl.blog = Genesis /\ ctl.outcome = "ok" /\ ctl.mode = "speculative"
    <2>1. /\ c.fdb = fd /\ c.head = Genesis /\ c.db = Genesis /\ c.rev = Num[Genesis]
          /\ c.base = Num[Genesis] /\ c.blog = Genesis /\ c.outcome = "ok"
          /\ c.mode = "speculative"
      BY <1>6
    <2> QED BY <1>8, <1>9, <2>1, Zenon DEF Controllers
  <1>11. Sound(ctl)
    <2>1. Anc[ctl.blog] \cap Bad = {} /\ ctl.fdb.valid \cap Bad = {}
      BY <1>2, <1>3, <1>5, <1>10
    <2>2. Synced(ctl)
      BY <1>10 DEF Synced
    <2> QED BY <1>5, <1>10, <2>1, <2>2 DEF Sound
  <1>12. Leading(ctl)
    BY <1>5, <1>10, <1>11 DEF Leading, Leads, Irreversible
  <1>13. OwnBlocks(ctl, built, Passed)
    BY <1>1, <1>2, <1>3, <1>5, <1>10 DEF OwnBlocks, Passed
  <1>14. Tracking /\ HeadTracked /\ Ordered
    BY <1>1, <1>2, <1>10 DEF Init, Tracking, HeadTracked, Ordered, Passed
  <1>15. PendingOK /\ Alive
    BY <1>1 DEF Init, PendingOK, Alive
  <1>16. Others
    BY <1>1 DEF Init, Others, NoTimer, Timers
  <1>17. ~spoiled
    BY <1>1 DEF Init
  <1> QED BY <1>12, <1>13, <1>14, <1>15, <1>16, <1>17 DEF Inv, Running, Core

\* A switch that could not be taken back is not forgotten.
LEMMA NotSpoiledBefore ==
    ASSUME [Next]_vars, ~spoiled'
    PROVE  ~spoiled
  <1>1. CASE \E b \in Block \ Own : ReceiveBlock(b)
    BY <1>1 DEF ReceiveBlock
  <1>2. CASE \E b \in Own : ProduceBlock(b) \/ Sign(b)
    BY <1>2 DEF ProduceBlock, MaybeProduce, Sign
  <1>3. CASE \/ WaitForBlock \/ WaitForProduction \/ StartBlock \/ StartFails
             \/ ProcessUnapplied \/ ProcessCompleting
             \/ Expire \/ LoopTimer \/ ProduceLater \/ ProduceThrows
             \/ CompletionTask
             \/ BlockExhausted \/ RestartBlock \/ Pause \/ Resume \/ Stop
    BY <1>3 DEF WaitForBlock, WaitForProduction, ReturnEarly, StartBlock, StartFails,
           ProcessUnapplied, ProcessCompleting, Expire, LoopTimer, ProduceLater, ProduceThrows,
           MaybeProduce, CompletionTask, BlockExhausted, RestartBlock, Pause, Resume, Stop, signer
  <1>4. CASE UNCHANGED vars
    BY <1>4 DEF vars
  <1> QED BY <1>1, <1>2, <1>3, <1>4 DEF Next

\* A stopped node does nothing more.
LEMMA StoppedStays ==
    ASSUME step = "stopped", [Next]_vars
    PROVE  UNCHANGED vars
  <1>1. ~(\E b \in Block \ Own : ReceiveBlock(b))
    BY DEF ReceiveBlock
  <1>2. ~(\E b \in Own : ProduceBlock(b) \/ Sign(b))
    BY DEF ProduceBlock, MaybeProduce, Sign
  <1>3. ~(\/ WaitForBlock \/ WaitForProduction \/ StartBlock \/ StartFails
          \/ ProcessUnapplied \/ ProcessCompleting
          \/ Expire \/ LoopTimer \/ ProduceLater \/ ProduceThrows
          \/ CompletionTask
          \/ BlockExhausted \/ RestartBlock \/ Pause \/ Resume \/ Stop)
    BY DEF WaitForBlock, WaitForProduction, ReturnEarly, StartBlock, StartFails, StartOn,
           ProcessUnapplied, ProcessCompleting, Expire, LoopTimer, ProduceLater, ProduceThrows,
           MaybeProduce, CompletionTask, BlockExhausted, RestartBlock, Pause, Resume, Stop
  <1> QED BY <1>1, <1>2, <1>3 DEF Next

\* Every step keeps the invariant, unless it spoils the node.
LEMMA InvStep ==
    ASSUME Inv, [Next]_vars, ~spoiled'
    PROVE  Inv'
  <1>1. CASE Halted
    <2>1. UNCHANGED vars
      BY <1>1, StoppedStays DEF Halted
    <2>2. Passed' = Passed
      BY <2>1 DEF vars, Passed
    <2>3. Halted'
      BY <1>1, <2>1, <2>2 DEF vars, Halted, Tracking, Ordered, Others
    <2> QED BY <2>3 DEF Inv
  <1>2. CASE Running
    <2>1. CASE \/ WaitForBlock \/ WaitForProduction \/ ProcessUnapplied \/ Expire
               \/ LoopTimer \/ ProduceLater \/ Pause
      BY <1>2, <2>1, QuietOK DEF Inv
    <2>2. CASE StartBlock \/ StartFails
      BY <1>2, <2>2, StartOK DEF Inv
    <2>3. CASE ProduceThrows \/ BlockExhausted \/ RestartBlock \/ Resume
      BY <1>2, <2>3, AbortInv DEF Inv
    <2>4. ASSUME NEW b \in Own, ProduceBlock(b) \/ Sign(b) PROVE Inv'
      BY <1>2, <2>4, ProduceBlockOK, SignOK DEF Inv
    <2>5. CASE ProcessCompleting
      BY <1>2, <2>5, ProcessCompletingOK DEF Inv
    <2>6. CASE CompletionTask
      BY <1>2, <2>6, CompletionTaskOK DEF Inv
    <2>7. ASSUME NEW b \in Block \ Own, ReceiveBlock(b) PROVE Inv'
      BY <1>2, <2>7, ReceiveBlockOK DEF Inv
    <2>8. CASE Stop
      BY <1>2, <2>8, StopOK DEF Inv
    <2>9. CASE UNCHANGED vars
      <3>1. Core'
        BY <1>2, <2>9, CoreKept DEF vars, Running, Alive
      <3>2. PendingOK' /\ Others' /\ Alive'
        BY <1>2, <2>9 DEF vars, Running, PendingOK, Others, Alive
      <3> QED BY <3>1, <3>2 DEF Inv, Running
    <2> QED BY <2>1, <2>2, <2>3, <2>4, <2>5, <2>6, <2>7, <2>8, <2>9 DEF Next
  <1> QED BY <1>1, <1>2 DEF Inv

\* At most one block.
LEMMA AtMostOneIs ==
    ASSUME NEW S, S = {} \/ \E x \in Block : S = {x}
    PROVE  S \subseteq Block /\ Cardinality(S) <= 1
  <1>1. CASE S = {}
    BY <1>1, FS_EmptySet
  <1>2. CASE \E x \in Block : S = {x}
    BY <1>2, FS_Singleton
  <1> QED BY <1>1, <1>2

\* The invariant contains what the run calls Consistent.
LEMMA InvConsistent == Inv => Consistent
  <1>1. SUFFICES ASSUME Inv PROVE Consistent
    OBVIOUS
  <1>2. /\ Tracking /\ Others /\ ctl \in Controllers /\ ctl.head \in Block
        /\ ctl.db = ctl.head
        /\ pending = {} \/ pending = {ctl.head}
    <2>1. CASE Running
      BY <2>1, LeadingFacts DEF Running, Core, PendingOK
    <2>2. CASE Halted
      BY <2>2 DEF Halted
    <2> QED BY <1>1, <2>1, <2>2 DEF Inv
  <1>3. pending = {} \/ \E x \in Block : pending = {x}
    BY <1>2
  <1>4. failed = {} \/ \E x \in Block : failed = {x}
    BY <1>2, ProducerAssumption DEF Tracking
  <1>5. tracker.block = {} \/ \E x \in Block : tracker.block = {x}
    BY <1>2, ProducerAssumption DEF Tracking
  <1>6. /\ pending \subseteq Block /\ Cardinality(pending) <= 1
        /\ Cardinality(failed) <= 1 /\ Cardinality(tracker.block) <= 1
    BY <1>3, <1>4, <1>5, AtMostOneIs
  <1>7. TypeOK
    <2>1. signing \subseteq built /\ failed \subseteq Own
      BY <1>2 DEF Tracking
    <2> QED BY <1>2, <1>6, <2>1 DEF TypeOK, Others
  <1>8. OneBlockInFlight
    BY <1>2, <1>6 DEF OneBlockInFlight, Tracking
  <1>9. PendingOnHead
    BY <1>2 DEF PendingOnHead
  <1> QED BY <1>7, <1>8, <1>9 DEF Consistent

\* Inv holds until a switch fails that cannot be taken back.
THEOREM ProducerInvariant == Spec => [](~spoiled => Inv)
  <1>1. (~spoiled => Inv) /\ [Next]_vars => (~spoiled => Inv)'
    BY InvStep, NotSpoiledBefore
  <1> QED BY <1>1, InitInv, PTL DEF Spec

\* Signing, the tracker, the pending block and the controller fit together whatever is
\* aborted, popped, received or forgotten in between: at most one block is in flight and
\* the pending block is built on the head.
THEOREM ProducerConsistent == Spec => []Consistent
  <1>1. (~spoiled => Inv) => Consistent
    BY InvConsistent DEF Consistent
  <1> QED BY <1>1, ProducerInvariant, PTL

\* Neither add_to_fork_db, remove_head nor log_irreversible asserts something false: the
\* block just built is the head, and the block taken off is.
THEOREM ProducerAssertionsHold == Spec => []AssertionsHold
  <1>1. (~spoiled => Inv) => AssertionsHold
    BY DEF Inv, Running, Core, Leading, Halted, AssertionsHold
  <1> QED BY <1>1, ProducerInvariant, PTL

\* An own block is published once the own blocks under it are, except for those that
\* failed and were produced on since a transaction filled the pending block.
THEOREM PublishesInOrder == Spec => []PublishedOnPublished
  <1>1. (~spoiled => Inv) => PublishedOnPublished
    BY DEF Inv, Running, Core, Halted, Ordered, Passed, PublishedOnPublished, OnPassed
  <1> QED BY <1>1, ProducerInvariant, PTL

\* A node that was shut down starts again from what its peers know, or can learn from
\* what was published.
THEOREM LeavesNothingUnpublished == Spec => []StopsOnPublished
  <1>1. (~spoiled => Inv) => StopsOnPublished
    BY DEF Inv, Running, Alive, Halted, Passed, StopsOnPublished, OnPassed
  <1> QED BY <1>1, ProducerInvariant, PTL
=============================================================================
