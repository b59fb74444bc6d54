----------------------------- MODULE ProducerHA -----------------------------
(***************************************************************************)
(* A group of producers that share one producer account and agree on its   *)
(* blocks through Raft (plugins/producer_ha_plugin, and where the producer *)
(* plugin calls it).  The leader builds a block on its chain at once; the  *)
(* signing thread then commits the block to the group, and the block is    *)
(* published if that succeeds and taken out of the chain if it does not.   *)
(* Each node hands the blocks that were committed to its main thread.      *)
(*                                                                         *)
(* The Raft library (NuRaft) is external, and so are the messages of the   *)
(* group: what the nodes see of it is a log of committed entries, learnt   *)
(* one by one, at most one leader for each term, deposed leaders that do   *)
(* not know it yet, and entries that were not committed, which a later     *)
(* leader may have in its log and commit, or not.                          *)
(*                                                                         *)
(* Producer has the rest of the production loop, its timers and the end of *)
(* a node; here the loop's timer may expire at any time.                   *)
(***************************************************************************)
EXTENDS Controller, Sequences

CONSTANTS
    Node,
    Builder,        \* Builder[b]: the nodes that may build block b
    MaxTerm,        \* bound on the elections
    First,          \* the node that wins the first one
    Gossip,         \* blocks that were published also arrive from peers
    Beyond          \* bound: the group is followed beyond the first time that
                    \* can_produce is bypassed, see astray

ASSUME ProducerHAAssumption ==
    /\ Builder \in [Block \ {Genesis} -> SUBSET Node]
    /\ MaxTerm \in Nat /\ First \in Node
    /\ Gossip \in BOOLEAN /\ Beyond \in BOOLEAN

VARIABLES
    node,       \* what the main thread of each node works on, see Nodes
    job,        \* the signing thread: "none", "signing", or "waiting" for the group
    tasks,      \* the committed blocks posted to the main thread
    term,       \* the last term a leader was elected for
    lead,       \* the term a node believes it leads, or 0
    tail,       \* the entries of a node's log after the committed ones
    clog,       \* the committed entries
    done,       \* how many of these a node has applied
    built,      \* every block built so far: an id never comes back
    published,  \* the blocks some node has announced to the network
    astray      \* history: can_produce was bypassed, see Elect and ProduceBlock

raft == <<term, lead, tail, clog, done>>
vars == <<node, job, tasks, raft, built, published, astray>>

\* pending  {the block the pending block is built on}, or {}; for one that start_block
\*          began to produce, with the consent of can_produce
\* spare    the same for one that was begun to speculate, or on a block that failed
\* mode     _pending_block_mode
\* tracker  the status of _produce_block_tracker, its block, and whether its future
\*          will not throw
\* failed   completing_failed_blockid
\* succ     completing_succeeded_blockid
\* quit     app().quit() was called
Nodes ==
    [ctl : Controllers, pending : SUBSET Block, spare : SUBSET Block,
     mode : {"producing", "speculating"},
     tracker : [status : {"none", "pending", "ready"}, block : SUBSET Block, ok : BOOLEAN],
     failed : SUBSET Block, succ : SUBSET Block, quit : BOOLEAN]

\* A cluster configuration has no block.
Entry(t, bs) == [term |-> t, block |-> bs]
Entries == [term : 1..MaxTerm, block : SUBSET Block]

NoTracker == [status |-> "none", block |-> {}, ok |-> FALSE]

Init ==
    /\ node = [n \in Node |->
                 [ctl |-> [NewController("speculative", ResetTo(Genesis), Genesis, Genesis)
                             EXCEPT !.sparse = FALSE],
                  pending |-> {}, spare |-> {}, mode |-> "speculating", tracker |-> NoTracker,
                  failed |-> {}, succ |-> {}, quit |-> FALSE]]
    /\ job = [n \in Node |-> "none"]
    /\ tasks = [n \in Node |-> <<>>]
    /\ term = 0
    /\ lead = [n \in Node |-> 0]
    /\ tail = [n \in Node |-> <<>>]
    /\ clog = <<>>
    /\ done = [n \in Node |-> 0]
    /\ built = {}
    /\ published = {}
    /\ astray = FALSE

-----------------------------------------------------------------------------
(* Raft *)

\* The block that a node built, or was to build, as the last leader is not on its hands any
\* more: it was completed and, if that failed, taken out of the chain.
Settled(n) ==
    /\ node[n].pending = {} /\ node[n].tracker.status = "none"
    /\ ~Aborts(node[n].failed \ node[n].succ, node[n].ctl)

\* A node is elected, with entries of its own or of another node in its log that were
\* not committed, and adds a configuration of its term.
Elect(n) ==
    /\ term < MaxTerm /\ lead[n] = 0
    /\ term = 0 => n = First
    /\ term' = term + 1
    /\ lead' = [lead EXCEPT ![n] = term + 1]
    /\ \E m \in Node : \E k \in 0..Len(tail[m]) :
          tail' = [tail EXCEPT ![n] = Append(SubSeq(tail[m], 1, k), Entry(term + 1, {}))]
    /\ astray' = (astray \/ ~Settled(n))
    /\ UNCHANGED <<node, job, tasks, clog, done, built, published>>

\* The term of the last of k committed entries
TermAt(k) == IF k = 0 THEN 0 ELSE clog[k].term

\* What a leader appends stays uncommitted; once the group has committed entries of a
\* later leader, it cannot be committed at all.
Appended(n, e) ==
    IF TermAt(Len(clog)) > lead[n] THEN tail ELSE [tail EXCEPT ![n] = Append(@, e)]

\* A leader learns that there is a later one.
StepDown(n) ==
    /\ lead[n] \in 1..term-1
    /\ lead' = [lead EXCEPT ![n] = 0]
    /\ UNCHANGED <<node, job, tasks, term, tail, clog, done, built, published, astray>>

\* The group commits the next entry of the leader's log: a log with another entry in
\* its place cannot win an election.
GroupCommits(n) ==
    /\ lead[n] = term /\ tail[n] # <<>>
    /\ clog' = Append(clog, Head(tail[n]))
    /\ tail' = [m \in Node |->
                  IF tail[m] # <<>> /\ Head(tail[m]) = Head(tail[n]) THEN Tail(tail[m]) ELSE <<>>]
    /\ UNCHANGED <<node, job, tasks, term, lead, done, built, published, astray>>

-----------------------------------------------------------------------------
(* producer_ha_plugin and nodeos_state_machine *)

\* The head block of the state machine: {} before the first.
RaftHead(n) ==
    LET at == {i \in 1..done[n] : clog[i].block # {}}
    IN  IF at = {} THEN {} ELSE clog[CHOOSE i \in at : \A j \in at : j <= i].block

IsLeader(n, nd) == ~nd.quit /\ lead[n] # 0

\* Mutant: the entries of earlier terms may not have been applied yet.
CanProduceAnyTerm(n, nd) == IsLeader(n, nd) /\ RaftHead(n) \subseteq {nd.ctl.head}

CanProduce(n, nd) ==
    /\ IsLeader(n, nd)
    /\ lead[n] <= TermAt(done[n])
    /\ RaftHead(n) \subseteq {nd.ctl.head}

\* commit_raft_log, in a thread of the library: the head of the state machine moves, the
\* main thread is told.  An entry of a later term tells a leader that it was deposed.
CommitRaftLog(n) ==
    /\ done[n] < Len(clog)
    /\ done' = [done EXCEPT ![n] = @ + 1]
    /\ lead' = [lead EXCEPT ![n] = IF clog[done[n] + 1].term > @ THEN 0 ELSE @]
    /\ \E bs \in {clog[done[n] + 1].block} :
         IF bs = {} THEN UNCHANGED tasks
         ELSE tasks' = [tasks EXCEPT ![n] = Append(@, CHOOSE b \in bs : TRUE)]
    /\ UNCHANGED <<node, job, term, tail, clog, built, published, astray>>

\* The signing thread is done: the exit handler makes the tracker ready.
Signed(n, ok) ==
    /\ job' = [job EXCEPT ![n] = "none"]
    /\ node' = [node EXCEPT ![n].tracker.status = "ready", ![n].tracker.ok = ok]

\* commit_head_block, up to the wait.  The signature may fail; a node that quits or does
\* not lead is refused, and resigns.
CommitHeadBlock(n) ==
    /\ job[n] = "signing"
    /\ \/ /\ ~node[n].quit /\ lead[n] # 0
          /\ job' = [job EXCEPT ![n] = "waiting"]
          /\ tail' = Appended(n, Entry(lead[n], node[n].tracker.block))
          /\ UNCHANGED <<node, lead>>
       \/ /\ Signed(n, FALSE)
          /\ UNCHANGED <<lead, tail>>
       \/ /\ ~node[n].quit /\ lead[n] = 0
          /\ Signed(n, FALSE)
          /\ UNCHANGED <<lead, tail>>
    /\ UNCHANGED <<tasks, term, clog, done, built, published, astray>>

\* The result: this node has applied the entry; or the wait timed out or was cancelled,
\* and the node resigns, whatever becomes of the entry.
CommitResult(n) ==
    /\ job[n] = "waiting"
    /\ \/ /\ \E i \in 1..done[n] : clog[i].block = node[n].tracker.block
          /\ Signed(n, TRUE)
          /\ UNCHANGED lead
       \/ /\ Signed(n, FALSE)
          /\ lead' = [lead EXCEPT ![n] = 0]
    /\ UNCHANGED <<tasks, term, tail, clog, done, built, published, astray>>

-----------------------------------------------------------------------------
(* What the handlers of the main thread do with a node *)

\* abort_block: a block that failed, unless it was committed after all, leaves the chain.
Aborted(nd) ==
    LET drop == nd.failed \ nd.succ
    IN  [nd EXCEPT !.pending = {}, !.spare = {},
                   !.ctl = AfterAbort(@, drop),
                   !.failed = IF Aborts(drop, nd.ctl) THEN {} ELSE @]

\* Mutant: the result of the group is not looked at.
CompletedAnyway(nd) ==
    [nd EXCEPT !.tracker = NoTracker,
               !.ctl = LogIrreversible([@ EXCEPT !.outcome = "ok"], {}, MaxNum)]

\* complete_produced_block: the irreversible blocks are logged, or the block has failed.
Completed(nd) ==
    LET c == LogIrreversible([nd.ctl EXCEPT !.outcome = "ok"], {}, MaxNum)
    IN  IF ~nd.tracker.ok THEN [nd EXCEPT !.tracker = NoTracker, !.failed = nd.tracker.block]
        ELSE [nd EXCEPT !.tracker = NoTracker, !.ctl = c,
                        !.failed = IF c.outcome = "ok" THEN @ ELSE nd.tracker.block]
HasFailed(nd, b) == nd.failed = b

\* A node, and the blocks it announces
Result(nd, bs) == [nd |-> nd, announced |-> bs]

\* The check of producer_ha in start_block
Starting(n, nd, mode) == IF IsLeader(n, nd) THEN CanProduce(n, nd) ELSE mode = "speculating"

\* start_block begins a block.
Started(nd, mode) ==
    LET a == Aborted(nd)
    IN  [a EXCEPT !.mode = mode,
                  !.pending = IF mode = "producing" THEN {a.ctl.head} ELSE {},
                  !.spare = IF mode = "producing" THEN {} ELSE {a.ctl.head}]

\* It then may complete the last block.  If that fails, the loop is to run again; until
\* then the pending block stays, on the block that failed.
StartedAndCompleted(nd) ==
    LET c == Completed(nd)
    IN  IF HasFailed(c, nd.tracker.block)
        THEN Result([c EXCEPT !.pending = {}, !.spare = c.pending \cup c.spare], {})
        ELSE Result(c, nd.tracker.block)

\* start_block returns early, before abort_block and mostly with the mode set: too early,
\* not its turn, the head too old; or this node leads but has to wait for the group.  The
\* pending block, if there is one, stays, whatever it was begun for.
NotStarted(nd) ==
    {Result([nd EXCEPT !.mode = mode], {}) : mode \in {"producing", "speculating"}}

\* schedule_production_loop
Looped(n, nd) ==
    LET started == {Started(nd, mode) : mode \in {m \in {"producing", "speculating"} :
                                                     Starting(n, nd, m)}}
    IN  NotStarted(nd)
          \cup {Result(s, {}) : s \in started}
          \cup {StartedAndCompleted(s) : s \in {x \in started : x.tracker.status = "ready"}}

\* A step of the main thread of n that has the result r
Main(n, r) ==
    /\ node' = [node EXCEPT ![n] = [r.nd EXCEPT !.quit = @ \/ r.nd.ctl.outcome = "assert"]]
    /\ published' = published \cup r.announced
    /\ UNCHANGED raft

\* One that ends with the production loop
MainThenLoop(n, r) ==
    \E l \in Looped(n, r.nd) : Main(n, Result(l.nd, r.announced \cup l.announced))

-----------------------------------------------------------------------------
(* Incoming and committed blocks *)

\* Mutant: a node that produces refuses blocks without asking whether it still may.
DroppedWhileProducing(n, b) ==
    \/ node[n].mode = "producing"
    \/ CanProduce(n, node[n]) /\ \E r \in RaftHead(n) : Num[r] = Num[b] /\ r # b

\* on_incoming_block refuses b.
Dropped(n, b) ==
    /\ CanProduce(n, node[n])
    /\ \/ node[n].mode = "producing"
       \/ \E r \in RaftHead(n) : \/ Num[r] < Num[b] - 1
                                 \/ Num[r] = Num[b] - 1 /\ Prev[b] # r
                                 \/ Num[r] = Num[b] /\ r # b
HasBlock(c, b) == b \in c.fdb.index \cup Anc[c.blog]

\* The node once a block that is neither refused nor known was pushed, up to the loop.
Pushed(nd, b) ==
    LET a == Aborted(nd)
    IN  [a EXCEPT !.ctl = IF CanAdd(@.fdb, b) THEN PushBlock(@, b, {}, MaxNum)
                          ELSE Ended(@, "threw")]

\* accepted_block: the blocks that were applied are announced, not one that only ties.
NewlyApplied(nd, r) == Anc[r.ctl.head] \ Anc[Aborted(nd).ctl.head]

\* A block arrives from a peer.
ReceiveBlock(n, b) ==
    /\ Gossip
    /\ b \in published
    /\ ~Dropped(n, b) /\ ~HasBlock(node[n].ctl, b)
    /\ \E r \in {Pushed(node[n], b)} : MainThenLoop(n, Result(r, NewlyApplied(node[n], r)))
    /\ UNCHANGED <<job, tasks, built, astray>>

\* Mutant: a committed block that is already the head may still be aborted.
CommittedHeadUnmarked(n, b) ==
    /\ node[n].ctl.head = b
    /\ Main(n, Result(node[n], {}))

\* The task posted by commit_raft_log.  The block is the head already,
CommittedHead(n, b) ==
    /\ node[n].ctl.head = b
    /\ Main(n, Result([node[n] EXCEPT !.succ = {b}], {}))

\* or is skipped,
Skips(c, b) == b # c.head /\ Num[b] \notin {Num[c.head], Num[c.head] + 1}
CommittedSkipped(n, b) ==
    /\ Skips(node[n].ctl, b)
    /\ Main(n, Result(node[n], {}))

\* or is accepted in place of the head or on it, after which it is the one that succeeded;
\* a node that does not accept it quits.
CommittedAccepted(n, b) ==
    LET pushed == Pushed(node[n], b)
    IN  /\ node[n].ctl.head # b /\ ~Skips(node[n].ctl, b)
        /\ IF Dropped(n, b) \/ HasBlock(node[n].ctl, b)
           THEN Main(n, Result([node[n] EXCEPT !.quit = TRUE], {}))
           ELSE \E l \in Looped(n, pushed) :
                  LET all == l.announced \cup NewlyApplied(node[n], pushed)
                  IN  Main(n, IF pushed.ctl.outcome = "threw"
                              THEN Result([l.nd EXCEPT !.quit = TRUE], all)
                              ELSE Result([l.nd EXCEPT !.succ = {b}], all))

CommitTask(n) ==
    /\ tasks[n] # <<>>
    /\ tasks' = [tasks EXCEPT ![n] = Tail(@)]
    /\ \E b \in {Head(tasks[n])} :
          CommittedHead(n, b) \/ CommittedSkipped(n, b) \/ CommittedAccepted(n, b)
    /\ UNCHANGED <<job, built, astray>>

-----------------------------------------------------------------------------
(* Producing *)

\* The task the signing thread posted
CompletionTask(n) ==
    /\ node[n].tracker.status = "ready"
    /\ \E nd \in {Completed(node[n])} :
         IF HasFailed(nd, node[n].tracker.block) THEN Main(n, Result(Aborted(nd), {}))
         ELSE Main(n, Result(nd, node[n].tracker.block))
    /\ UNCHANGED <<job, tasks, built, astray>>

\* The timer of the loop; maybe_produce_block while the last block is in flight; a handler
\* that gives up the pending block.
LoopTimer(n) ==
    /\ \E nd \in {node[n], Aborted(node[n])} : MainThenLoop(n, Result(nd, {}))
    /\ UNCHANGED <<job, tasks, built, astray>>

\* maybe_produce_block, produce_block, by the timer or because a transaction filled the
\* pending block: one that was begun for something else is produced as well.  Whether this
\* node leads, or still does, is not asked.
ProduceBlock(n, b) ==
    /\ node[n].tracker.status = "none" /\ node[n].mode = "producing"
    /\ n \in Builder[b] /\ b \notin built /\ Prev[b] \in node[n].pending \cup node[n].spare
    /\ astray' = (astray \/ Prev[b] \in node[n].spare)
    /\ MainThenLoop(n, Result([node[n] EXCEPT
                                 !.pending = {}, !.spare = {}, !.ctl = Built(@, b),
                                 !.tracker = [status |-> "pending", block |-> {b}, ok |-> FALSE]],
                              {}))
    /\ job' = [job EXCEPT ![n] = "signing"]
    /\ built' = built \cup {b}
    /\ UNCHANGED tasks

-----------------------------------------------------------------------------
Next ==
    /\ Beyond \/ ~astray
    /\ \E n \in Node :
        \/ Elect(n) \/ StepDown(n) \/ GroupCommits(n)
        \/ CommitRaftLog(n) \/ CommitHeadBlock(n) \/ CommitResult(n)
        \/ CommitTask(n) \/ CompletionTask(n) \/ LoopTimer(n)
        \/ \E b \in Block \ {Genesis} : ReceiveBlock(n, b) \/ ProduceBlock(n, b)

\* The library applies what the group has committed, and peers send a node the published
\* blocks that it links and does not refuse (written without ENABLED).  Nothing is assumed
\* of the signing thread, of elections or of the tasks of the main thread.
Undelivered(n) ==
    \E b \in published : CanAdd(Aborted(node[n]).ctl.fdb, b) /\ ~Dropped(n, b)
Fairness(n) == WF_vars(CommitRaftLog(n)) /\ []<>~Undelivered(n)

Spec == Init /\ [][Next]_vars /\ \A n \in Node : Fairness(n)

-----------------------------------------------------------------------------
(* Properties *)

\* Types; a node's tracker is pending exactly while its signing thread has a job.
TypeOK ==
    /\ node \in [Node -> Nodes]
    /\ \A n \in Node :
         /\ job[n] \in {"none", "signing", "waiting"}
         /\ job[n] = "none" <=> node[n].tracker.status # "pending"
         /\ lead[n] \in 0..term /\ done[n] \in 0..Len(clog)
         /\ \A i \in DOMAIN tasks[n] : tasks[n][i] \in Block
         /\ \A i \in DOMAIN tail[n] : tail[n][i] \in Entries
    /\ \A i \in DOMAIN clog : clog[i] \in Entries
    /\ term \in 0..MaxTerm
    /\ published \subseteq built

\* "If there are conflicting blocks, one and only one will be broadcast and visible to the
\* blockchain network."
OnePublished == \A a, b \in published : Num[a] = Num[b] => a = b

\* This is so until can_produce is bypassed for the first time: a node produces a block that
\* start_block did not begin in order to produce it, or on one that failed, or is elected
\* while it has the last one it built on its hands.  Until then deposed leaders, lost
\* results and entries that are committed late publish no second block of a number.
PublishedAgree == ~astray => OnePublished

\* The blocks the group has committed
Committed == UNION {clog[i].block : i \in DOMAIN clog}

\* A block is announced only after the group committed it.
PublishedIsCommitted == published \subseteq Committed

\* The chain of a node has at most one block the group did not commit: the one that is in
\* flight, or has failed and is about to go.
ChainIsCommitted ==
    \A n \in Node :
        Anc[node[n].ctl.head] \subseteq
            Committed \cup {Genesis} \cup node[n].tracker.block \cup node[n].failed

\* What nodes announce and build on is what the group committed, through elections,
\* deposed leaders and entries that are committed late, until can_produce is bypassed.
Consistent == ~astray => TypeOK /\ PublishedIsCommitted /\ ChainIsCommitted

\* "Chain plugin did not accept block. Should not happen.": the task of a committed block
\* never makes its node quit.
CommittedIsAccepted == \A n \in Node : ~node[n].quit

\* A block that was committed and handed to the main thread stays on the chain it is on,
\* even if the node that built it was told that committing it failed; until can_produce is
\* bypassed and a second block of its number may be committed.
Handled(n) ==
    {b \in Block : /\ \E i \in 1..done[n] : clog[i].block = {b}
                   /\ \A i \in DOMAIN tasks[n] : tasks[n][i] # b}
CommittedStays ==
    [][~astray' =>
         \A n \in Node :
            Handled(n) \cap Anc[node[n].ctl.head] \subseteq Anc[node'[n].ctl.head]]_vars

\* A published block that has a published successor gets onto the chain of every node,
\* whatever that node had built in its place.
Lagging(n) ==
    \E b, c \in published : c # b /\ Prev[c] = b /\ b \notin Anc[node[n].ctl.head]
NodesCatchUp == \A n \in Node : []<>(~Lagging(n) \/ node[n].quit)
=============================================================================
