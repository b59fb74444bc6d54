------------------------------ MODULE PeerSync ------------------------------
(***************************************************************************)
(* A node that catches up with its peers: the connections of the net       *)
(* plugin (connection.cpp) around the sync manager.  Each connection has   *)
(* a strand, on which its messages, its timer and the tasks posted to it   *)
(* run one at a time; blocks are applied in the main thread; the events of *)
(* the state machine are serialised by its mutex, which other calls of the *)
(* sync manager do not take.                                               *)
(*                                                                         *)
(* The peers run the same code and all have one chain, 1, 2, ...: peer c   *)
(* has PeerHead[c] blocks, the first PeerLib[c] irreversible.  A message   *)
(* takes its effect on the peer when the strand sends it; what the peer    *)
(* sends back waits in "inbox".                                            *)
(***************************************************************************)
EXTENDS SyncManager, SequencesExt

CONSTANTS
    PeerHead, PeerLib,
    MaxFaults,      \* bound on the disconnects, the timeouts of a peer that still
                    \* answers, the blocks that a peer fails to fetch, and those that
                    \* a peer announces before their turn
    MaxQueue        \* bound on the messages of one peer on their way, and on the blocks
                    \* that wait for the main thread

Best == Max({PeerHead[c] : c \in Conns})

ASSUME PeerSyncAssumption ==
    /\ PeerHead \in [Conns -> Nat \ {0}] /\ PeerLib \in [Conns -> Nat \ {0}]
    /\ \A c \in Conns : PeerLib[c] <= PeerHead[c]
    \* no peer is so far behind that this node would have to serve it
    /\ \A c \in Conns : Best - Lag <= PeerHead[c] + 1
    /\ MaxFaults \in Nat /\ MaxQueue \in Nat \ {0}

VARIABLES
    s,          \* the sync manager
    head,       \* the number of the head block
    con,        \* the connections, see Connections
    app,        \* the blocks posted to the main thread: <<connection, number>>
    busy,       \* the main thread is about to apply the first of them
    seen,       \* blk_state of the dispatcher, <<number, connection>>, for numbers
                \* beyond the last irreversible block
    refused,    \* history: the blocks refused so far, as the one before them was missing
    faults      \* the faults so far

vars == <<s, head, con, app, busy, seen, refused, faults>>

\* What the strands leave to the main thread
chain == <<head, busy, refused>>

Num == 0..Best + Span + 1

\* status    closed; connecting, until the peer's handshake is here; up
\* lib       last_handshake_recv.last_irreversible_block_num
\* sentLib   last_handshake_sent.last_irreversible_block_num
\* forkHead  fork_head_num
\* timer     response_expected_timer runs
\* tasks     what is posted to the strand
\* inbox     the messages on their way from the peer
\* greeted   the peer has sent a handshake
\* asked     peer_requested of the peer: {<<last, end>>}, or {}
Task(type, from, to) == [type |-> type, from |-> from, to |-> to]
Connections ==
    [status : {"closed", "connecting", "up"}, lib : Num, sentLib : Num, forkHead : Num,
     timer : BOOLEAN,
     tasks : Seq([type : {"handshake", "request", "close", "applied", "known", "rejected",
                          "head_catchup"}, from : Num, to : Num]),
     inbox : Seq([type : {"handshake", "lib", "catch_up", "go_away", "block"}, num : Num]),
     greeted : BOOLEAN, asked : SUBSET (Num \X Num)]

Closed ==
    [status |-> "closed", lib |-> 0, sentLib |-> 0, forkHead |-> 0, timer |-> FALSE,
     tasks |-> <<>>, inbox |-> <<>>, greeted |-> FALSE, asked |-> {}]

Init ==
    /\ s = NewSyncManager
    /\ head = 1
    /\ con = [c \in Conns |-> Closed]
    /\ app = <<>>
    /\ busy = FALSE
    /\ seen = {}
    /\ refused = {}
    /\ faults = 0

Lib == LibOf(head)

-----------------------------------------------------------------------------
(* Posting, sending and the peers *)

\* A task that already waits is not posted twice.
Posted(cn, c, t) ==
    IF Contains(cn[c].tasks, t) THEN cn ELSE [cn EXCEPT ![c].tasks = Append(@, t)]

Handshake == Task("handshake", 0, 0)
Close == Task("close", 0, 0)

SendHandshakes(cn) ==
    [c \in Conns |-> IF Current(cn, c) THEN Posted(cn, c, Handshake)[c] ELSE cn[c]]

Message(type, n) == [type |-> type, num |-> n]

\* What the peer answers to a handshake of this node (process_handshake of the peer).
Answer(c) ==
    IF head = PeerHead[c] THEN <<>>
    ELSE IF PeerHead[c] < Lib THEN <<Message("handshake", 0)>>
    ELSE IF PeerLib[c] > head + 1 THEN <<Message("lib", 0)>>
    ELSE IF PeerHead[c] >= head + 1 THEN <<Message("catch_up", 0)>> ELSE <<>>

\* At most one message, unless it is already on its way.
Fresh(cn, c, ms) == IF ms # <<>> /\ Contains(cn[c].inbox, ms[1]) THEN <<>> ELSE ms

\* Sending on a closed connection closes it once more.
HandshakeSent(cn, c) ==
    IF cn[c].status = "closed" THEN Posted(cn, c, Close)
    ELSE LET first == IF cn[c].greeted THEN <<>> ELSE <<Message("handshake", 0)>>
             new   == Fresh(cn, c, first) \o Fresh(cn, c, Answer(c))
         IN  [cn EXCEPT ![c].sentLib = Lib, ![c].greeted = TRUE, ![c].inbox = @ \o new]

\* The peer's handle_message(sync_request_message): a range that it is still sending is
\* only made longer.
RequestSent(cn, c, from, to) ==
    IF cn[c].status = "closed" THEN Posted(cn, c, Close)
    ELSE [cn EXCEPT ![c].asked = IF @ = {} THEN {<<from - 1, to>>}
                                 ELSE {<<a[1], Max({a[2], to})>> : a \in @}]

\* sync_request_message{0, 0}
CancelSent(cn, c) ==
    IF cn[c].status = "closed" THEN Posted(cn, c, Close) ELSE [cn EXCEPT ![c].asked = {}]

\* request_message catch_up, and blk_send_branch of the peer: from our head h to the
\* peer's, or go away when the peer does not know our head.
CatchUpSent(cn, c, h) ==
    IF h > PeerHead[c] THEN [cn EXCEPT ![c].inbox = Append(@, Message("go_away", 0))]
    ELSE LET ends == {PeerHead[c]} \cup {a[2] : a \in cn[c].asked}
         IN  [cn EXCEPT ![c].asked = IF h < Max(ends) THEN {<<h, Max(ends)>>} ELSE {}]

-----------------------------------------------------------------------------
(* Events of the state machine *)

\* The mutex of the state machine is free.
Unlocked == s.acting = "no"

\* What an event leaves, on the strand of c
Result(r, cn, c) ==
    /\ s' = [r.s EXCEPT !.by = IF r.s.acting = "no" THEN 0 ELSE c]
    /\ con' = IF r.greet THEN SendHandshakes(cn) ELSE cn

\* sync_recv_block: an event that no transition takes starts the timer.
SyncRecvBlock(cn, c, n, applied) ==
    LET r  == RecvBlock(s, head, cn, n, applied)
        c1 == RecvBlockForkHeads(s, cn, n)
    IN  [r |-> r, con |-> IF r.passed THEN c1 ELSE [c1 EXCEPT ![c].timer = TRUE]]

\* The second step of a transition: continue_sync, after closing_sync_source if the
\* source was closed.  The source is used without asking whether there is one.
Act ==
    /\ s.acting \in {"continue", "close_continue"}
    /\ LET s1 == IF s.acting = "close_continue" THEN ClosingSyncSource(s, head) ELSE s
           range == SyncRange(s1)
       IN  \/ /\ range = {}
              /\ s' = [s1 EXCEPT !.acting = "no", !.by = 0]
              /\ con' = SendHandshakes(con)
           \/ \E r \in range :
              /\ s' = [s1 EXCEPT !.lastReq = r[2], !.by = 0,
                                 !.acting = IF s.source = 0 THEN "crashed" ELSE "no"]
              /\ con' = IF s.source = 0 THEN con
                        ELSE [con EXCEPT ![s.source].tasks =
                                            Append(@, Task("request", r[1], r[2]))]
    /\ UNCHANGED <<chain, app, seen, faults>>

-----------------------------------------------------------------------------
(* Tasks of a strand *)

FirstTask(c, type) == con[c].tasks # <<>> /\ con[c].tasks[1].type = type
TaskDone(c) == [con EXCEPT ![c].tasks = Tail(@)]

RunHandshake(c) ==
    /\ FirstTask(c, "handshake")
    /\ con' = HandshakeSent(TaskDone(c), c)
    /\ UNCHANGED <<s, chain, app, seen, faults>>

\* request_sync_blocks
RunRequest(c) ==
    /\ FirstTask(c, "request")
    /\ LET t == con[c].tasks[1]
       IN  con' = [RequestSent(TaskDone(c), c, t.from, t.to) EXCEPT ![c].timer = TRUE]
    /\ UNCHANGED <<s, chain, app, seen, faults>>

\* _close keeps fork_head.
ClosedCon(cn, c) ==
    [cn EXCEPT ![c] = [Closed EXCEPT !.tasks = cn[c].tasks, !.forkHead = cn[c].forkHead]]

RunClose(c) ==
    /\ FirstTask(c, "close") /\ Unlocked
    /\ LET cn == ClosedCon(TaskDone(c), c)
       IN  Result(CloseConnection(s, head, cn, c), cn, c)
    /\ UNCHANGED <<chain, app, seen, faults>>

\* A block of this connection was applied, or was in the chain already: the dispatcher is
\* told then.
RunRecv(c) ==
    /\ FirstTask(c, "applied") \/ FirstTask(c, "known")
    /\ Unlocked
    /\ LET applied == FirstTask(c, "applied")
           cn == IF applied THEN [TaskDone(c) EXCEPT ![c].timer = FALSE] ELSE TaskDone(c)
           n  == con[c].tasks[1].from
           x  == SyncRecvBlock(cn, c, n, applied)
       IN  /\ Result(x.r, x.con, c)
           /\ seen' = IF applied \/ n <= Lib THEN seen ELSE seen \cup {<<n, c>>}
    /\ UNCHANGED <<chain, app, faults>>

\* rejected_block, for a run of rejected blocks with none accepted between; whether it
\* spans the windows of time that block_status_monitor allows is a choice.  The sync
\* manager is changed without the mutex of the state machine.  The dispatcher forgets that
\* this connection has the block.
RunRejected(c) ==
    /\ FirstTask(c, "rejected")
    /\ seen' = seen \ {<<con[c].tasks[1].from, c>>}
    /\ \/ /\ s' = [s EXCEPT !.lastReq = 0, !.source = 0]
          /\ con' = Posted(TaskDone(c), c, Close)
       \/ /\ s' = [s EXCEPT !.lastReq = 0]
          /\ con' = Posted(TaskDone(c), c, Handshake)
    /\ UNCHANGED <<chain, app, faults>>

-----------------------------------------------------------------------------
(* Messages of a peer *)

\* A strand that is in the middle of verify_catchup reads no message.
FirstMessage(c, type) ==
    /\ con[c].status # "closed" /\ con[c].inbox # <<>> /\ con[c].inbox[1].type = type
    /\ ~FirstTask(c, "head_catchup")
MessageRead(c) == [con EXCEPT ![c].inbox = Tail(@)]

\* Mutant: a fork head that is there already is not given up.
VerifyCatchupOnce(cn, c, n) ==
    IF ForkHeadGe(cn, n) \/ s.st = "lib_catchup" \/ n < Lib THEN cn
    ELSE [cn EXCEPT ![c].forkHead = n, ![c].tasks = <<Task("head_catchup", head, 0)>> \o @]

\* verify_catchup, for a peer that has more blocks, up to the mutex of the state machine:
\* the strand goes on with its next task, RunHeadCatchup.
VerifyCatchup(cn, c, n) ==
    IF ForkHeadGe(cn, n) THEN [cn EXCEPT ![c].forkHead = 0]
    ELSE IF s.st = "lib_catchup" \/ n < Lib THEN cn
    ELSE [cn EXCEPT ![c].forkHead = n, ![c].tasks = <<Task("head_catchup", head, 0)>> \o @]

\* The rest of verify_catchup.  The head it asks the peer to go on from was read before.
RunHeadCatchup(c) ==
    /\ FirstTask(c, "head_catchup") /\ Unlocked
    /\ s' = HeadCatchup(s).s
    /\ con' = CatchUpSent(TaskDone(c), c, con[c].tasks[1].from)
    /\ UNCHANGED <<chain, app, seen, faults>>

\* handle_message(handshake_message) and process_handshake
RecvHandshake(c) ==
    /\ FirstMessage(c, "handshake")
    /\ LET cn == [MessageRead(c) EXCEPT ![c].status = "up", ![c].lib = PeerLib[c]]
       IN  con' = IF head < PeerLib[c] THEN Posted(cn, c, Handshake)
                  ELSE IF head + 1 < PeerHead[c] THEN VerifyCatchup(cn, c, PeerHead[c])
                  ELSE cn
    /\ s' = SyncResetLibNum(s, PeerLib[c])
    /\ UNCHANGED <<chain, app, seen, faults>>

\* process_notice, last_irr_catch_up
RecvLibNotice(c) ==
    /\ FirstMessage(c, "lib") /\ Unlocked
    /\ LET cn == [MessageRead(c) EXCEPT ![c].lib = PeerLib[c]]
           r  == LibCatchup(s, head, cn, PeerLib[c], c)
       IN  Result(r, IF r.passed THEN cn ELSE Posted(cn, c, Handshake), c)
    /\ UNCHANGED <<chain, app, seen, faults>>

\* have_block: some connection has brought the block, which may be in the chain, about to
\* be applied, or refused.  One that is irreversible may have been forgotten.
HaveBlock(n) == IF n <= Lib THEN BOOLEAN ELSE {\E x \in seen : n = x[1]}

\* process_notice, catch_up
RecvCatchUpNotice(c) ==
    /\ FirstMessage(c, "catch_up")
    /\ \E have \in HaveBlock(PeerHead[c]) :
          con' = IF have THEN Posted(MessageRead(c), c, Handshake)
                 ELSE VerifyCatchup(MessageRead(c), c, PeerHead[c])
    /\ UNCHANGED <<s, chain, app, seen, faults>>

RecvGoAway(c) ==
    /\ FirstMessage(c, "go_away")
    /\ con' = Posted(MessageRead(c), c, Close)
    /\ UNCHANGED <<s, chain, app, seen, faults>>

\* process_next_block_message, a block that was received before: the timer is stopped,
\* also when sync_recv_block has just started it.
RecvKnownBlock(c) ==
    /\ FirstMessage(c, "block") /\ Unlocked
    /\ LET n == con[c].inbox[1].num
           x == SyncRecvBlock(MessageRead(c), c, n, FALSE)
       IN  /\ TRUE \in HaveBlock(n)
           /\ Result(x.r, [x.con EXCEPT ![c].timer = FALSE], c)
    /\ UNCHANGED <<chain, app, seen, faults>>

\* One that was not: it goes to the main thread, unless it is an old one.
RecvNewBlock(c) ==
    /\ FirstMessage(c, "block")
    /\ LET n == con[c].inbox[1].num
       IN  /\ FALSE \in HaveBlock(n)
           /\ IF s.st = "lib_catchup" \/ n >= Lib
              THEN /\ Len(app) < MaxQueue
                   /\ app' = Append(app, <<c, n>>) /\ con' = MessageRead(c) /\ s' = s
              ELSE /\ app' = app
                   /\ IF n < con[c].sentLib
                      THEN con' = Posted(MessageRead(c), c, Close) /\ s' = s
                      ELSE /\ con' = [Posted(CancelSent(MessageRead(c), c), c, Handshake)
                                        EXCEPT ![c].timer = FALSE]
                           /\ s' = [s EXCEPT !.lastReq = 0]
    /\ UNCHANGED <<chain, seen, faults>>

\* process_signed_block, in the main thread.  A block that is not in the chain is shown to
\* the dispatcher, where every strand sees it, before it is applied.
BeginBlock ==
    /\ app # <<>> /\ ~busy
    /\ LET c == app[1][1]
           n == app[1][2]
       IN  IF con[c].status = "closed" THEN app' = Tail(app) /\ UNCHANGED <<con, busy, seen>>
           ELSE IF n <= head
           THEN /\ app' = Tail(app)
                /\ con' = [con EXCEPT ![c].tasks = Append(@, Task("known", n, 0))]
                /\ UNCHANGED <<busy, seen>>
           ELSE busy' = TRUE /\ seen' = seen \cup {<<n, c>>} /\ UNCHANGED <<app, con>>
    /\ UNCHANGED <<s, head, refused, faults>>

\* accept_block and update_chain_info.  A block without the one before it is refused.
AcceptBlock ==
    /\ busy /\ busy' = FALSE
    /\ app' = Tail(app)
    /\ LET c == app[1][1]
           n == app[1][2]
           Post(type) == con' = [con EXCEPT ![c].tasks = Append(@, Task(type, n, 0))]
       IN  IF n = head + 1
           THEN /\ head' = n /\ Post("applied")
                /\ seen' = {x \in seen : x[1] > LibOf(n)} /\ refused' = refused \ {n}
           ELSE refused' = refused \cup {n} /\ Post("rejected") /\ UNCHANGED <<head, seen>>
    /\ UNCHANGED <<s, faults>>

-----------------------------------------------------------------------------
(* Timers, connecting, and the peers *)

\* Nothing is under way on a connection.
Quiet(c) ==
    /\ con[c].tasks = <<>> /\ con[c].inbox = <<>> /\ con[c].asked = {}
    /\ \A i \in DOMAIN app : app[i][1] # c

\* sync_timeout and cancel_sync
Timeout(c) ==
    /\ con[c].timer /\ Unlocked /\ ~FirstTask(c, "head_catchup")
    /\ Quiet(c) \/ faults < MaxFaults
    /\ faults' = IF Quiet(c) THEN faults ELSE faults + 1
    /\ LET cn == [con EXCEPT ![c].timer = FALSE]
       IN  IF s.source # c THEN s' = s /\ con' = cn
           ELSE Result(ReassignFetch(s, head, CancelSent(cn, c), c), CancelSent(cn, c), c)
    /\ UNCHANGED <<chain, app, seen>>

\* ticker and check_heartbeat, when the connection has brought no block for a long time
Heartbeat(c) ==
    /\ Current(con, c) /\ Quiet(c) /\ ~con[c].timer
    /\ con' = Posted(con, c, Handshake)
    /\ UNCHANGED <<s, chain, app, seen, faults>>

Connect(c) ==
    /\ con[c].status = "closed" /\ con[c].tasks = <<>>
    /\ con' = [Posted(con, c, Handshake) EXCEPT ![c].status = "connecting"]
    /\ UNCHANGED <<s, chain, app, seen, faults>>

Disconnect(c) ==
    /\ con[c].status # "closed" /\ faults < MaxFaults
    /\ con' = Posted(con, c, Close)
    /\ faults' = faults + 1
    /\ UNCHANGED <<s, chain, app, seen>>

\* enqueue_sync_block of the peer.  For a block that it does not have, or fails to fetch, it
\* sends a handshake; having sent either it goes on with the next number.
PeerSends(c, has) ==
    /\ con[c].status # "closed" /\ Len(con[c].inbox) < MaxQueue
    /\ \E a \in con[c].asked :
          LET n == a[1] + 1
              m == IF has THEN Message("block", n) ELSE Message("handshake", 0)
          IN  /\ faults' = IF has = (n <= PeerHead[c]) THEN faults ELSE faults + 1
              /\ has => n <= PeerHead[c]
              /\ con' = [con EXCEPT ![c].asked = IF n = a[2] THEN {} ELSE {<<n, a[2]>>},
                                    ![c].inbox = Append(@, m)]
    /\ faults' <= MaxFaults
    /\ UNCHANGED <<s, chain, app, seen>>

\* The peer announces its newest block before this node is there.
PeerAnnounces(c) ==
    /\ Current(con, c) /\ Len(con[c].inbox) < MaxQueue /\ faults < MaxFaults
    /\ con' = [con EXCEPT ![c].inbox = Append(@, Message("block", PeerHead[c]))]
    /\ faults' = faults + 1
    /\ UNCHANGED <<s, chain, app, seen>>

-----------------------------------------------------------------------------
\* One thing at a time on a strand
Strand(c) ==
    /\ s.by # c
    /\ \/ RunHandshake(c) \/ RunRequest(c) \/ RunClose(c) \/ RunRecv(c) \/ RunRejected(c)
       \/ RunHeadCatchup(c)
       \/ RecvHandshake(c) \/ RecvLibNotice(c) \/ RecvCatchUpNotice(c) \/ RecvGoAway(c)
       \/ RecvKnownBlock(c) \/ RecvNewBlock(c)

Up == s.acting # "crashed"

Next ==
    /\ Up
    /\ \/ Act \/ BeginBlock \/ AcceptBlock
       \/ \E c \in Conns :
             \/ Strand(c) \/ Timeout(c) \/ Heartbeat(c) \/ Connect(c)
             \/ Disconnect(c) \/ PeerAnnounces(c)
             \/ \E has \in BOOLEAN : PeerSends(c, has)

Spec ==
    /\ Init /\ [][Next]_vars
    /\ WF_vars(Up /\ Act) /\ WF_vars(Up /\ (BeginBlock \/ AcceptBlock))
    /\ \A c \in Conns :
          /\ WF_vars(Up /\ Strand(c)) /\ WF_vars(Up /\ \E has \in BOOLEAN : PeerSends(c, has))
          /\ WF_vars(Up /\ Quiet(c) /\ Timeout(c)) /\ WF_vars(Up /\ Connect(c))
          /\ WF_vars(Up /\ Heartbeat(c))

-----------------------------------------------------------------------------
(* Properties *)

\* Types; the node syncs to no more than the highest block a peer has announced.
TypeOK ==
    /\ s \in SyncStates(Num, 0..Max({PeerLib[c] : c \in Conns} \cup {Lib})) /\ head \in 1..Best
    /\ con \in [Conns -> Connections]
    /\ app \in Seq(Conns \X Num) /\ busy \in BOOLEAN /\ (busy => app # <<>>)
    /\ seen \subseteq Num \X Conns /\ refused \subseteq Num /\ faults \in 0..MaxFaults

\* No gap: every block below the next one to ask for (sync_next_expected_num) is in the
\* chain or being applied, whatever source was closed, timed out or sent blocks out of
\* order, so that continue_sync leaves no block out.  The one exception is a block that was
\* refused before: the dispatcher knows it until the strand of its connection has run the
\* rejection, and another strand then takes it for received.
NoGap ==
    \A n \in head + 1..s.nextExp - 1 :
        n \in refused \/ (busy /\ app[1][2] = n)

\* The state of the synchronisation is well formed, its last irreversible block is one a
\* peer has announced, and there is no gap.
Consistent == TypeOK /\ NoGap

\* Syncing to the last irreversible block, with no block requested or on its way and no
\* timer that would turn to another source.  The code gets there: the source is closed
\* and none is left, all that was requested is there, or a known block stopped the timer.
Stranded ==
    /\ s.st = "lib_catchup" /\ app = <<>>
    /\ \A c \in Conns :
          /\ \A i \in DOMAIN con[c].tasks : con[c].tasks[i].type # "request"
          /\ \A i \in DOMAIN con[c].inbox : con[c].inbox[i].type # "block"
          /\ con[c].asked = {}
          /\ s.source = c => ~con[c].timer

\* The node reaches the head of the best peer and stays there.
CatchesUp == <>[](~Up \/ head = Best)

\* The node reaches the head of the best peer, whichever connection is closed, times out
\* or fails to fetch a block, unless it strands in lib_catchup, where verify_catchup asks
\* for nothing: there is no other way to hang, and no livelock of handshakes and notices.
CatchesUpOrStranded == CatchesUp \/ <>[]Stranded
=============================================================================
