----------------------------- MODULE TrxIntake ------------------------------
(***************************************************************************)
(* Transactions from an AMQP queue on their way into blocks, on a node     *)
(* that is the only producer of its schedule.                              *)
(*                                                                         *)
(*    amqp thread  takes the messages the broker has pushed and puts them  *)
(*                 into the fifo queue, where it blocks while that is      *)
(*                 full; sends the acks                                    *)
(*    trxq thread  takes them out while a block is being built and posts   *)
(*                 a task for each to the main thread                      *)
(*    main thread  runs these tasks and the production loop, which is      *)
(*                 modelled here as far as transactions see it             *)
(*    signing      signs a block after it was put on the chain             *)
(*                                                                         *)
(* The broker counts the messages it pushes on a channel: the count is the *)
(* delivery tag.  When a channel is lost the broker puts back what was not *)
(* acked, and on the next channel it counts from 1 again.  An ack of a tag *)
(* it does not wait for is an error that closes the channel.               *)
(***************************************************************************)
EXTENDS TrxProcessor, FiniteSets

CONSTANTS
    Messages,       \* how many messages are in the broker's queue
    Contents,       \* what the messages may hold
    Rooms,          \* how many transactions may fit into a block
    MaxDepth,       \* amqp-trx-queue-size
    Burst,          \* how many more the trxq thread takes when it has one
    MaxFaults       \* bound: how often a request aborts the pending block, a block
                    \* cannot be signed, or the connection to the broker is lost

Msg == 1..Messages

ASSUME TrxIntakeAssumption ==
    /\ Messages \in Nat /\ MaxDepth \in Nat \ {0} /\ Burst \in Nat
    /\ Contents \subseteq [Msg -> {"good", "fails", "malformed"}]
    /\ Rooms # {} /\ Rooms \subseteq Nat \ {0}
    /\ MaxFaults \in Nat

VARIABLES
    node,       \* what the main thread works on
    timer,      \* _producer_timer: what it will run
    fifo,       \* queue_ of the fifo queue
    burst,      \* how many the trxq thread has taken without waiting
    posted,     \* the tasks of the trxq thread in the queue of the main thread
    up,         \* the channel is usable
    sent,       \* the messages pushed on this channel, in the order of their tags
    taken,      \* how many of them the amqp thread has taken
    pushing,    \* it is blocked with the last one it has taken
    unacked,    \* the tags the broker waits for
    settled,    \* the messages the broker has removed
    aborts,     \* how often a request has aborted the pending block
    unsigned,   \* how often a block could not be signed
    lost        \* a channel was lost

amqp == <<up, sent, taken, pushing, unacked, settled, lost>>
trxq == <<fifo, burst, posted>>
vars == <<node, timer, trxq, amqp, aborts, unsigned>>

FaultsLeft == aborts + unsigned + (IF lost THEN 1 ELSE 0) < MaxFaults

Items == [msg : Msg, tag : Nat]

\* The messages as the broker pushes them when a channel is opened.
Push(msgs) == Select([m \in Msg |-> m], msgs)

Init ==
    /\ \E content \in Contents : node = NewNode(content)
    /\ timer = "loop"
    /\ fifo = <<>> /\ burst = 0 /\ posted = <<>>
    /\ up = TRUE
    /\ sent = Push(Msg)
    /\ taken = 0
    /\ pushing = FALSE
    /\ unacked = DOMAIN sent
    /\ settled = {}
    /\ aborts = 0 /\ unsigned = 0 /\ lost = FALSE

-----------------------------------------------------------------------------
(* The amqp thread *)

\* The end of consume_message.
Queue(i) ==
    /\ fifo' = Append(fifo, i)
    /\ node' = IF AckMode = "received" THEN Ack(node, i.tag, FALSE) ELSE node

Malformed(m) == node.content[m] = "malformed"

\* consume_message
Consume ==
    /\ up /\ ~pushing
    /\ taken < Len(sent)
    /\ taken' = taken + 1
    /\ LET i == [msg |-> sent[taken'], tag |-> taken'] IN
       \/ /\ Malformed(i.msg)
          /\ node' = [Ack(node, i.tag, FALSE) EXCEPT !.refused = @ \cup {i.msg}]
          /\ UNCHANGED <<fifo, pushing>>
       \/ /\ ~Malformed(i.msg) /\ Len(fifo) < MaxDepth
          /\ Queue(i)
          /\ UNCHANGED pushing
       \/ /\ ~Malformed(i.msg) /\ Len(fifo) >= MaxDepth
          /\ pushing' = TRUE
          /\ UNCHANGED <<node, fifo>>
    /\ UNCHANGED <<timer, burst, posted, up, sent, unacked, settled, aborts, unsigned, lost>>

\* push has waited for room in the queue.
PushWaited ==
    /\ pushing
    /\ Len(fifo) < MaxDepth
    /\ Queue([msg |-> sent[taken], tag |-> taken])
    /\ pushing' = FALSE
    /\ UNCHANGED <<timer, burst, posted, up, sent, taken, unacked, settled, aborts, unsigned,
                   lost>>

\* channel_failed: what was pushed and not taken is gone, what was taken goes its way.
Lose ==
    /\ up' = FALSE
    /\ sent' = <<>>
    /\ taken' = 0
    /\ unacked' = {}
    /\ lost' = TRUE

AckedTags(a) == {t \in unacked : t = a.tag \/ (a.multiple /\ t <= a.tag)}

\* ack: a tag the broker does not wait for is an error that closes the channel.
SendAck ==
    /\ up /\ ~pushing
    /\ node.acks # <<>>
    /\ node' = [node EXCEPT !.acks = Tail(@)]
    /\ LET a == Head(node.acks) IN
       \/ /\ a.tag \in unacked
          /\ unacked' = unacked \ AckedTags(a)
          /\ settled' = settled \cup {sent[t] : t \in AckedTags(a)}
          /\ UNCHANGED <<up, sent, taken, lost>>
       \/ /\ a.tag \notin unacked
          /\ Lose
          /\ UNCHANGED settled
    /\ UNCHANGED <<timer, trxq, pushing, aborts, unsigned>>

LoseChannel ==
    /\ up /\ ~pushing
    /\ FaultsLeft
    /\ Lose
    /\ UNCHANGED <<node, timer, trxq, pushing, settled, aborts, unsigned>>

\* channel_ready sends the acks that were saved before it consumes: no tag is known to
\* the broker then.
ChannelReady ==
    /\ ~up
    /\ \/ /\ node.acks # <<>>
          /\ \E k \in DOMAIN node.acks :
                node' = [node EXCEPT !.acks = SubSeq(@, k + 1, Len(@))]
          /\ UNCHANGED <<up, sent, unacked>>
       \/ /\ up' = TRUE
          /\ sent' = Push(Msg \ settled)
          /\ unacked' = DOMAIN sent'
          /\ UNCHANGED node
    /\ UNCHANGED <<timer, trxq, taken, pushing, settled, aborts, unsigned, lost>>

-----------------------------------------------------------------------------
(* The trxq thread *)

Post ==
    /\ fifo # <<>>
    /\ posted' = Append(posted, Head(fifo))
    /\ fifo' = Tail(fifo)
    /\ node' = [node EXCEPT !.paused = @ + 1]
    /\ UNCHANGED <<timer, amqp, aborts, unsigned>>

\* What pop_and_pause waits for.
Unpaused == node.paused <= 0

PopAndPause ==
    /\ burst = 0
    /\ Unpaused
    /\ Post
    /\ burst' = IF Burst = 0 THEN 0 ELSE 1

\* pop does not ask whether the queue is paused.
Pop ==
    /\ burst > 0
    /\ Post
    /\ burst' = IF burst = Burst THEN 0 ELSE burst + 1

\* Nothing left to take.
BurstEnds ==
    /\ burst > 0
    /\ fifo = <<>>
    /\ burst' = 0
    /\ UNCHANGED <<node, timer, fifo, posted, amqp, aborts, unsigned>>

-----------------------------------------------------------------------------
(* The main thread *)

Ready(n) == n.status \in {"signed", "unsigned"}

\* complete_produced_block_if_ready
Complete(n) ==
    CASE n.status = "signed"   -> Accept(n)
      [] n.status = "unsigned" -> [n EXCEPT !.status = "failed"]
      [] OTHER                 -> n


\* process_unapplied_trxs_start_block: new transactions are processed if those of the
\* aborted blocks all fit.  If the last block failed, the pending one is left as it is
\* and the loop is tried again.
Started(n) ==
    IF n.status = "failed" THEN node' = n /\ timer' = "loop"
    ELSE LET unapplied == ProcessUnapplied(n) IN
         /\ node' = IF unapplied.aborted = <<>> THEN ProcessIncomingTrxs(unapplied)
                    ELSE unapplied
         /\ timer' = "produce"

\* schedule_production_loop waits for the time of the next block, or starts it.
Waits(n)  == node' = n /\ timer' = "loop"
Starts(n) == \E room \in Rooms : Started(Complete(StartBlock(AbortBlock(n), room)))
Loop(n)   == Waits(n) \/ Starts(n)

LoopTimer ==
    /\ timer = "loop"
    /\ Loop(node)
    /\ UNCHANGED <<trxq, amqp, aborts, unsigned>>

\* maybe_produce_block: the last block is not completed, there is no pending block, or
\* the pending block is produced.
Produced(n) ==
    IF n.status \notin {"none", "failed"} THEN n
    ELSE IF ~n.building THEN AbortBlock(n)
    ELSE FinalizeBlock(n)

ProduceTimer ==
    /\ timer = "produce"
    /\ Loop(Produced(node))
    /\ UNCHANGED <<trxq, amqp, aborts, unsigned>>

\* The task of a transaction: execute_incoming_transaction.  A block that is full is
\* produced at once.  One that gets full on top of a block that failed is left out here:
\* see FullAfterFailure in Producer.
TrxTask ==
    /\ posted # <<>>
    /\ LET i == Head(posted) IN
       /\ ~(Exhausted(node, i) /\ node.status = "failed")
       /\ node' = Unpause(ProcessIncoming(node, i))
       /\ timer' = IF Exhausted(node, i) THEN "produce" ELSE timer
    /\ posted' = Tail(posted)
    /\ UNCHANGED <<fifo, burst, amqp, aborts, unsigned>>

\* The signing thread.
Sign ==
    /\ node.status = "signing"
    /\ \/ /\ node' = [node EXCEPT !.status = "signed"]
          /\ UNCHANGED unsigned
       \/ /\ FaultsLeft
          /\ unsigned' = unsigned + 1
          /\ node' = [node EXCEPT !.status = "unsigned"]
    /\ UNCHANGED <<timer, trxq, amqp, aborts>>

\* The task the signing thread posts.
CompletionTask ==
    /\ Ready(node)
    /\ node' = IF node.status = "signed" THEN Complete(node) ELSE AbortBlock(Complete(node))
    /\ UNCHANGED <<timer, trxq, amqp, aborts, unsigned>>

\* get_integrity_hash and create_snapshot abort the pending block.
Interrupt ==
    /\ node.building
    /\ FaultsLeft
    /\ aborts' = aborts + 1
    /\ Loop(AbortBlock(node))
    /\ UNCHANGED <<trxq, amqp, unsigned>>

-----------------------------------------------------------------------------
AmqpThread == Consume \/ PushWaited \/ SendAck \/ ChannelReady
TrxqThread == PopAndPause \/ Pop \/ BurstEnds

Next ==
    \/ AmqpThread \/ LoseChannel
    \/ TrxqThread
    \/ LoopTimer \/ ProduceTimer \/ TrxTask \/ CompletionTask \/ Interrupt
    \/ Sign

\* Every thread does what it can do, the trxq thread also when the queue is paused now
\* and then, and the time of the next block comes.  Written without ENABLED.
Fairness ==
    /\ []<>(~pushing \/ Len(fifo) >= MaxDepth)
    /\ []<>(~up \/ pushing \/ taken = Len(sent))
    /\ []<>(pushing \/ node.acks = <<>>)
    /\ []<>up
    /\ []<>(burst = 0)
    /\ []<>(fifo # <<>> /\ Unpaused) => []<><<PopAndPause>>_vars
    /\ []<>(posted = <<>>)
    /\ []<>(node.status # "signing") /\ []<>~Ready(node)
    /\ []<>(timer # "produce") \/ []<><<ProduceTimer>>_vars
    /\ []<>(timer = "loop") => []<><<LoopTimer /\ node'.building>>_vars

Spec == Init /\ [][Next]_vars /\ Fairness

-----------------------------------------------------------------------------
(* Properties *)

\* Types; the fifo queue keeps to amqp-trx-queue-size.
TypeOK ==
    /\ timer \in {"loop", "produce"}
    /\ fifo \in Seq(Items) /\ posted \in Seq(Items)
    /\ Len(fifo) <= MaxDepth /\ burst \in 0..Burst
    /\ node.aborted \in Seq(Msg) /\ node.incoming \in Seq(Items)
    /\ node.tracked \in [Numbers -> {NoBlock, NoTag} \cup Msg]
    /\ sent \in Seq(Msg) /\ taken \in 0..Len(sent) /\ unacked \subseteq DOMAIN sent

\* The pause counter of the fifo queue, which two threads change, is the number of the
\* tasks not run yet and one more while no block is being built: so unpause() never
\* finds the queue "unpaused when not paused", and the trxq thread never waits for good.
QueueBalanced == node.paused = Len(posted) + (IF node.current = 0 THEN 1 ELSE 0)

\* The queues are well formed and bounded, and the pause counter is balanced.
Consistent == TypeOK /\ QueueBalanced

\* No transaction is in two blocks or twice in one, although messages are delivered
\* again after a lost connection and transactions are put back by aborted blocks.
EachOnce == IsInjective(node.chain \o node.made \o node.trxs)

\* amqp-trx-ack-mode in_block: what the broker has removed is in an accepted block, or
\* its failure was answered, as long as the channel was not lost.  An ack stands for all
\* earlier tags, so a transaction that is behind a later one is acked too early.
AckedInBlock == ~lost => settled \subseteq Range(node.chain) \cup node.refused


=============================================================================
