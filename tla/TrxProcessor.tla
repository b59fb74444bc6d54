---------------------------- MODULE TrxProcessor ----------------------------
(***************************************************************************)
(* What the main thread of a producing node does with the transactions it  *)
(* gets from AMQP: the queue of unapplied transactions, the transaction    *)
(* processor of producer_plugin, and the parts of amqp_trx_plugin that are *)
(* called back by them and by the signals of the controller.               *)
(*                                                                         *)
(* A node is a record, and what the code does to it is an operator from    *)
(* node to node:                                                           *)
(*    building, trxs, room  the pending block, its transactions and how    *)
(*                          many fit into it                               *)
(*    made, status          the block that was built last and what became  *)
(*                          of it: "none" (accepted), "signing", "signed", *)
(*                          "unsigned", "failed" (to be taken back)        *)
(*    head                  the number of the head block                   *)
(*    chain                 the transactions of the accepted blocks        *)
(*    aborted, incoming     _unapplied_transactions, by type               *)
(*    tracked               tracked_blocks: the highest delivery tag       *)
(*    paused, current       paused_ and current_block_ of the fifo queue   *)
(*    acks                  acks on their way to the amqp thread           *)
(*    refused               messages whose failure was answered            *)
(*    content               what each message holds: a transaction that is *)
(*                          "good" or "fails" when it is executed, or      *)
(*                          something "malformed"                          *)
(* Only two blocks are not accepted at any time, so that two block numbers *)
(* take turns.                                                             *)
(***************************************************************************)
EXTENDS Integers, SequencesExt

CONSTANT AckMode    \* amqp-trx-ack-mode

ASSUME AckModeAssumption == AckMode \in {"received", "executed", "in_block"}

Numbers == {1, 2}
Succ(bn) == 3 - bn

\* Values of tracked[bn] that are not a delivery tag.
NoTag   == 0
NoBlock == -1

NewNode(content) ==
    [content |-> content, building |-> FALSE, trxs |-> <<>>, room |-> 0,
     made |-> <<>>, status |-> "none", head |-> 1, chain |-> <<>>,
     aborted |-> <<>>, incoming |-> <<>>,
     tracked |-> [bn \in Numbers |-> NoBlock],
     paused |-> 1, current |-> 0, acks |-> <<>>, refused |-> {}]

-----------------------------------------------------------------------------
(* amqp_trx_plugin *)

Ack(n, tag, multiple) ==
    [n EXCEPT !.acks = Append(@, [tag |-> tag, multiple |-> multiple])]

Unpause(n) == [n EXCEPT !.paused = @ - 1]

\* Mutant: unpauses the queue for every block that is started.
OnBlockStartAgain(n, bn) ==
    [n EXCEPT !.tracked[bn] = NoTag, !.current = bn, !.paused = @ - 1]

OnBlockStart(n, bn) ==
    [n EXCEPT !.tracked[bn] = NoTag,
              !.current = bn,
              !.paused = IF n.current = 0 THEN @ - 1 ELSE @]

\* Nothing to do if the next block has been started.
OnBlockStop(n, bn) ==
    IF n.current = bn THEN [n EXCEPT !.paused = @ + 1, !.current = 0] ELSE n

OnAcceptedBlock(n, bn) ==
    LET stopped == OnBlockStop(n, bn)
        done    == [stopped EXCEPT !.tracked[bn] = NoBlock]
    IN  IF AckMode = "in_block" /\ n.tracked[bn] > NoTag
        THEN Ack(done, n.tracked[bn], TRUE)
        ELSE done


\* The callback handle_message gives to the queue: the transaction was applied in the
\* pending block, or failed.
Callback(n, i, applied) ==
    IF AckMode = "received" THEN n
    ELSE IF AckMode = "executed" \/ ~applied THEN Ack(n, i.tag, FALSE)
    ELSE [n EXCEPT !.tracked[Succ(n.head)] = i.tag]

-----------------------------------------------------------------------------
(* unapplied_transaction_queue *)

Queued(n) == Range(n.aborted) \cup {n.incoming[k].msg : k \in DOMAIN n.incoming}

\* A second transaction with the same id fails as a duplicate.
AddIncoming(n, i) ==
    IF i.msg \in Queued(n) THEN Callback(n, i, FALSE)
    ELSE [n EXCEPT !.incoming = Append(@, i)]

\* The elements of s at the places in `at', in their order.
Select(s, at) ==
    LET kept[k \in 0..Len(s)] ==
          IF k = 0 THEN <<>>
          ELSE IF k \in at THEN Append(kept[k - 1], s[k]) ELSE kept[k - 1]
    IN  kept[Len(s)]

AddAborted(n, trxs) ==
    [n EXCEPT !.aborted = @ \o Select(trxs, {k \in DOMAIN trxs : trxs[k] \notin Queued(n)})]

\* A transaction of a block leaves the queue, and one that waits is a duplicate.
Cleared(n, m) ==
    LET at       == {k \in DOMAIN n.incoming : n.incoming[k].msg = m}
        answered == IF at = {} THEN n
                    ELSE Callback(n, n.incoming[CHOOSE k \in at : TRUE], FALSE)
    IN  [answered EXCEPT !.aborted  = Select(@, {k \in DOMAIN @ : @[k] # m}),
                         !.incoming = Select(@, DOMAIN @ \ at)]

ClearApplied(n, trxs) ==
    LET cleared[k \in 0..Len(trxs)] ==
          IF k = 0 THEN n ELSE Cleared(cleared[k - 1], trxs[k])
    IN  cleared[Len(trxs)]

-----------------------------------------------------------------------------
(* transaction_processor *)

\* is_known_unexpired_transaction
Known(n, m) == m \in Range(n.chain) \cup Range(n.made) \cup Range(n.trxs)

\* The limits of the pending block are reached.
Full(n) == Len(n.trxs) >= n.room

\* The transaction does not fit into the pending block.
Exhausted(n, i) == n.building /\ Full(n) /\ ~Known(n, i.msg)

\* Mutant: does not ask whether the transaction is known.
ProcessKnown(n, i) ==
    IF ~n.building \/ Full(n) THEN AddIncoming(n, i)
    ELSE IF n.content[i.msg] = "fails" THEN [Callback(n, i, FALSE) EXCEPT !.refused = @ \cup {i.msg}]
    ELSE Callback([n EXCEPT !.trxs = Append(@, i.msg)], i, TRUE)

\* process_incoming_transaction
ProcessIncoming(n, i) ==
    IF Known(n, i.msg) THEN Callback(n, i, FALSE)
    ELSE IF ~n.building \/ Full(n) THEN AddIncoming(n, i)
    ELSE IF n.content[i.msg] = "fails" THEN [Callback(n, i, FALSE) EXCEPT !.refused = @ \cup {i.msg}]
    ELSE Callback([n EXCEPT !.trxs = Append(@, i.msg)], i, TRUE)


\* process_unapplied_trxs: these have no callback, a duplicate is dropped, and from the
\* first that does not fit on they stay.
Reapplied(n, m) ==
    IF n.aborted # <<>> \/ (Full(n) /\ ~Known(n, m)) THEN [n EXCEPT !.aborted = Append(@, m)]
    ELSE IF Known(n, m) THEN n
    ELSE [n EXCEPT !.trxs = Append(@, m)]

ProcessUnapplied(n) ==
    LET reapplied[k \in 0..Len(n.aborted)] ==
          IF k = 0 THEN [n EXCEPT !.aborted = <<>>]
          ELSE Reapplied(reapplied[k - 1], n.aborted[k])
    IN  reapplied[Len(n.aborted)]

\* process_incoming_trxs takes the first out of the queue, as often as there were some,
\* and stops at one that does not fit, which goes back to the end of the queue.
ProcessFirst(s) ==
    LET i     == Head(s.node.incoming)
        taken == [s.node EXCEPT !.incoming = Tail(@)]
    IN  IF s.stop \/ s.node.incoming = <<>> THEN s
        ELSE [stop |-> Exhausted(taken, i), node |-> ProcessIncoming(taken, i)]

ProcessIncomingTrxs(n) ==
    LET processed[k \in 0..Len(n.incoming)] ==
          IF k = 0 THEN [stop |-> FALSE, node |-> n] ELSE ProcessFirst(processed[k - 1])
    IN  processed[Len(n.incoming)].node

-----------------------------------------------------------------------------
(* The blocks *)

\* complete_produced_block: producer_plugin hears of the accepted block before
\* amqp_trx_plugin does.
Accept(n) ==
    OnAcceptedBlock(
      [ClearApplied(n, n.made) EXCEPT
         !.chain = @ \o n.made, !.made = <<>>, !.status = "none"],
      n.head)

\* abort_block: the pending block, and below it the block that failed.
AbortBlock(n) ==
    LET stopped == IF n.building
                   THEN [OnBlockStop(n, Succ(n.head)) EXCEPT
                           !.building = FALSE, !.trxs = <<>>, !.room = 0]
                   ELSE n
    IN  IF n.status # "failed" THEN AddAborted(stopped, n.trxs)
        ELSE AddAborted([OnBlockStop(stopped, n.head) EXCEPT
                           !.head = Succ(@), !.made = <<>>, !.status = "none"],
                        n.trxs \o n.made)

StartBlock(n, room) ==
    OnBlockStart([n EXCEPT !.building = TRUE, !.room = room], Succ(n.head))

\* finalize_block: the block becomes the head and is signed by another thread.
FinalizeBlock(n) ==
    [n EXCEPT !.made = n.trxs, !.status = "signing", !.head = Succ(@),
              !.building = FALSE, !.trxs = <<>>, !.room = 0]
=============================================================================
