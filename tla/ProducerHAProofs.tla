-------------------------- MODULE ProducerHAProofs --------------------------
(***************************************************************************)
(* The producers of a group (ProducerHA), for any number of them, every    *)
(* block tree and every choice of who may build which block, through any   *)
(* number of elections, deposed leaders that build on, and entries that    *)
(* are committed late or never.  One hypothesis, under which the run       *)
(* checks the properties too: the nodes build no bad block (Bad = {}).     *)
(* All of it holds until can_produce is bypassed (astray): until a node    *)
(* produces a block that was begun to speculate or on one that failed, or  *)
(* is elected again before it is done with the block it built as the last  *)
(* leader.  After that two blocks with one number may be published.        *)
(*                                                                         *)
(* That published blocks do not conflict follows from the logs: in the log *)
(* of every node, committed or not, a block stands on all those before it  *)
(* (LogsOK).  The entry a leader appends keeps this only if its block was  *)
(* built on everything the group had committed and can still commit before *)
(* it.  can_produce asks for this when the block is started, not when it   *)
(* is appended; in between the leader may be deposed, the block in flight  *)
(* may fail, and blocks arrive.  So the invariant says of a leader         *)
(*    - whose term is not over (Current): its log has no block of its own  *)
(*      term that it has not applied, but the one in flight, and the block *)
(*      that it builds or has built stands on all it has applied (Group,   *)
(*      Waits);                                                            *)
(*    - a head that is to be taken off its chain is in nobody's log.       *)
(* A leader whose term is over may append what it likes.                   *)
(*                                                                         *)
(* Of each node, leader or not: its chain is committed up to the one block *)
(* it has built itself, on which nothing stands (Blocks); and the tasks of *)
(* the main thread hold, in order, what was committed and not handled, so  *)
(* that an own head that was handled is marked as one that succeeded and   *)
(* abort_block does not take it off (TasksOK).                             *)
(***************************************************************************)
EXTENDS ProducerHA, ControllerLemmas, SequenceTheorems

-----------------------------------------------------------------------------
(* The blocks of a node *)

\* Every block that was built stands on blocks the group committed.
Grounded(made, com) ==
    /\ com \subseteq made
    /\ made \subseteq Block \ {Genesis}
    /\ \A b \in made : Anc[Prev[b]] \subseteq com \cup {Genesis}

\* The head may be taken off the chain: nothing stands on it, and the block below it
\* leads the rest.
Fresh(c) ==
    /\ c.head # c.blog
    /\ \A x \in c.fdb.index : Prev[x] # c.head
    /\ Leads(Prev[c.head], c.fdb.valid \ {c.head})

\* The controller of a node whose blocks in flight and failed ones are `own': what it has
\* not executed, logged or stands on was committed, but for these blocks, which never come
\* back once they are gone.
Blocks(c, own, made, com) ==
    /\ Leading(c)
    /\ c.fdb.index \subseteq made
    /\ c.fdb.index \subseteq c.fdb.valid \cup com
    /\ Anc[c.blog] \subseteq com \cup {Genesis}
    /\ c.head \in com \cup {Genesis} \cup own
    /\ own \cap c.fdb.index \subseteq c.fdb.valid
    /\ \A b \in own : b \in c.fdb.index \/ b \in Anc[c.blog] \/ c.blog \notin Anc[b]
    /\ c.head \in own => Fresh(c)

\* The ancestors of a committed block were committed.
LEMMA CommittedBranch ==
    ASSUME NEW made, NEW com, Grounded(made, com), NEW b \in com \cup {Genesis}
    PROVE  b \in Block /\ Anc[b] \subseteq com \cup {Genesis}
  <1>1. CASE b = Genesis
    <2>1. {Genesis} \in SUBSET Block /\ PrevClosed({Genesis}) /\ Genesis \in Block
      BY BlockTreeAssumption DEF PrevClosed
    <2>2. Anc[Genesis] \subseteq {Genesis}
      BY <2>1, AncInduction
    <2> QED BY <1>1, <2>1, <2>2
  <1>2. CASE b \in com
    <2>1. b \in Block \ {Genesis} /\ Anc[Prev[b]] \subseteq com \cup {Genesis}
      BY <1>2 DEF Grounded
    <2> QED BY <1>2, <2>1, AncStep
  <1> QED BY <1>1, <1>2

\* Fewer own blocks, of which the head is no other.
LEMMA BlocksFewer ==
    ASSUME NEW c, NEW own, NEW made, NEW com, Blocks(c, own, made, com),
           NEW less \in SUBSET own, c.head \in com \cup {Genesis} \cup less
    PROVE  Blocks(c, less, made, com)
  BY DEF Blocks

\* More blocks are built or committed.
LEMMA BlocksMore ==
    ASSUME NEW c, NEW own, NEW made, NEW com, Blocks(c, own, made, com),
           NEW more, NEW com2, made \subseteq more, com \subseteq com2
    PROVE  Blocks(c, own, more, com2)
  BY DEF Blocks

\* The branch of the head is validated or in the log.
LEMMA HeadBranch ==
    ASSUME NEW c, Leading(c), NEW x \in Anc[c.head]
    PROVE  x \in c.fdb.valid \cup Anc[c.blog] /\ x \in Block
  <1>1. PICK fd : fd = c.fdb
    OBVIOUS
  <1>2. PICK h : h = c.head
    OBVIOUS
  <1>3. /\ h \in Block /\ FdbOK(fd) /\ fd.root = c.blog /\ c.blog \in Anc[h] /\ c.blog \in Block
        /\ h \in fd.valid \cup {fd.root} /\ x \in Anc[h]
    BY <1>1, <1>2, LeadingFacts
  <1>4. x \in Block /\ (x \in Anc[c.blog] \/ c.blog \in Anc[x])
    BY <1>3, AncChain, AncBasic
  <1>5. CASE c.blog \in Anc[x]
    <2>1. x \in fd.valid \cup {fd.root}
      BY <1>3, <1>5, ValidBranch
    <2> QED BY <1>1, <1>3, <1>4, <2>1, AncBasic
  <1> QED BY <1>4, <1>5

\* pop_block and remove_head of an own block: the node is left without one.
LEMMA BlocksDrop ==
    ASSUME NEW c, NEW own, NEW made, NEW com, Grounded(made, com), Blocks(c, own, made, com),
           own \subseteq made, c.head \in own
    PROVE  /\ Blocks(DropHead(c), {}, made, com)
           /\ DropHead(c).head = Prev[c.head] /\ c.head \in Block \ {Genesis}
  <1>1. PICK r : r = DropHead(c)
    OBVIOUS
  <1>2. Leading(c) /\ Fresh(c) /\ c.head \in made
    BY DEF Blocks
  <1>3. /\ Leading(r) /\ r.head = Prev[c.head] /\ r.head \in Block
        /\ c.head \in Block \ {Genesis} /\ c.head \in c.fdb.valid
        /\ r.fdb.index = c.fdb.index \ {c.head} /\ r.fdb.valid = c.fdb.valid \ {c.head}
        /\ r.blog = c.blog /\ r.outcome = c.outcome
    BY <1>1, <1>2, DropHeadLeading DEF Fresh
  <1>4. r.head \in com \cup {Genesis}
    <2>1. Anc[Prev[c.head]] \subseteq com \cup {Genesis}
      BY <1>2 DEF Grounded
    <2> QED BY <1>3, <2>1, AncBasic
  <1>5. Blocks(r, {}, made, com)
    BY <1>3, <1>4 DEF Blocks
  <1> QED BY <1>1, <1>3, <1>5

\* A block that was not known and can be added is not an own one.
LEMMA AddedNotOwn ==
    ASSUME NEW c, NEW own, NEW made, NEW com, Blocks(c, own, made, com), NEW b \in Block,
           CanAdd(c.fdb, b)
    PROVE  b \notin own /\ b \notin Anc[c.head] /\ b \notin c.fdb.index
  <1>1. PICK fd : fd = c.fdb
    OBVIOUS
  <1>2. /\ FdbOK(fd) /\ fd.root = c.blog /\ c.blog \in Block /\ c.head \in Block
        /\ fd.valid \subseteq fd.index /\ fd.index \in SUBSET Block /\ Leading(c)
    BY <1>1, LeadingFacts DEF Blocks
  <1>3. b \in Block \ {Genesis} /\ b \notin fd.index /\ Prev[b] \in fd.index \cup {fd.root}
    BY <1>1 DEF CanAdd, Known
  <1>4. c.blog \in Anc[Prev[b]]
    BY <1>2, <1>3, OKIsWell, KnownDescends
  <1>5. /\ Prev[b] \in Block /\ c.blog \in Anc[b] /\ Num[b] = Num[Prev[b]] + 1
        /\ Num[Prev[b]] \in Nat /\ Num[c.blog] \in Nat /\ Num[c.blog] <= Num[Prev[b]]
    <2>1. Prev[b] \in Block /\ Anc[b] = {b} \cup Anc[Prev[b]]
      BY <1>3, AncStep
    <2> QED BY <1>2, <1>3, <1>4, <2>1, AncNumbers, Numbers, BlockTreeAssumption
  <1>6. b \notin Anc[c.blog]
    <2>1. ASSUME b \in Anc[c.blog] PROVE FALSE
      <3>1. Num[b] <= Num[c.blog]
        BY <1>2, <2>1, AncNumbers
      <3> QED BY <1>5, <3>1
    <2> QED BY <2>1
  <1>7. b \notin own
    BY <1>1, <1>3, <1>5, <1>6 DEF Blocks
  <1>8. b \notin Anc[c.head]
    BY <1>1, <1>2, <1>3, <1>6, HeadBranch
  <1> QED BY <1>1, <1>3, <1>7, <1>8

\* What is known of an own block once the log has grown along the chain.
LEMMA OwnAfterLogging ==
    ASSUME NEW c, NEW own, NEW made, NEW com, Blocks(c, own, made, com), own \subseteq Block,
           NEW r, Leading(r), c.blog \in Anc[r.blog],
           \A x \in c.fdb.valid : r.blog \in Anc[x] /\ x # r.blog => x \in r.fdb.valid,
           NEW b \in own
    PROVE  b \in r.fdb.index \/ b \in Anc[r.blog] \/ r.blog \notin Anc[b]
  <1>1. /\ r.blog \in Block /\ c.blog \in Block /\ b \in Block
        /\ r.fdb.valid \subseteq r.fdb.index /\ r.blog \in Anc[r.blog]
    BY LeadingFacts, AncBasic DEF Blocks
  <1>2. SUFFICES ASSUME r.blog \in Anc[b], b # r.blog, b \notin Anc[r.blog]
                 PROVE  b \in r.fdb.index
    BY <1>1
  <1>3. c.blog \in Anc[b]
    BY <1>1, <1>2, AncTransitive
  <1>4. b \notin Anc[c.blog]
    BY <1>1, <1>2, AncTransitive
  <1>5. b \in c.fdb.index /\ b \in c.fdb.valid
    BY <1>3, <1>4 DEF Blocks
  <1> QED BY <1>1, <1>2, <1>5

\* push_block of a committed block: the head stays, and the block is not preferred over
\* it, or it becomes another committed block, none of the own ones and none of its chain.
LEMMA BlocksPush ==
    ASSUME Bad = {}, NEW c, NEW own, NEW made, NEW com, Grounded(made, com),
           Blocks(c, own, made, com), own \subseteq made, NEW b \in com, CanAdd(c.fdb, b)
    PROVE  LET r == PushBlock(c, b, {}, MaxNum)
           IN  /\ Blocks(r, own, made, com)
               /\ \/ r.head = c.head /\ ~FirstPreferred(b, c.head)
                  \/ r.head \in com \ own /\ r.head \notin Anc[c.head]
  <1>1. PICK r : r = PushBlock(c, b, Bad, MaxNum)
    OBVIOUS
  <1>2. b \in Block /\ made \subseteq Block /\ com \subseteq made /\ Leading(c)
    BY DEF Grounded, Blocks
  <1>3. b \notin own /\ b \notin Anc[c.head] /\ b \notin c.fdb.index
    BY <1>2, AddedNotOwn
  <1>4. MaxNum \in Nat
    BY MaxNumIs
  <1>5. /\ Leading(r) /\ r.fdb.index \subseteq c.fdb.index \cup {b}
        /\ r.fdb.index \cap c.fdb.valid \subseteq r.fdb.valid
        /\ \A x \in c.fdb.valid : r.blog \in Anc[x] /\ x # r.blog => x \in r.fdb.valid
        /\ \/ /\ r.head = c.head /\ r.fdb.valid = c.fdb.valid /\ r.blog = c.blog
              /\ r.fdb.index = c.fdb.index \cup {b} /\ ~FirstPreferred(b, r.head)
           \/ /\ r.head \in (c.fdb.index \cup {b}) \ c.fdb.valid
              /\ r.blog \in Anc[r.head]
        /\ c.blog \in Anc[r.blog]
    <2>1. PICK t : t = PendingHead(Add(c.fdb, b))
      OBVIOUS
    <2>2. NoneBad(Anc[t] \ Anc[c.head])
      BY DEF NoneBad
    <2> QED BY <1>1, <1>2, <1>4, <2>1, <2>2, PushLeading
  <1>6. \/ r.head = c.head /\ ~FirstPreferred(b, c.head)
        \/ r.head \in com \ own /\ r.head \notin Anc[c.head]
    <2>1. CASE r.head = c.head /\ ~FirstPreferred(b, r.head)
      BY <2>1
    <2>2. CASE r.head \in (c.fdb.index \cup {b}) \ c.fdb.valid
      <3>1. r.head \in com \ own
        BY <1>3, <2>2 DEF Blocks
      <3>2. ASSUME r.head \in c.fdb.index, r.head \in Anc[c.blog] PROVE FALSE
        <4>1. PICK fd : fd = c.fdb
          OBVIOUS
        <4>2. FdbOK(fd) /\ fd.root = c.blog /\ c.blog \in Block
          BY <1>2, <4>1, LeadingFacts
        <4>3. Num[fd.root] < Num[r.head] /\ r.head \in Block
          BY <3>2, <4>1, <4>2, IndexAboveRoot DEF FdbOK
        <4>4. Num[r.head] <= Num[c.blog]
          BY <3>2, <4>2, AncNumbers
        <4> QED BY <4>2, <4>3, <4>4, Numbers
      <3>3. r.head \notin Anc[c.head]
        BY <1>2, <1>3, <2>2, <3>2, HeadBranch
      <3> QED BY <3>1, <3>3
    <2> QED BY <1>5, <2>1, <2>2
  <1>7. r.fdb.index \subseteq made /\ r.fdb.index \subseteq r.fdb.valid \cup com
    BY <1>2, <1>5 DEF Blocks
  <1>8. Anc[r.blog] \subseteq com \cup {Genesis}
    <2>1. CASE r.blog = c.blog
      BY <2>1 DEF Blocks
    <2>2. CASE r.head \in com /\ r.blog \in Anc[r.head]
      <3>1. r.head \in Block /\ Anc[r.head] \subseteq com \cup {Genesis}
        BY <2>2, CommittedBranch
      <3>2. Anc[r.blog] \subseteq Anc[r.head]
        BY <2>2, <3>1, AncTransitive
      <3> QED BY <3>1, <3>2
    <2>3. ASSUME r.head \in (c.fdb.index \cup {b}) \ c.fdb.valid PROVE r.head \in com
      BY <2>3 DEF Blocks
    <2> QED BY <1>5, <2>1, <2>2, <2>3
  <1>9. own \cap r.fdb.index \subseteq r.fdb.valid
    BY <1>3, <1>5 DEF Blocks
  <1>10. \A x \in own : x \in r.fdb.index \/ x \in Anc[r.blog] \/ r.blog \notin Anc[x]
    BY <1>2, <1>5, OwnAfterLogging
  <1>11. ASSUME r.head \in own PROVE Fresh(r)
    <2>1. /\ r.head = c.head /\ r.fdb.valid = c.fdb.valid /\ r.blog = c.blog
          /\ r.fdb.index = c.fdb.index \cup {b} /\ ~FirstPreferred(b, r.head)
      BY <1>3, <1>5, <1>11 DEF Blocks
    <2>2. Fresh(c)
      BY <1>11, <2>1 DEF Blocks
    <2>3. Prev[b] # c.head
      <3>1. SUFFICES ASSUME Prev[b] = c.head PROVE FirstPreferred(b, c.head)
        BY <2>1
      <3>2. b \in Block \ {Genesis} /\ c.head \in Block
        BY <1>2, LeadingFacts DEF CanAdd
      <3>3. Anc[b] = {b} \cup Anc[c.head] /\ c.head \in Anc[c.head]
        BY <3>1, <3>2, AncStep, AncBasic
      <3> QED BY <1>3, <3>2, <3>3, AncNumbers
    <2> QED BY <2>1, <2>2, <2>3 DEF Fresh
  <1>12. r.head \in com \cup {Genesis} \cup own
    BY <1>6 DEF Blocks
  <1>13. Blocks(r, own, made, com)
    BY <1>5, <1>7, <1>8, <1>9, <1>10, <1>11, <1>12 DEF Blocks
  <1> QED BY <1>1, <1>6, <1>13

\* A change of the outcome.
LEMMA BlocksEnded ==
    ASSUME NEW c, NEW own, NEW made, NEW com, Blocks(c, own, made, com),
           NEW how \in {"ok", "threw"}
    PROVE  /\ Blocks(Ended(c, how), own, made, com) /\ Ended(c, how).head = c.head
           /\ Ended(c, how).outcome = how
  <1>1. PICK r : r = Ended(c, how)
    OBVIOUS
  <1>2. Leading(c) /\ Sound(c) /\ c \in Controllers /\ how \in Outcomes
    BY LeadingFacts DEF Blocks, Outcomes
  <1>3. /\ r.outcome = how /\ SameLog(r, c) /\ r.fdb = c.fdb /\ r.head = c.head /\ Sound(r)
    BY <1>1, <1>2, EndedIs, EndedSound
  <1>4. Leading(r)
    BY <1>2, <1>3 DEF Leading, SameLog, Irreversible
  <1> QED BY <1>1, <1>3, <1>4 DEF Blocks, Fresh, SameLog

\* log_irreversible once the block of the tracker was committed.
LEMMA BlocksLog ==
    ASSUME NEW c, NEW own, NEW made, NEW com, Grounded(made, com), Blocks(c, own, made, com),
           own \subseteq made, NEW less \in SUBSET own,
           c.head \in com \cup {Genesis}, c.head \notin less
    PROVE  LET r == LogIrreversible([c EXCEPT !.outcome = "ok"], {}, MaxNum)
           IN  Blocks(r, less, made, com) /\ r.head = c.head /\ r.outcome = "ok"
  <1>1. PICK e : e = Ended(c, "ok")
    OBVIOUS
  <1>2. Blocks(e, less, made, com) /\ e.head = c.head /\ e.outcome = "ok"
    <2>1. Blocks(c, less, made, com)
      BY BlocksFewer
    <2> QED BY <1>1, <2>1, BlocksEnded
  <1>3. [c EXCEPT !.outcome = "ok"] = e
    BY <1>1 DEF Ended
  <1>4. PICK none : none = {}
    OBVIOUS
  <1>5. PICK r : r = LogIrreversible(e, none, MaxNum)
    OBVIOUS
  <1>6. MaxNum \in Nat /\ (\A x \in Block : Num[x] <= MaxNum) /\ Leading(e)
        /\ made \subseteq Block /\ less \subseteq Block
    BY <1>2, MaxNumIs DEF Blocks, Grounded
  <1>7. /\ Leading(r) /\ r.head = e.head
        /\ r.fdb.index \subseteq e.fdb.index /\ r.fdb.valid \subseteq e.fdb.valid
        /\ r.fdb.index \cap e.fdb.valid \subseteq r.fdb.valid
        /\ r.fdb.valid = {x \in e.fdb.valid : r.blog \in Anc[x] /\ x # r.blog}
        /\ r.blog \in Anc[e.head] /\ e.blog \in Anc[r.blog] /\ r.outcome = "ok"
    BY <1>2, <1>5, <1>6, LogLeading
  <1>8. Anc[r.blog] \subseteq com \cup {Genesis}
    <2>1. c.head \in Block /\ Anc[c.head] \subseteq com \cup {Genesis}
      BY CommittedBranch
    <2>2. Anc[r.blog] \subseteq Anc[c.head]
      BY <1>2, <1>7, <2>1, AncTransitive
    <2> QED BY <2>1, <2>2
  <1>9. \A x \in less : x \in r.fdb.index \/ x \in Anc[r.blog] \/ r.blog \notin Anc[x]
    BY <1>2, <1>6, <1>7, OwnAfterLogging
  <1>10. Blocks(r, less, made, com)
    BY <1>2, <1>7, <1>8, <1>9 DEF Blocks
  <1> QED BY <1>2, <1>3, <1>4, <1>5, <1>7, <1>10

\* produce_block on a committed head.
LEMMA BlocksBuilt ==
    ASSUME Bad = {}, NEW c, NEW own, NEW made, NEW com, Grounded(made, com),
           Blocks(c, own, made, com), own \subseteq made,
           NEW b \in Block \ {Genesis}, b \notin made, Prev[b] = c.head,
           c.head \in com \cup {Genesis}
    PROVE  /\ Blocks(Built(c, b), own \cup {b}, made \cup {b}, com)
           /\ Built(c, b).head = b
           /\ Grounded(made \cup {b}, com)
  <1>1. PICK r : r = Built(c, b)
    OBVIOUS
  <1>2. /\ Leading(c) /\ b \notin c.fdb.index /\ c.head \in Block /\ b \in Block \ (Bad \cup {Genesis})
        /\ c.fdb.valid \subseteq c.fdb.index /\ c.fdb.root = c.blog /\ FdbOK(c.fdb)
        /\ c.blog \in Block
    BY LeadingFacts DEF Blocks
  <1>3. /\ Leading(r) /\ r.head = b /\ r.blog = c.blog
        /\ r.fdb.index = c.fdb.index \cup {b} /\ r.fdb.valid = c.fdb.valid \cup {b}
    BY <1>1, <1>2, BuiltLeading
  <1>4. b # c.blog
    <2>1. c.blog \in com \cup {Genesis}
      BY <1>2, AncBasic DEF Blocks
    <2> QED BY <2>1 DEF Grounded
  <1>5. Fresh(r)
    <2>1. ASSUME NEW x \in c.fdb.index PROVE Prev[x] # b
      BY <1>2, <1>4, <2>1 DEF FdbOK, Rooted, Known
    <2>2. Prev[b] # b
      BY BlockTreeAssumption
    <2>3. r.fdb.valid \ {b} = c.fdb.valid
      BY <1>2, <1>3
    <2>4. Leads(c.head, c.fdb.valid)
      BY <1>2 DEF Leading
    <2> QED BY <1>3, <1>4, <2>1, <2>2, <2>3, <2>4 DEF Fresh
  <1>6. Blocks(r, own \cup {b}, made \cup {b}, com)
    <2>1. (own \cup {b}) \cap r.fdb.index \subseteq r.fdb.valid
      BY <1>2, <1>3 DEF Blocks
    <2>2. \A x \in own \cup {b} : x \in r.fdb.index \/ x \in Anc[r.blog] \/ r.blog \notin Anc[x]
      BY <1>3 DEF Blocks
    <2>3. r.fdb.index \subseteq made \cup {b} /\ r.fdb.index \subseteq r.fdb.valid \cup com
      BY <1>3 DEF Blocks
    <2>4. Anc[r.blog] \subseteq com \cup {Genesis}
      BY <1>3 DEF Blocks
    <2> QED BY <1>3, <1>5, <2>1, <2>2, <2>3, <2>4 DEF Blocks
  <1>7. Grounded(made \cup {b}, com)
    BY CommittedBranch DEF Grounded
  <1> QED BY <1>1, <1>3, <1>6, <1>7

-----------------------------------------------------------------------------
(* A node *)

\* The blocks it has built that are in flight or have failed.
Mine(nd) == nd.tracker.block \cup nd.failed

\* Those it is to take off its chain, unless it learns that they were committed.
Dead(nd) ==
    (nd.failed \cup (IF nd.tracker.status = "ready" /\ ~nd.tracker.ok
                     THEN nd.tracker.block ELSE {})) \ nd.succ

AtMostOne(S) == S = {} \/ \E b \in Block : S = {b}

Tracking(nd, made, com) ==
    /\ AtMostOne(nd.tracker.block) /\ AtMostOne(nd.failed)
    /\ nd.tracker.block \cap nd.failed = {}
    /\ nd.tracker.status = "none" <=> nd.tracker.block = {}
    /\ nd.tracker.ok => nd.tracker.block \subseteq com
    /\ nd.succ \subseteq com
    /\ Mine(nd) \subseteq made

Core(nd, made, com) ==
    /\ nd \in Nodes
    /\ Tracking(nd, made, com)
    /\ Blocks(nd.ctl, Mine(nd), made, com)
    /\ nd.tracker.block # {} => nd.ctl.head \notin nd.failed

\* The block it is to produce stands on the head, which has not failed.
PendingOK(nd, com) == nd.pending \subseteq {nd.ctl.head} /\ nd.pending \cap nd.failed \subseteq com

\* What a handler that pushes no block may do: complete the block of the tracker and take a
\* dead head off the chain.
Settles(nd, r) ==
    /\ r.succ = nd.succ
    /\ r.tracker = nd.tracker \/ (nd.tracker.status = "ready" /\ r.tracker = NoTracker)
    /\ \/ r.ctl.head = nd.ctl.head /\ Dead(r) \subseteq Dead(nd) /\ Mine(r) \subseteq Mine(nd)
       \/ /\ nd.ctl.head \in Dead(nd) /\ nd.ctl.head \in Block \ {Genesis}
          /\ r.ctl.head = Prev[nd.ctl.head] /\ Mine(r) = {}

\* The parts of a node.
LEMMA NodeTypes ==
    ASSUME NEW nd \in Nodes
    PROVE  /\ nd.ctl \in Controllers /\ nd.pending \in SUBSET Block /\ nd.spare \in SUBSET Block
           /\ nd.mode \in {"producing", "speculating"}
           /\ nd.tracker \in [status : {"none", "pending", "ready"}, block : SUBSET Block,
                              ok : BOOLEAN]
           /\ nd.tracker.status \in {"none", "pending", "ready"}
           /\ nd.tracker.block \in SUBSET Block /\ nd.tracker.ok \in BOOLEAN
           /\ nd.failed \in SUBSET Block /\ nd.succ \in SUBSET Block /\ nd.quit \in BOOLEAN
  BY DEF Nodes

\* No tracker.
LEMMA NoTrackerIs ==
    /\ NoTracker \in [status : {"none", "pending", "ready"}, block : SUBSET Block, ok : BOOLEAN]
    /\ NoTracker.status = "none" /\ NoTracker.block = {} /\ ~NoTracker.ok
  BY DEF NoTracker

\* A dead block is an own one.
LEMMA DeadIsMine ==
    ASSUME NEW nd
    PROVE  Dead(nd) \subseteq Mine(nd) /\ Dead(nd) \cap nd.succ = {}
  BY DEF Dead, Mine

\* One such step after another is one.
LEMMA SettlesTwice ==
    ASSUME NEW a, NEW b, NEW c, Settles(a, b), Settles(b, c)
    PROVE  Settles(a, c)
  <1>1. b.succ = a.succ /\ c.succ = b.succ
    BY DEF Settles
  <1>2. c.tracker = a.tracker \/ (a.tracker.status = "ready" /\ c.tracker = NoTracker)
    BY NoTrackerIs DEF Settles
  <1>3. CASE b.ctl.head = a.ctl.head /\ Dead(b) \subseteq Dead(a) /\ Mine(b) \subseteq Mine(a)
    BY <1>1, <1>2, <1>3 DEF Settles
  <1>4. CASE /\ a.ctl.head \in Dead(a) /\ a.ctl.head \in Block \ {Genesis}
             /\ b.ctl.head = Prev[a.ctl.head] /\ Mine(b) = {}
    <2>1. Dead(b) = {}
      BY <1>4, DeadIsMine
    <2>2. c.ctl.head = b.ctl.head /\ Mine(c) \subseteq Mine(b)
      BY <2>1 DEF Settles
    <2> QED BY <1>1, <1>2, <1>4, <2>2 DEF Settles
  <1> QED BY <1>3, <1>4 DEF Settles

\* Nothing but the pending block, the mode or the wish to quit has changed.
SameBlocks(nd, r) ==
    /\ r \in Nodes /\ r.ctl = nd.ctl /\ r.tracker = nd.tracker
    /\ r.failed = nd.failed /\ r.succ = nd.succ

\* It keeps what the invariant says of a node by itself.
LEMMA SameBlocksOK ==
    ASSUME NEW nd, NEW made, NEW com, Core(nd, made, com), NEW r, SameBlocks(nd, r)
    PROVE  Core(r, made, com) /\ Settles(nd, r)
  <1>1. Mine(r) = Mine(nd) /\ Dead(r) = Dead(nd)
    BY DEF Mine, Dead, SameBlocks
  <1>2. Core(r, made, com)
    BY <1>1 DEF Core, Tracking, SameBlocks
  <1>3. Settles(nd, r)
    BY <1>1 DEF Settles, SameBlocks
  <1> QED BY <1>2, <1>3

\* abort_block.
LEMMA AbortedOK ==
    ASSUME NEW nd, NEW made, NEW com, Grounded(made, com), Core(nd, made, com)
    PROVE  LET r == Aborted(nd)
           IN  /\ Core(r, made, com) /\ Settles(nd, r)
               /\ r.pending = {} /\ r.tracker = nd.tracker /\ r.quit = nd.quit
               /\ \/ /\ r.ctl = nd.ctl /\ r.failed = nd.failed
                     /\ nd.ctl.head \notin nd.failed \ nd.succ
                  \/ /\ nd.ctl.head \in Dead(nd) /\ r.failed = {}
                     /\ nd.tracker.block = {}
  <1>1. PICK r : r = Aborted(nd)
    OBVIOUS
  <1>2. PICK drop : drop = nd.failed \ nd.succ
    OBVIOUS
  <1>3. /\ nd \in Nodes /\ Blocks(nd.ctl, Mine(nd), made, com) /\ Tracking(nd, made, com)
        /\ Mine(nd) \subseteq made /\ nd.ctl.fdb.head = nd.ctl.head
    BY LeadingFacts DEF Core, Blocks, Tracking
  <1>4. Aborts(drop, nd.ctl) <=> nd.ctl.head \in drop
    BY <1>3 DEF Aborts
  <1>5. CASE nd.ctl.head \notin drop
    <2>1. r = [nd EXCEPT !.pending = {}, !.spare = {}, !.ctl = nd.ctl, !.failed = nd.failed]
      BY <1>1, <1>2, <1>4, <1>5, Zenon DEF Aborted, AfterAbort
    <2>2. /\ r \in Nodes /\ r.pending = {} /\ r.ctl = nd.ctl /\ r.tracker = nd.tracker
          /\ r.failed = nd.failed /\ r.succ = nd.succ /\ r.quit = nd.quit
      BY <1>3, <2>1, Zenon DEF Nodes
    <2>3. Mine(r) = Mine(nd) /\ Dead(r) = Dead(nd)
      BY <2>2 DEF Mine, Dead
    <2>4. Core(r, made, com)
      BY <2>2, <2>3 DEF Core, Tracking
    <2>5. Settles(nd, r)
      BY <2>2, <2>3 DEF Settles
    <2> QED BY <1>1, <1>2, <1>5, <2>2, <2>4, <2>5
  <1>6. CASE nd.ctl.head \in drop
    <2>1. PICK c : c = DropHead(nd.ctl)
      OBVIOUS
    <2>2. nd.ctl.head \in Mine(nd) /\ nd.ctl.head \in Dead(nd) /\ nd.tracker.block = {}
      BY <1>2, <1>6 DEF Mine, Dead, Core
    <2>3. /\ Blocks(c, {}, made, com) /\ c.head = Prev[nd.ctl.head]
          /\ nd.ctl.head \in Block \ {Genesis}
      BY <1>3, <2>1, <2>2, BlocksDrop
    <2>4. c \in Controllers
      BY <2>3, LeadingFacts DEF Blocks
    <2>5. r = [nd EXCEPT !.pending = {}, !.spare = {}, !.ctl = c, !.failed = {}]
      BY <1>1, <1>2, <1>4, <1>6, <2>1, Zenon DEF Aborted, AfterAbort
    <2>6. /\ r \in Nodes /\ r.pending = {} /\ r.ctl = c /\ r.tracker = nd.tracker
          /\ r.failed = {} /\ r.succ = nd.succ /\ r.quit = nd.quit
      BY <1>3, <2>4, <2>5, Zenon DEF Nodes
    <2>7. Mine(r) = {}
      BY <2>2, <2>6 DEF Mine
    <2>8. Core(r, made, com)
      <3>1. Tracking(r, made, com)
        BY <1>3, <2>6, <2>7 DEF Tracking, AtMostOne
      <3> QED BY <2>3, <2>6, <2>7, <3>1 DEF Core
    <2>9. Settles(nd, r)
      BY <2>2, <2>3, <2>6, <2>7 DEF Settles
    <2> QED BY <1>1, <2>2, <2>6, <2>8, <2>9
  <1> QED BY <1>5, <1>6

\* complete_produced_block: the block has failed, or was committed and is announced.
LEMMA CompletedOK ==
    ASSUME NEW nd, NEW made, NEW com, Grounded(made, com), Core(nd, made, com),
           nd.tracker.status = "ready"
    PROVE  LET r == Completed(nd)
           IN  /\ Core(r, made, com) /\ Settles(nd, r)
               /\ r.pending = nd.pending /\ r.tracker = NoTracker /\ r.quit = nd.quit
               /\ r.ctl.head = nd.ctl.head
               /\ \/ HasFailed(r, nd.tracker.block)
                  \/ /\ ~HasFailed(r, nd.tracker.block) /\ nd.tracker.block \subseteq com
                     /\ r.failed = nd.failed
  <1>1. PICK r : r = Completed(nd)
    OBVIOUS
  <1>2. PICK bs : bs = nd.tracker.block
    OBVIOUS
  <1>3. /\ nd \in Nodes /\ Blocks(nd.ctl, Mine(nd), made, com) /\ Tracking(nd, made, com)
        /\ Mine(nd) \subseteq made /\ bs \in SUBSET Block
    BY <1>2, NodeTypes DEF Core, Tracking
  <1>4. /\ bs # {} /\ AtMostOne(bs) /\ bs \cap nd.failed = {} /\ Mine(nd) = bs \cup nd.failed
        /\ nd.ctl.head \notin nd.failed /\ AtMostOne(nd.failed)
    BY <1>2, <1>3 DEF Tracking, Mine, Core
  <1>5. CASE ~nd.tracker.ok
    <2>1. r = [nd EXCEPT !.tracker = NoTracker, !.failed = bs]
      BY <1>1, <1>2, <1>5, Zenon DEF Completed
    <2>2. /\ r \in Nodes /\ r.pending = nd.pending /\ r.ctl = nd.ctl /\ r.tracker = NoTracker
          /\ r.failed = bs /\ r.succ = nd.succ /\ r.quit = nd.quit
      BY <1>3, <2>1, NoTrackerIs, Zenon DEF Nodes
    <2>3. Mine(r) = bs /\ Dead(r) = bs \ nd.succ
      BY <2>2, NoTrackerIs DEF Mine, Dead
    <2>4. Dead(r) \subseteq Dead(nd)
      BY <1>2, <1>5, <2>3 DEF Dead
    <2>5. Core(r, made, com)
      <3>1. Tracking(r, made, com)
        BY <1>3, <1>4, <2>2, <2>3, NoTrackerIs DEF Tracking, AtMostOne
      <3>2. r.ctl.head \in com \cup {Genesis} \cup bs
        BY <1>3, <1>4, <2>2 DEF Blocks
      <3>3. Blocks(r.ctl, bs, made, com)
        BY <1>3, <1>4, <2>2, <3>2, BlocksFewer
      <3> QED BY <2>2, <2>3, <3>1, <3>3, NoTrackerIs DEF Core
    <2>6. Settles(nd, r)
      BY <1>4, <2>2, <2>3, <2>4 DEF Settles
    <2> QED BY <1>1, <1>2, <2>2, <2>5, <2>6 DEF HasFailed
  <1>6. CASE nd.tracker.ok
    <2>1. PICK c : c = LogIrreversible([nd.ctl EXCEPT !.outcome = "ok"], {}, MaxNum)
      OBVIOUS
    <2>2. bs \subseteq com /\ nd.ctl.head \in com \cup {Genesis}
      BY <1>2, <1>3, <1>4, <1>6 DEF Tracking, Blocks
    <2>3. Blocks(c, nd.failed, made, com) /\ c.head = nd.ctl.head /\ c.outcome = "ok"
      <3>1. nd.failed \in SUBSET Mine(nd)
        BY <1>4
      <3>2. PICK ctl : ctl = nd.ctl
        OBVIOUS
      <3>3. LET e == LogIrreversible([ctl EXCEPT !.outcome = "ok"], {}, MaxNum)
            IN  Blocks(e, nd.failed, made, com) /\ e.head = ctl.head /\ e.outcome = "ok"
        BY <1>3, <1>4, <2>2, <3>1, <3>2, BlocksLog
      <3> QED BY <2>1, <3>2, <3>3
    <2>4. c \in Controllers
      BY <2>3, LeadingFacts DEF Blocks
    <2>5. r = [nd EXCEPT !.tracker = NoTracker, !.ctl = c, !.failed = nd.failed]
      BY <1>1, <1>6, <2>1, <2>3, Zenon DEF Completed
    <2>6. /\ r \in Nodes /\ r.pending = nd.pending /\ r.ctl = c /\ r.tracker = NoTracker
          /\ r.failed = nd.failed /\ r.succ = nd.succ /\ r.quit = nd.quit
      BY <1>3, <2>4, <2>5, NoTrackerIs, Zenon DEF Nodes
    <2>7. Mine(r) = nd.failed /\ Dead(r) = nd.failed \ nd.succ
      BY <2>6, NoTrackerIs DEF Mine, Dead
    <2>8. Dead(r) \subseteq Dead(nd) /\ Mine(r) \subseteq Mine(nd)
      BY <2>7 DEF Dead, Mine
    <2>9. Core(r, made, com)
      <3>1. Tracking(r, made, com)
        BY <1>3, <1>4, <2>6, <2>7, NoTrackerIs DEF Tracking, AtMostOne
      <3> QED BY <2>3, <2>6, <2>7, <3>1, NoTrackerIs DEF Core
    <2>10. Settles(nd, r)
      BY <2>3, <2>6, <2>8 DEF Settles
    <2>11. ~HasFailed(r, bs)
      BY <1>4, <2>6 DEF HasFailed
    <2> QED BY <1>1, <1>2, <2>2, <2>3, <2>6, <2>9, <2>10, <2>11
  <1> QED BY <1>3, <1>5, <1>6

\* start_block: the pending block stands on the head, from which a dead one was taken.
LEMMA StartedOK ==
    ASSUME NEW nd, NEW made, NEW com, Grounded(made, com), Core(nd, made, com),
           NEW mode \in {"producing", "speculating"}
    PROVE  LET r == Started(nd, mode)
           IN  /\ Core(r, made, com) /\ Settles(nd, r) /\ PendingOK(r, com)
               /\ r.tracker = nd.tracker
               /\ \/ r.pending = {}
                  \/ /\ mode = "producing" /\ r.pending = {r.ctl.head}
                     /\ (r.ctl.head = nd.ctl.head \/ nd.ctl.head \in Dead(nd))
  <1>1. PICK a : a = Aborted(nd)
    OBVIOUS
  <1>2. /\ Core(a, made, com) /\ Settles(nd, a) /\ a.pending = {} /\ a.tracker = nd.tracker
        /\ \/ /\ a.ctl = nd.ctl /\ a.failed = nd.failed
              /\ nd.ctl.head \notin nd.failed \ nd.succ
           \/ nd.ctl.head \in Dead(nd) /\ a.failed = {}
    BY <1>1, AbortedOK
  <1>3. PICK ps, sp : /\ ps = IF mode = "producing" THEN {a.ctl.head} ELSE {}
                      /\ sp = IF mode = "producing" THEN {} ELSE {a.ctl.head}
    OBVIOUS
  <1>4. a.ctl.head \in Block
    BY <1>2, LeadingFacts DEF Core, Blocks
  <1>5. ps \in SUBSET Block /\ sp \in SUBSET Block
    BY <1>3, <1>4
  <1>6. PICK r : r = [a EXCEPT !.mode = mode, !.pending = ps, !.spare = sp]
    OBVIOUS
  <1>7. Started(nd, mode) = r
    BY <1>1, <1>3, <1>6, Zenon DEF Started
  <1>8. /\ Core(r, made, com) /\ Settles(a, r) /\ r.pending = ps /\ r.ctl = a.ctl
        /\ r.tracker = a.tracker /\ r.failed = a.failed /\ r.succ = a.succ
    <2>1. a \in Nodes
      BY <1>2 DEF Core
    <2>2. /\ r \in Nodes /\ r.pending = ps /\ r.ctl = a.ctl
          /\ r.tracker = a.tracker /\ r.failed = a.failed /\ r.succ = a.succ
      BY <1>5, <1>6, <2>1, Zenon DEF Nodes
    <2> QED BY <1>2, <2>2, SameBlocksOK DEF SameBlocks
  <1>9. Settles(nd, r)
    BY <1>2, <1>8, SettlesTwice
  <1>10. PendingOK(r, com)
    <2>1. ASSUME nd.ctl.head \in nd.succ PROVE nd.ctl.head \in com
      BY <2>1 DEF Core, Tracking
    <2> QED BY <1>2, <1>3, <1>8, <2>1 DEF PendingOK
  <1> QED BY <1>2, <1>3, <1>7, <1>8, <1>9, <1>10

\* How the production loop leaves the pending block.
LoopPending(n, nd, r) ==
    \/ r.pending = {}
    \/ r.pending = nd.pending
    \/ /\ CanProduce(n, nd) /\ r.pending = {r.ctl.head}
       /\ (r.ctl.head = nd.ctl.head \/ nd.ctl.head \in Dead(nd))

\* schedule_production_loop.
LEMMA LoopedOK ==
    ASSUME NEW n \in Node, NEW nd, NEW made, NEW com, Grounded(made, com),
           Core(nd, made, com), PendingOK(nd, com), NEW l \in Looped(n, nd)
    PROVE  /\ Core(l.nd, made, com) /\ Settles(nd, l.nd) /\ PendingOK(l.nd, com)
           /\ l.announced \subseteq com /\ LoopPending(n, nd, l.nd)
  <1> DEFINE Modes2 == {m \in {"producing", "speculating"} : Starting(n, nd, m)}
             S == {Started(nd, mode) : mode \in Modes2}
  <1>1. \/ l \in NotStarted(nd)
        \/ \E s \in S : l = Result(s, {})
        \/ \E s \in S : s.tracker.status = "ready" /\ l = StartedAndCompleted(s)
    BY DEF Looped
  <1>2. ASSUME NEW s \in S
        PROVE  /\ Core(s, made, com) /\ Settles(nd, s) /\ PendingOK(s, com)
               /\ s.tracker = nd.tracker
               /\ \/ s.pending = {}
                  \/ /\ CanProduce(n, nd) /\ s.pending = {s.ctl.head}
                     /\ (s.ctl.head = nd.ctl.head \/ nd.ctl.head \in Dead(nd))
    <2>1. PICK mode \in {"producing", "speculating"} : s = Started(nd, mode) /\ Starting(n, nd, mode)
      OBVIOUS
    <2>2. mode = "producing" => CanProduce(n, nd)
      BY <2>1 DEF Starting
    <2> QED BY <2>1, <2>2, StartedOK
  <1>3. CASE l \in NotStarted(nd)
    <2>1. nd \in Nodes /\ nd.pending \in SUBSET Block
      BY NodeTypes DEF Core
    <2>2. PICK mode \in {"producing", "speculating"} : l = Result([nd EXCEPT !.mode = mode], {})
      BY <1>3 DEF NotStarted
    <2>3. PICK r : r = [nd EXCEPT !.mode = mode]
      OBVIOUS
    <2>4. /\ Core(r, made, com) /\ Settles(nd, r) /\ r.pending = nd.pending /\ r.ctl = nd.ctl
          /\ r.failed = nd.failed
      <3>1. /\ r \in Nodes /\ r.pending = nd.pending /\ r.ctl = nd.ctl
            /\ r.tracker = nd.tracker /\ r.failed = nd.failed /\ r.succ = nd.succ
        BY <2>1, <2>3, Zenon DEF Nodes
      <3> QED BY <3>1, SameBlocksOK DEF SameBlocks
    <2>5. l.nd = r /\ l.announced = {}
      BY <2>2, <2>3 DEF Result
    <2> QED BY <2>4, <2>5 DEF PendingOK, LoopPending
  <1>4. ASSUME NEW s \in S, l = Result(s, {})
        PROVE  /\ Core(l.nd, made, com) /\ Settles(nd, l.nd) /\ PendingOK(l.nd, com)
               /\ l.announced \subseteq com /\ LoopPending(n, nd, l.nd)
    <2>1. l.nd = s /\ l.announced = {}
      BY <1>4 DEF Result
    <2> HIDE DEF S
    <2> QED BY <1>2, <1>4, <2>1 DEF LoopPending
  <1>5. ASSUME NEW s \in S, s.tracker.status = "ready", l = StartedAndCompleted(s)
        PROVE  /\ Core(l.nd, made, com) /\ Settles(nd, l.nd) /\ PendingOK(l.nd, com)
               /\ l.announced \subseteq com /\ LoopPending(n, nd, l.nd)
    <2> HIDE DEF S
    <2>1. PICK c : c = Completed(s)
      OBVIOUS
    <2>2. /\ Core(s, made, com) /\ Settles(nd, s) /\ PendingOK(s, com)
          /\ \/ s.pending = {}
             \/ /\ CanProduce(n, nd) /\ s.pending = {s.ctl.head}
                /\ (s.ctl.head = nd.ctl.head \/ nd.ctl.head \in Dead(nd))
      BY <1>2, <1>5
    <2>3. /\ Core(c, made, com) /\ Settles(s, c) /\ c.pending = s.pending
          /\ c.ctl.head = s.ctl.head /\ c \in Nodes
          /\ \/ HasFailed(c, s.tracker.block)
             \/ /\ ~HasFailed(c, s.tracker.block) /\ s.tracker.block \subseteq com
                /\ c.failed = s.failed
      BY <1>5, <2>1, <2>2, CompletedOK DEF Core
    <2>4. Settles(nd, c)
      BY <2>2, <2>3, SettlesTwice
    <2>5. CASE HasFailed(c, s.tracker.block)
      <3>1. PICK sp, r : /\ sp = c.pending \cup c.spare
                         /\ r = [c EXCEPT !.pending = {}, !.spare = sp]
        OBVIOUS
      <3>2. sp \in SUBSET Block
        BY <2>3, <3>1, NodeTypes
      <3>3. l.nd = r /\ l.announced = {}
        BY <1>5, <2>1, <2>5, <3>1 DEF StartedAndCompleted, Result
      <3>4. /\ r \in Nodes /\ r.pending = {} /\ r.ctl = c.ctl
            /\ r.tracker = c.tracker /\ r.failed = c.failed /\ r.succ = c.succ
        BY <2>3, <3>1, <3>2, Zenon DEF Nodes
      <3>5. Core(r, made, com) /\ Settles(c, r) /\ r.pending = {}
        BY <2>3, <3>4, SameBlocksOK DEF SameBlocks
      <3>6. Settles(nd, r)
        BY <2>4, <3>5, SettlesTwice
      <3> QED BY <3>3, <3>5, <3>6 DEF PendingOK, LoopPending
    <2>6. CASE ~HasFailed(c, s.tracker.block)
      <3>1. l.nd = c /\ l.announced = s.tracker.block
        BY <1>5, <2>1, <2>6 DEF StartedAndCompleted, Result
      <3> QED BY <2>2, <2>3, <2>4, <2>6, <3>1 DEF PendingOK, LoopPending
    <2> QED BY <2>5, <2>6
  <1> QED BY <1>1, <1>3, <1>4, <1>5

\* What a handler does that pushes a block: the head may change to a committed block, which
\* is none of the own ones and not on the chain yet.
Switches(nd, r, com) ==
    /\ r.succ = nd.succ /\ r.tracker = nd.tracker /\ r.failed = nd.failed
    /\ \/ r.ctl.head = nd.ctl.head
       \/ r.ctl.head \in com \ Mine(nd) /\ r.ctl.head \notin Anc[nd.ctl.head]

\* A committed block is pushed: one that would be a better head becomes the head.
LEMMA PushedOK ==
    ASSUME Bad = {}, NEW nd, NEW made, NEW com, Grounded(made, com), Core(nd, made, com),
           NEW b \in com
    PROVE  LET a == Aborted(nd)
               r == Pushed(nd, b)
           IN  /\ Core(a, made, com) /\ Core(r, made, com)
               /\ Settles(nd, a) /\ Switches(a, r, com) /\ PendingOK(r, com) /\ r.pending = {}
               /\ nd.tracker.block # {} => a.ctl = nd.ctl
               /\ r.ctl.outcome # "threw" =>
                    r.ctl.head # a.ctl.head \/ ~FirstPreferred(b, a.ctl.head)
  <1>1. PICK a : a = Aborted(nd)
    OBVIOUS
  <1>2. /\ Core(a, made, com) /\ Settles(nd, a) /\ a.pending = {} /\ a \in Nodes
        /\ nd.tracker.block # {} => a.ctl = nd.ctl
    BY <1>1, AbortedOK DEF Core
  <1>3. /\ Blocks(a.ctl, Mine(a), made, com) /\ Mine(a) \subseteq made
    BY <1>2 DEF Core, Tracking
  <1>4. PICK c : c = IF CanAdd(a.ctl.fdb, b) THEN PushBlock(a.ctl, b, {}, MaxNum)
                     ELSE Ended(a.ctl, "threw")
    OBVIOUS
  <1>5. /\ Blocks(c, Mine(a), made, com)
        /\ \/ c.head = a.ctl.head
           \/ c.head \in com \ Mine(a) /\ c.head \notin Anc[a.ctl.head]
        /\ c.outcome # "threw" => c.head # a.ctl.head \/ ~FirstPreferred(b, a.ctl.head)
    <2>1. PICK ctl : ctl = a.ctl
      OBVIOUS
    <2>2. CASE CanAdd(ctl.fdb, b)
      <3>1. c = PushBlock(ctl, b, {}, MaxNum)
        BY <1>4, <2>1, <2>2
      <3>2. LET r == PushBlock(ctl, b, {}, MaxNum)
            IN  /\ Blocks(r, Mine(a), made, com)
                /\ \/ r.head = ctl.head /\ ~FirstPreferred(b, ctl.head)
                   \/ r.head \in com \ Mine(a) /\ r.head \notin Anc[ctl.head]
        BY <1>3, <2>1, <2>2, BlocksPush
      <3>3. ctl.head \in Anc[ctl.head]
        BY <1>3, <2>1, LeadingFacts, AncBasic DEF Blocks
      <3> QED BY <2>1, <3>1, <3>2, <3>3
    <2>3. CASE ~CanAdd(ctl.fdb, b)
      <3>1. c = Ended(ctl, "threw")
        BY <1>4, <2>1, <2>3
      <3>2. PICK how \in {"ok", "threw"} : how = "threw"
        OBVIOUS
      <3>3. Blocks(c, Mine(a), made, com) /\ c.head = ctl.head /\ c.outcome = how
        BY <1>3, <2>1, <3>1, <3>2, BlocksEnded
      <3> QED BY <2>1, <3>2, <3>3
    <2> QED BY <2>2, <2>3
  <1>6. c \in Controllers
    BY <1>5, LeadingFacts DEF Blocks
  <1>7. PICK r : r = [a EXCEPT !.ctl = c]
    OBVIOUS
  <1>8. Pushed(nd, b) = r
    BY <1>1, <1>4, <1>7, Zenon DEF Pushed
  <1>9. /\ r \in Nodes /\ r.pending = {} /\ r.ctl = c /\ r.tracker = a.tracker
        /\ r.failed = a.failed /\ r.succ = a.succ
    BY <1>2, <1>6, <1>7, Zenon DEF Nodes
  <1>10. Mine(r) = Mine(a)
    BY <1>9 DEF Mine
  <1>11. Core(r, made, com)
    <2>1. Tracking(r, made, com)
      BY <1>2, <1>9, <1>10 DEF Core, Tracking
    <2>2. r.tracker.block # {} => r.ctl.head \notin r.failed
      BY <1>2, <1>5, <1>9 DEF Core, Mine
    <2> QED BY <1>5, <1>9, <1>10, <2>1, <2>2 DEF Core
  <1>12. Switches(a, r, com) /\ PendingOK(r, com)
    BY <1>5, <1>9 DEF Switches, PendingOK
  <1> QED BY <1>1, <1>2, <1>5, <1>8, <1>9, <1>11, <1>12

-----------------------------------------------------------------------------
(* The group *)

\* Entry e may come before entry f in a log: terms do not decrease, and the block of f is
\* built on the one of e.
Before(e, f) ==
    /\ e.term <= f.term
    /\ \A x \in e.block, y \in f.block : x \in Anc[Prev[y]]

EntryIn(e, t, made) == e.term \in 1..t /\ (e.block = {} \/ \E b \in made : e.block = {b})
EntryOK(e) == EntryIn(e, term, built)

\* The committed entries followed by what a node has after them are in order.
LogsOK ==
    /\ \A i \in 1..Len(clog) : EntryOK(clog[i])
    /\ \A m \in Node : \A i \in 1..Len(tail[m]) : EntryOK(tail[m][i])
    /\ \A i, j \in 1..Len(clog) : i < j => Before(clog[i], clog[j])
    /\ \A m \in Node : \A i \in 1..Len(clog), j \in 1..Len(tail[m]) :
          Before(clog[i], tail[m][j])
    /\ \A m \in Node : \A i, j \in 1..Len(tail[m]) : i < j => Before(tail[m][i], tail[m][j])

\* One leader for each term, which has seen nothing of a later one.
LeadersOK ==
    /\ \A n, m \in Node : lead[n] # 0 /\ lead[n] = lead[m] => n = m
    /\ \A n \in Node : lead[n] # 0 =>
          /\ TermAt(done[n]) <= lead[n]
          /\ \A i \in 1..Len(tail[n]) : tail[n][i].term <= lead[n]

RaftTypes ==
    /\ term \in 0..MaxTerm /\ lead \in [Node -> 0..term]
    /\ clog \in Seq(Entries) /\ tail \in [Node -> Seq(Entries)]
    /\ done \in [Node -> 0..Len(clog)]

\* What a node has applied; a block no log has.
AppliedBy(n) == UNION {clog[i].block : i \in 1..done[n]}
Unlogged(b) ==
    /\ b \notin Committed
    /\ \A m \in Node : \A i \in 1..Len(tail[m]) : b \notin tail[m][i].block

\* The group has committed nothing of a later leader.
Current(n) == lead[n] # 0 /\ TermAt(Len(clog)) <= lead[n]

\* The block the signing thread waits for; the entries of the leader's term that it has not
\* applied have no block but those of S.
InFlight(nd, j) == IF j = "waiting" THEN nd.tracker.block ELSE {}
OwnTerm(n, S) ==
    /\ \A i \in 1..Len(clog) : i > done[n] /\ clog[i].term = lead[n] => clog[i].block \subseteq S
    /\ \A m \in Node : \A i \in 1..Len(tail[m]) :
          tail[m][i].term = lead[n] => tail[m][i].block \subseteq S

\* A node and the group.  A node that leads has taken no dead block along that a log has,
\* and the block it builds stands on everything the group can have committed.
Group(n, nd, j) ==
    /\ j = "none" <=> nd.tracker.status # "pending"
    /\ nd.tracker.ok => nd.tracker.status = "ready"
    /\ j = "signing" => \A b \in nd.tracker.block : Unlogged(b)
    /\ lead[n] # 0 /\ nd.ctl.head \in Dead(nd) => Unlogged(nd.ctl.head)
    /\ lead[n] # 0 /\ nd.tracker.status = "pending" => TermAt(done[n]) = lead[n]
    /\ Current(n) => OwnTerm(n, InFlight(nd, j))
    /\ Current(n) /\ nd.tracker.status = "pending" =>
          \A b \in nd.tracker.block :
             /\ nd.ctl.head = b
             /\ AppliedBy(n) \subseteq Anc[b]
             /\ j = "signing" => AppliedBy(n) \subseteq Anc[Prev[b]]

\* The block a leader is to produce will do so, too.
Waits(n, nd) ==
    /\ lead[n] # 0 /\ nd.pending # {} => TermAt(done[n]) = lead[n]
    /\ Current(n) => \A p \in nd.pending : AppliedBy(n) \subseteq Anc[p]

\* The blocks that were committed and handed to the main thread, and the tasks with the rest.
HandledOf(n, ts) ==
    {b \in Block : /\ \E i \in 1..done[n] : clog[i].block = {b}
                   /\ \A i \in DOMAIN ts : ts[i] # b}
TasksOK(n, nd, ts) ==
    /\ ts \in Seq(Block)
    /\ \A i \in 1..Len(ts) : ts[i] \in AppliedBy(n)
    /\ \A i, j \in 1..Len(ts) : i < j => ts[i] \in Anc[Prev[ts[j]]]
    /\ \A x \in HandledOf(n, ts), i \in 1..Len(ts) : x \in Anc[Prev[ts[i]]]
    /\ nd.succ \subseteq HandledOf(n, ts)
    /\ nd.ctl.head \in Mine(nd) \cap HandledOf(n, ts) => nd.ctl.head \in nd.succ

\* One node.
NodeInv(n, nd, j, ts, made) ==
    /\ Core(nd, made, Committed) /\ PendingOK(nd, Committed)
    /\ Group(n, nd, j) /\ Waits(n, nd)
    /\ TasksOK(n, nd, ts)

\* The logs and the leaders.
RaftOK == RaftTypes /\ LogsOK /\ LeadersOK /\ Grounded(built, Committed)

Inv ==
    /\ RaftOK
    /\ node \in [Node -> Nodes] /\ tasks \in [Node -> Seq(Block)]
    /\ job \in [Node -> {"none", "signing", "waiting"}]
    /\ \A n \in Node : NodeInv(n, node[n], job[n], tasks[n], built)
    /\ \A n, m \in Node : n # m => Mine(node[n]) \cap Mine(node[m]) = {}
    /\ published \subseteq Committed

-----------------------------------------------------------------------------
(* Facts about the logs *)

\* The types of a committed entry and of one in a tail.
LEMMA EntryTypes ==
    ASSUME RaftOK
    PROVE  /\ Len(clog) \in Nat /\ DOMAIN clog = 1..Len(clog)
           /\ \A i \in 1..Len(clog) : /\ clog[i] \in Entries /\ clog[i].term \in Nat
                                      /\ clog[i].term \in 1..term
                                      /\ clog[i].block \subseteq built
           /\ \A m \in Node :
                 /\ tail[m] \in Seq(Entries) /\ Len(tail[m]) \in Nat
                 /\ \A i \in 1..Len(tail[m]) : /\ tail[m][i] \in Entries
                                               /\ tail[m][i].term \in Nat
                                               /\ tail[m][i].term \in 1..term
                                               /\ tail[m][i].block \subseteq built
           /\ \A n \in Node : done[n] \in Nat /\ done[n] <= Len(clog) /\ lead[n] \in Nat
           /\ term \in Nat /\ built \subseteq Block \ {Genesis}
  <1>1. /\ clog \in Seq(Entries) /\ tail \in [Node -> Seq(Entries)] /\ term \in Nat
        /\ LogsOK /\ built \subseteq Block \ {Genesis}
    BY ProducerHAAssumption DEF RaftOK, RaftTypes, Grounded
  <1>2. Len(clog) \in Nat /\ DOMAIN clog = 1..Len(clog)
    BY <1>1, LenProperties
  <1>3. ASSUME NEW i \in 1..Len(clog)
        PROVE  /\ clog[i] \in Entries /\ clog[i].term \in Nat
               /\ clog[i].term \in 1..term /\ clog[i].block \subseteq built
    <2>1. clog[i] \in Entries
      BY <1>1, ElementOfSeq
    <2> QED BY <1>1, <2>1 DEF LogsOK, EntryOK, EntryIn
  <1>4. ASSUME NEW m \in Node PROVE tail[m] \in Seq(Entries) /\ Len(tail[m]) \in Nat
    BY <1>1, LenProperties
  <1>5. ASSUME NEW m \in Node, NEW i \in 1..Len(tail[m])
        PROVE  /\ tail[m][i] \in Entries /\ tail[m][i].term \in Nat
               /\ tail[m][i].term \in 1..term /\ tail[m][i].block \subseteq built
    <2>1. tail[m][i] \in Entries
      BY <1>4, ElementOfSeq
    <2> QED BY <1>1, <2>1 DEF LogsOK, EntryOK, EntryIn
  <1>6. ASSUME NEW n \in Node
        PROVE  done[n] \in Nat /\ done[n] <= Len(clog) /\ lead[n] \in Nat
    <2>1. done[n] \in 0..Len(clog) /\ lead[n] \in 0..term
      BY DEF RaftOK, RaftTypes
    <2> QED BY <1>1, <1>2, <2>1
  <1> QED BY <1>1, <1>2, <1>3, <1>4, <1>5, <1>6

\* The committed blocks are those of the entries.
LEMMA CommittedIs ==
    ASSUME RaftOK
    PROVE  /\ \A x : x \in Committed <=> \E i \in 1..Len(clog) : x \in clog[i].block
           /\ \A n \in Node : AppliedBy(n) \subseteq Committed
  <1>1. DOMAIN clog = 1..Len(clog) /\ \A n \in Node : \A i \in 1..done[n] : i \in 1..Len(clog)
    BY EntryTypes
  <1>2. \A x : x \in Committed <=> \E i \in 1..Len(clog) : x \in clog[i].block
    BY <1>1 DEF Committed
  <1> QED BY <1>1, <1>2 DEF AppliedBy

\* No block is below itself.
LEMMA NotBelowItself ==
    ASSUME NEW b \in Block \ {Genesis}, NEW a \in Anc[Prev[b]]
    PROVE  a \in Block /\ a # b /\ Num[a] < Num[b] /\ a \in Anc[b] /\ b \notin Anc[a]
  <1>1. Prev[b] \in Block /\ Anc[b] = {b} \cup Anc[Prev[b]]
    BY AncStep
  <1>2. a \in Block /\ Num[a] <= Num[Prev[b]] /\ Num[b] = Num[Prev[b]] + 1
    BY <1>1, AncNumbers, BlockTreeAssumption
  <1>3. Num[a] \in Nat /\ Num[Prev[b]] \in Nat
    BY <1>1, <1>2, Numbers
  <1>4. Num[a] < Num[b]
    BY <1>2, <1>3
  <1>5. ASSUME b \in Anc[a] PROVE FALSE
    <2>1. Num[b] <= Num[a]
      BY <1>2, <1>5, AncNumbers
    <2> QED BY <1>2, <1>3, <2>1
  <1> QED BY <1>1, <1>2, <1>3, <1>4, <1>5

\* The committed blocks are one chain.
LEMMA CommittedChain ==
    ASSUME RaftOK, NEW x \in Committed, NEW y \in Committed
    PROVE  /\ x \in Block \ {Genesis} /\ y \in Block \ {Genesis}
           /\ x = y \/ x \in Anc[Prev[y]] \/ y \in Anc[Prev[x]]
  <1>1. PICK i \in 1..Len(clog) : x \in clog[i].block
    BY CommittedIs
  <1>2. PICK j \in 1..Len(clog) : y \in clog[j].block
    BY CommittedIs
  <1>3. x \in Block \ {Genesis} /\ y \in Block \ {Genesis}
    BY <1>1, <1>2, EntryTypes
  <1>4. Len(clog) \in Nat
    BY EntryTypes
  <1>5. CASE i = j
    BY <1>1, <1>2, <1>3, <1>5 DEF RaftOK, LogsOK, EntryOK, EntryIn
  <1>6. CASE i < j
    BY <1>1, <1>2, <1>3, <1>6 DEF RaftOK, LogsOK, Before
  <1>7. CASE j < i
    BY <1>1, <1>2, <1>3, <1>7 DEF RaftOK, LogsOK, Before
  <1> QED BY <1>4, <1>5, <1>6, <1>7

\* The head of the state machine is the last block a node has applied.
LEMMA RaftHeadIs ==
    ASSUME RaftOK, NEW n \in Node
    PROVE  \/ RaftHead(n) = {} /\ AppliedBy(n) = {}
           \/ \E r \in AppliedBy(n) : RaftHead(n) = {r} /\ AppliedBy(n) \subseteq Anc[r]
  <1> DEFINE at == {i \in 1..done[n] : clog[i].block # {}}
  <1>1. /\ done[n] \in Nat /\ \A i \in 1..done[n] : i \in 1..Len(clog)
    BY EntryTypes
  <1>2. CASE at = {}
    BY <1>2 DEF RaftHead, AppliedBy
  <1>3. CASE at # {}
    <2>1. at \in SUBSET Nat /\ at \subseteq 1..done[n]
      BY <1>1
    <2>2. IsFiniteSet(1..done[n])
      BY <1>1, FS_Interval
    <2>3. IsFiniteSet(at)
      BY <2>1, <2>2, FS_Subset
    <2>4. \E k \in at : \A j \in at : j <= k
      <3> HIDE DEF at
      <3> QED BY <1>3, <2>1, <2>3, GreatestNatural
    <2>5. PICK k : k = CHOOSE i \in at : \A j \in at : j <= i
      OBVIOUS
    <2>6. k \in at /\ \A j \in at : j <= k
      <3> HIDE DEF at
      <3> QED BY <2>4, <2>5
    <2>7. RaftHead(n) = clog[k].block
      BY <1>3, <2>5 DEF RaftHead
    <2>8. PICK r \in built : clog[k].block = {r}
      BY <1>1, <2>6 DEF RaftOK, LogsOK, EntryOK, EntryIn
    <2>9. r \in AppliedBy(n)
      BY <2>1, <2>6, <2>8 DEF AppliedBy
    <2>10. ASSUME NEW x \in AppliedBy(n) PROVE x \in Anc[r]
      <3>1. PICK i \in 1..done[n] : x \in clog[i].block
        BY DEF AppliedBy
      <3>2. i \in at /\ i <= k /\ i \in 1..Len(clog) /\ k \in 1..Len(clog) /\ r \in Block \ {Genesis}
        BY <1>1, <2>1, <2>6, <2>8, <3>1, EntryTypes
      <3>3. CASE i = k
        BY <2>8, <3>1, <3>2, <3>3, AncBasic
      <3>4. CASE i < k
        <4>1. x \in Anc[Prev[r]]
          BY <2>8, <3>1, <3>2, <3>4 DEF RaftOK, LogsOK, Before
        <4> QED BY <3>2, <4>1, NotBelowItself
      <3>5. i \in Nat /\ k \in Nat
        BY <2>1, <2>6, <3>2
      <3> QED BY <3>2, <3>3, <3>4, <3>5
    <2> QED BY <2>7, <2>8, <2>9, <2>10
  <1> QED BY <1>2, <1>3

\* The term of an entry that a node has not applied is no earlier.
LEMMA LaterTerms ==
    ASSUME RaftOK, NEW n \in Node
    PROVE  /\ TermAt(done[n]) \in Nat /\ TermAt(Len(clog)) \in Nat
           /\ \A i \in 1..Len(clog) : /\ i > done[n] => TermAt(done[n]) <= clog[i].term
                                      /\ clog[i].term <= TermAt(Len(clog))
           /\ \A m \in Node : \A i \in 1..Len(tail[m]) :
                 TermAt(done[n]) <= tail[m][i].term /\ TermAt(Len(clog)) <= tail[m][i].term
  <1>1. /\ done[n] \in Nat /\ Len(clog) \in Nat /\ done[n] <= Len(clog)
    BY EntryTypes
  <1>2. /\ \A i \in 1..Len(clog) : clog[i].term \in Nat
        /\ \A m \in Node : \A i \in 1..Len(tail[m]) : tail[m][i].term \in Nat
    BY EntryTypes
  <1>3. TermAt(done[n]) \in Nat /\ TermAt(Len(clog)) \in Nat
    BY <1>1, <1>2 DEF TermAt
  <1>4. /\ \A i, j \in 1..Len(clog) : i < j => clog[i].term <= clog[j].term
        /\ \A m \in Node : \A i \in 1..Len(clog), j \in 1..Len(tail[m]) :
              clog[i].term <= tail[m][j].term
    BY DEF RaftOK, LogsOK, Before
  <1>5. ASSUME NEW i \in 1..Len(clog)
        PROVE  /\ i > done[n] => TermAt(done[n]) <= clog[i].term
               /\ clog[i].term <= TermAt(Len(clog))
    BY <1>1, <1>2, <1>4 DEF TermAt
  <1>6. ASSUME NEW m \in Node, NEW i \in 1..Len(tail[m])
        PROVE TermAt(done[n]) <= tail[m][i].term /\ TermAt(Len(clog)) <= tail[m][i].term
    BY <1>1, <1>2, <1>4 DEF TermAt
  <1> QED BY <1>3, <1>5, <1>6

-----------------------------------------------------------------------------
(* The main thread and the group *)

\* The handled blocks that were on the chain still are.
Keeps(n, ts, nd, r) == HandledOf(n, ts) \cap Anc[nd.ctl.head] \subseteq Anc[r.ctl.head]

\* A node that completes a block or takes a dead one off.
LEMMA SettlesGroup ==
    ASSUME NEW n \in Node, NEW nd, NEW r, NEW j, NEW made, NEW com,
           Core(nd, made, com), Core(r, made, com), Settles(nd, r), Group(n, nd, j)
    PROVE  Group(n, r, j)
  <1>1. j # "none" => r.tracker = nd.tracker
    BY DEF Settles, Group
  <1>2. r.tracker = nd.tracker \/ r.tracker = NoTracker
    BY DEF Settles
  <1>3. j = "none" <=> r.tracker.status # "pending"
    BY <1>1, <1>2, NoTrackerIs DEF Group
  <1>4. r.tracker.ok => r.tracker.status = "ready"
    BY <1>2, NoTrackerIs DEF Group
  <1>5. j = "signing" => \A b \in r.tracker.block : Unlogged(b)
    BY <1>1 DEF Group
  <1>6. ASSUME lead[n] # 0, r.ctl.head \in Dead(r) PROVE Unlogged(r.ctl.head)
    <2>1. Mine(r) # {}
      BY <1>6, DeadIsMine
    <2> QED BY <1>6, <2>1 DEF Settles, Group
  <1>7. lead[n] # 0 /\ r.tracker.status = "pending" => TermAt(done[n]) = lead[n]
    BY <1>1, <1>3 DEF Group
  <1>8. Current(n) => OwnTerm(n, InFlight(r, j))
    <2>1. InFlight(r, j) = InFlight(nd, j)
      BY <1>1 DEF InFlight
    <2> QED BY <2>1 DEF Group
  <1>9. ASSUME Current(n), r.tracker.status = "pending", NEW b \in r.tracker.block
        PROVE  /\ r.ctl.head = b /\ AppliedBy(n) \subseteq Anc[b]
               /\ j = "signing" => AppliedBy(n) \subseteq Anc[Prev[b]]
    <2>1. r.tracker = nd.tracker
      BY <1>1, <1>3, <1>9
    <2>2. Mine(r) # {}
      BY DEF Mine
    <2>3. r.ctl.head = nd.ctl.head
      BY <2>2 DEF Settles
    <2> QED BY <1>9, <2>1, <2>3 DEF Group
  <1> QED BY <1>3, <1>4, <1>5, <1>6, <1>7, <1>8, <1>9 DEF Group

\* It keeps what was handled: a handled block of its own is marked, so not dead.
LEMMA SettlesTasks ==
    ASSUME NEW n \in Node, NEW nd, NEW r, NEW ts, Settles(nd, r), TasksOK(n, nd, ts)
    PROVE  TasksOK(n, r, ts) /\ Keeps(n, ts, nd, r)
  <1>1. CASE r.ctl.head = nd.ctl.head /\ Dead(r) \subseteq Dead(nd) /\ Mine(r) \subseteq Mine(nd)
    BY <1>1 DEF Settles, TasksOK, Keeps
  <1>2. CASE /\ nd.ctl.head \in Dead(nd) /\ nd.ctl.head \in Block \ {Genesis}
             /\ r.ctl.head = Prev[nd.ctl.head] /\ Mine(r) = {}
    <2>1. nd.ctl.head \notin HandledOf(n, ts)
      BY <1>2, DeadIsMine DEF TasksOK
    <2>2. Anc[nd.ctl.head] = {nd.ctl.head} \cup Anc[r.ctl.head]
      BY <1>2, AncStep
    <2> QED BY <1>2, <2>1, <2>2 DEF Settles, TasksOK, Keeps
  <1> QED BY <1>1, <1>2 DEF Settles

\* A node whose head may have changed to a committed block.
LEMMA SwitchesGroup ==
    ASSUME NEW n \in Node, NEW nd, NEW r, NEW j, NEW com, Switches(nd, r, com),
           Group(n, nd, j),
           Current(n) /\ nd.tracker.status = "pending" => r.ctl.head = nd.ctl.head
    PROVE  Group(n, r, j)
  <1>1. /\ r.tracker = nd.tracker /\ Mine(r) = Mine(nd) /\ Dead(r) = Dead(nd)
        /\ InFlight(r, j) = InFlight(nd, j)
    BY DEF Switches, Mine, Dead, InFlight
  <1>2. r.ctl.head \in Dead(r) => r.ctl.head = nd.ctl.head
    BY <1>1, DeadIsMine DEF Switches
  <1> QED BY <1>1, <1>2 DEF Group

\* The new head is built on what was handled.
LEMMA SwitchesTasks ==
    ASSUME RaftOK, NEW n \in Node, NEW nd, NEW r, NEW ts, Switches(nd, r, Committed),
           TasksOK(n, nd, ts), nd.ctl.head \in Block
    PROVE  TasksOK(n, r, ts) /\ Keeps(n, ts, nd, r)
  <1>1. Mine(r) = Mine(nd) /\ r.succ = nd.succ
    BY DEF Switches, Mine
  <1>2. TasksOK(n, r, ts)
    BY <1>1 DEF Switches, TasksOK
  <1>3. ASSUME NEW x \in HandledOf(n, ts) \cap Anc[nd.ctl.head], r.ctl.head # nd.ctl.head
        PROVE  x \in Anc[r.ctl.head]
    <2>1. r.ctl.head \in Committed /\ r.ctl.head \notin Anc[nd.ctl.head]
      BY <1>3 DEF Switches
    <2>2. x \in Committed
      <3>1. x \in AppliedBy(n)
        BY DEF HandledOf, AppliedBy
      <3> QED BY <3>1, CommittedIs
    <2>3. /\ x \in Block \ {Genesis} /\ r.ctl.head \in Block \ {Genesis}
          /\ x = r.ctl.head \/ x \in Anc[Prev[r.ctl.head]] \/ r.ctl.head \in Anc[Prev[x]]
      BY <2>1, <2>2, CommittedChain
    <2>4. ASSUME r.ctl.head \in Anc[Prev[x]] PROVE FALSE
      <3>1. r.ctl.head \in Anc[x]
        BY <2>3, <2>4, NotBelowItself
      <3>2. Anc[x] \subseteq Anc[nd.ctl.head]
        BY AncTransitive
      <3> QED BY <2>1, <3>1, <3>2
    <2>5. x \in Anc[Prev[r.ctl.head]] => x \in Anc[r.ctl.head]
      BY <2>3, NotBelowItself
    <2> QED BY <2>1, <2>3, <2>4, <2>5
  <1> QED BY <1>2, <1>3 DEF Keeps

\* A leader that builds a block, and is not deposed by an entry of the group, has all the
\* committed blocks.
LEMMA LeaderHasBlocks ==
    ASSUME RaftOK, NEW n \in Node, NEW nd, NEW j, NEW made, NEW com, Core(nd, made, com),
           Group(n, nd, j), Current(n), nd.tracker.status = "pending", NEW x \in Committed
    PROVE  HasBlock(nd.ctl, x)
  <1>1. PICK b : nd.tracker.block = {b}
    BY DEF Core, Tracking, AtMostOne
  <1>2. nd.ctl.head = b /\ AppliedBy(n) \subseteq Anc[b] /\ TermAt(done[n]) = lead[n]
    BY <1>1 DEF Group, Current
  <1>3. Leading(nd.ctl) /\ b \in Block /\ b \in Anc[b] /\ nd.ctl.fdb.valid \subseteq nd.ctl.fdb.index
    BY <1>2, LeadingFacts, AncBasic DEF Core, Blocks
  <1>4. x \in Anc[b]
    <2>1. PICK i \in 1..Len(clog) : x \in clog[i].block
      BY CommittedIs
    <2>2. CASE i <= done[n]
      <3>1. i \in 1..done[n]
        BY <2>2, EntryTypes
      <3> QED BY <1>2, <2>1, <3>1 DEF AppliedBy
    <2>3. CASE i > done[n]
      <3>1. /\ clog[i].term \in Nat /\ TermAt(Len(clog)) <= lead[n] /\ lead[n] \in Nat
            /\ TermAt(done[n]) <= clog[i].term /\ clog[i].term <= TermAt(Len(clog))
            /\ TermAt(Len(clog)) \in Nat
        BY <2>3, EntryTypes, LaterTerms DEF Current
      <3>2. clog[i].term = lead[n]
        BY <1>2, <3>1
      <3>3. clog[i].block \subseteq InFlight(nd, j)
        BY <2>3, <3>2 DEF Group, OwnTerm
      <3> QED BY <1>1, <1>3, <2>1, <3>3 DEF InFlight
    <2>4. i \in Nat /\ done[n] \in Nat
      BY EntryTypes
    <2> QED BY <2>2, <2>3, <2>4
  <1>5. x \in nd.ctl.fdb.valid \cup Anc[nd.ctl.blog]
    BY <1>2, <1>3, <1>4, HeadBranch
  <1> QED BY <1>3, <1>5 DEF HasBlock

\* The production loop: a leader that can produce has applied the entries of its term, the
\* last block of which is the head; a head taken off before was in no log.
LEMMA LoopWaits ==
    ASSUME RaftOK, NEW n \in Node, NEW nd, NEW r, NEW j, Group(n, nd, j), Waits(n, nd),
           LoopPending(n, nd, r)
    PROVE  Waits(n, r)
  <1>1. CASE r.pending = {} \/ r.pending = nd.pending
    BY <1>1 DEF Waits
  <1>2. CASE /\ CanProduce(n, nd) /\ r.pending = {r.ctl.head}
             /\ (r.ctl.head = nd.ctl.head \/ nd.ctl.head \in Dead(nd))
    <2>1. /\ lead[n] # 0 /\ lead[n] <= TermAt(done[n]) /\ TermAt(done[n]) <= lead[n]
          /\ lead[n] \in Nat /\ TermAt(done[n]) \in Nat /\ RaftHead(n) \subseteq {nd.ctl.head}
      BY <1>2, EntryTypes, LaterTerms DEF CanProduce, IsLeader, RaftOK, LeadersOK
    <2>2. TermAt(done[n]) = lead[n]
      BY <2>1
    <2>3. AppliedBy(n) \subseteq Anc[r.ctl.head]
      <3>1. CASE RaftHead(n) = {} /\ AppliedBy(n) = {}
        BY <3>1
      <3>2. CASE \E x \in AppliedBy(n) : RaftHead(n) = {x} /\ AppliedBy(n) \subseteq Anc[x]
        <4>1. nd.ctl.head \in AppliedBy(n) /\ AppliedBy(n) \subseteq Anc[nd.ctl.head]
          BY <2>1, <3>2
        <4>2. nd.ctl.head \in Committed
          BY <4>1, CommittedIs
        <4>3. nd.ctl.head \notin Dead(nd)
          BY <2>1, <4>2 DEF Group, Unlogged
        <4> QED BY <1>2, <4>1, <4>3
      <3> QED BY <3>1, <3>2, RaftHeadIs
    <2> QED BY <1>2, <2>2, <2>3 DEF Waits
  <1> QED BY <1>1, <1>2 DEF LoopPending

-----------------------------------------------------------------------------
(* The handlers of the main thread *)

\* A step of one node that leaves the group alone.
Changes(n, q, j, ts) ==
    /\ node' = [node EXCEPT ![n] = q] /\ job' = [job EXCEPT ![n] = j]
    /\ tasks' = [tasks EXCEPT ![n] = ts] /\ UNCHANGED raft

\* A node that is replaced by one that satisfies the invariant, in a step that leaves the
\* group alone.
LEMMA NodeStep ==
    ASSUME Inv, NEW n \in Node, NEW q, NEW j \in {"none", "signing", "waiting"}, NEW ts,
           Changes(n, q, j, ts),
           NodeInv(n, q, j, ts, built'), built \subseteq built', Grounded(built', Committed),
           \A m \in Node \ {n} : Mine(q) \cap Mine(node[m]) = {}, published' \subseteq Committed
    PROVE  /\ Inv'
           /\ node'[n] = q /\ \A m \in Node \ {n} : node'[m] = node[m]
  <1>1. PICK made : made = built'
    OBVIOUS
  <1>2. term' = term /\ lead' = lead /\ tail' = tail /\ clog' = clog /\ done' = done
    BY DEF Changes, raft
  <1>3. NodeInv(n, q, j, ts, made)
    BY <1>1
  <1>4. q \in Nodes /\ ts \in Seq(Block)
    BY DEF NodeInv, TasksOK, Core
  <1>5. /\ node' \in [Node -> Nodes] /\ tasks' \in [Node -> Seq(Block)]
        /\ job' \in [Node -> {"none", "signing", "waiting"}]
        /\ node'[n] = q /\ job'[n] = j /\ tasks'[n] = ts
        /\ \A m \in Node \ {n} : node'[m] = node[m] /\ job'[m] = job[m] /\ tasks'[m] = tasks[m]
    BY <1>4 DEF Inv, Changes
  <1>6. Committed' = Committed
    BY <1>2 DEF Committed
  <1>7. ASSUME NEW m \in Node PROVE NodeInv(m, node'[m], job'[m], tasks'[m], made)
    <2>1. CASE m = n
      BY <1>3, <1>5, <2>1
    <2>2. CASE m # n
      <3>1. PICK x : x = node[m]
        OBVIOUS
      <3>2. NodeInv(m, x, job[m], tasks[m], built)
        BY <3>1 DEF Inv
      <3>3. Core(x, made, Committed)
        <4>1. Blocks(x.ctl, Mine(x), made, Committed)
          BY <1>1, <3>2, BlocksMore DEF NodeInv, Core
        <4> QED BY <1>1, <3>2, <4>1 DEF NodeInv, Core, Tracking
      <3> QED BY <1>5, <2>2, <3>1, <3>2, <3>3 DEF NodeInv
    <2> QED BY <2>1, <2>2
  <1>8. ASSUME NEW m \in Node PROVE NodeInv(m, node[m], job[m], tasks[m], built)'
    <2>1. Core(node'[m], built', Committed') /\ PendingOK(node'[m], Committed')
      BY <1>1, <1>6, <1>7 DEF NodeInv
    <2>2. Group(m, node'[m], job'[m]) /\ Waits(m, node'[m]) /\ TasksOK(m, node'[m], tasks'[m])
      BY <1>7 DEF NodeInv
    <2>3. /\ \A b : Unlogged(b)' <=> Unlogged(b)
          /\ AppliedBy(m)' = AppliedBy(m) /\ Current(m)' = Current(m)
          /\ TermAt(done[m])' = TermAt(done[m]) /\ lead' = lead
      BY <1>2, <1>6 DEF Unlogged, AppliedBy, Current, TermAt
    <2>4. Group(m, node[m], job[m])'
      BY <1>2, <2>2, <2>3 DEF Group, OwnTerm
    <2>5. Waits(m, node[m])'
      BY <2>2, <2>3 DEF Waits
    <2>6. TasksOK(m, node[m], tasks[m])'
      BY <1>2, <2>2, <2>3 DEF TasksOK, HandledOf
    <2> QED BY <2>1, <2>4, <2>5, <2>6 DEF NodeInv
  <1>9. RaftOK'
    <2>1. RaftTypes' /\ LeadersOK'
      BY <1>2 DEF Inv, RaftOK, RaftTypes, LeadersOK, TermAt
    <2>2. \A e : EntryOK(e) => EntryOK(e)'
      BY <1>2 DEF EntryOK, EntryIn
    <2>3. LogsOK
      BY DEF Inv, RaftOK
    <2>4. LogsOK'
      BY <1>2, <2>2, <2>3 DEF LogsOK
    <2> QED BY <1>6, <2>1, <2>4 DEF RaftOK
  <1>10. ASSUME NEW a \in Node, NEW m \in Node, a # m
         PROVE  Mine(node'[a]) \cap Mine(node'[m]) = {}
    <2>1. \A x \in Node \ {n} : Mine(node'[x]) = Mine(node[x])
      BY <1>5
    <2>2. Mine(node'[n]) = Mine(q)
      BY <1>5
    <2>3. CASE a = n
      BY <1>10, <2>1, <2>2, <2>3
    <2>4. CASE m = n
      BY <1>10, <2>1, <2>2, <2>4
    <2>5. CASE a # n /\ m # n
      BY <1>10, <2>1, <2>5 DEF Inv
    <2> QED BY <2>3, <2>4, <2>5
  <1>11. published' \subseteq Committed'
    BY <1>6
  <1> QED BY <1>5, <1>8, <1>9, <1>10, <1>11 DEF Inv

\* One step of the main thread: the group is left alone, so what holds of the node that
\* results is all there is to show.
LEMMA MainOK ==
    ASSUME Inv, NEW n \in Node, NEW r, NEW bs, NEW j \in {"none", "signing", "waiting"}, NEW ts,
           Main(n, Result(r, bs)), job' = [job EXCEPT ![n] = j],
           tasks' = [tasks EXCEPT ![n] = ts],
           NodeInv(n, r, j, ts, built'), built \subseteq built', Grounded(built', Committed),
           \A m \in Node \ {n} : Mine(r) \cap Mine(node[m]) = {}, bs \subseteq Committed
    PROVE  /\ Inv'
           /\ node'[n].ctl = r.ctl /\ \A m \in Node \ {n} : node'[m] = node[m]
  <1>1. PICK made : made = built'
    OBVIOUS
  <1>2. PICK q : q = [r EXCEPT !.quit = r.quit \/ r.ctl.outcome = "assert"]
    OBVIOUS
  <1>3. /\ node' = [node EXCEPT ![n] = q] /\ published' = published \cup bs /\ UNCHANGED raft
    BY <1>2 DEF Main, Result
  <1>4. r \in Nodes /\ r.quit \in BOOLEAN
    BY NodeTypes DEF NodeInv, Core
  <1>5. SameBlocks(r, q) /\ q.pending = r.pending
    <2>1. PICK t : t = (r.quit \/ r.ctl.outcome = "assert")
      OBVIOUS
    <2>2. t \in BOOLEAN
      BY <1>4, <2>1
    <2>3. q = [r EXCEPT !.quit = t]
      BY <1>2, <2>1
    <2> QED BY <1>4, <2>2, <2>3, Zenon DEF Nodes, SameBlocks
  <1>6. NodeInv(n, q, j, ts, made)
    <2>1. /\ Core(r, made, Committed) /\ PendingOK(r, Committed) /\ Group(n, r, j)
          /\ Waits(n, r) /\ TasksOK(n, r, ts)
      BY <1>1 DEF NodeInv
    <2>2. Core(q, made, Committed) /\ Settles(r, q)
      BY <1>5, <2>1, SameBlocksOK
    <2>3. Group(n, q, j)
      BY <2>1, <2>2, SettlesGroup
    <2>4. TasksOK(n, q, ts)
      BY <2>1, <2>2, SettlesTasks
    <2>5. PendingOK(q, Committed) /\ Waits(n, q)
      BY <1>5, <2>1 DEF PendingOK, Waits, SameBlocks
    <2> QED BY <2>2, <2>3, <2>4, <2>5 DEF NodeInv
  <1>7. /\ q \in Nodes /\ ts \in Seq(Block) /\ Mine(q) = Mine(r) /\ q.ctl = r.ctl
    BY <1>5 DEF SameBlocks, NodeInv, TasksOK, Mine
  <1>8. /\ NodeInv(n, q, j, ts, built') /\ published' \subseteq Committed
        /\ Changes(n, q, j, ts)
        /\ \A m \in Node \ {n} : Mine(q) \cap Mine(node[m]) = {}
    BY <1>1, <1>3, <1>6, <1>7 DEF Inv, Changes
  <1>9. Inv' /\ node'[n] = q /\ \A m \in Node \ {n} : node'[m] = node[m]
    BY <1>8, NodeStep
  <1> QED BY <1>7, <1>9

\* Every node keeps the handled blocks of its chain.
KeepsAll ==
    \A n \in Node :
        HandledOf(n, tasks[n]) \cap Anc[node[n].ctl.head] \subseteq Anc[node'[n].ctl.head]

\* A step of the main thread.
LEMMA MainStep ==
    ASSUME Inv, NEW n \in Node, NEW r, NEW bs, NEW j \in {"none", "signing", "waiting"}, NEW ts,
           Main(n, Result(r, bs)), job' = [job EXCEPT ![n] = j],
           tasks' = [tasks EXCEPT ![n] = ts],
           NodeInv(n, r, j, ts, built'), built \subseteq built', Grounded(built', Committed),
           \A m \in Node \ {n} : Mine(r) \cap Mine(node[m]) = {}, bs \subseteq Committed,
           Keeps(n, tasks[n], node[n], r)
    PROVE  Inv' /\ KeepsAll
  <1>1. Inv' /\ node'[n].ctl = r.ctl /\ \A m \in Node \ {n} : node'[m] = node[m]
    BY MainOK
  <1>2. ASSUME NEW m \in Node
        PROVE  HandledOf(m, tasks[m]) \cap Anc[node[m].ctl.head] \subseteq Anc[node'[m].ctl.head]
    <2>1. CASE m = n
      BY <1>1, <2>1 DEF Keeps
    <2>2. CASE m # n
      BY <1>1, <2>2
    <2> QED BY <2>1, <2>2
  <1> QED BY <1>1, <1>2 DEF KeepsAll

\* What is kept twice is kept.
LEMMA KeepsTwice ==
    ASSUME NEW n \in Node, NEW ts, NEW a, NEW b, NEW c, Keeps(n, ts, a, b), Keeps(n, ts, b, c)
    PROVE  Keeps(n, ts, a, c)
  BY DEF Keeps

\* The own blocks of a node are fewer afterwards.
LEMMA SettlesMine ==
    ASSUME NEW nd, NEW r, Settles(nd, r)
    PROVE  Mine(r) \subseteq Mine(nd)
  BY DEF Settles

\* A handler that completes a block or takes a dead one off.
LEMMA SettlesInv ==
    ASSUME NEW n \in Node, NEW nd, NEW r, NEW j, NEW ts, NEW made,
           NodeInv(n, nd, j, ts, made), Core(r, made, Committed), Settles(nd, r),
           PendingOK(r, Committed), Waits(n, r)
    PROVE  NodeInv(n, r, j, ts, made) /\ Keeps(n, ts, nd, r) /\ Mine(r) \subseteq Mine(nd)
  <1>1. Core(nd, made, Committed) /\ Group(n, nd, j) /\ TasksOK(n, nd, ts)
    BY DEF NodeInv
  <1>2. Group(n, r, j)
    BY <1>1, SettlesGroup
  <1>3. TasksOK(n, r, ts) /\ Keeps(n, ts, nd, r)
    BY <1>1, SettlesTasks
  <1> QED BY <1>2, <1>3, SettlesMine DEF NodeInv

\* abort_block.
LEMMA AbortedInv ==
    ASSUME NEW n \in Node, NEW nd, NEW j, NEW ts, NEW made, Grounded(made, Committed),
           NodeInv(n, nd, j, ts, made)
    PROVE  LET r == Aborted(nd)
           IN  /\ NodeInv(n, r, j, ts, made) /\ Keeps(n, ts, nd, r) /\ Mine(r) \subseteq Mine(nd)
               /\ r.pending = {} /\ r.tracker = nd.tracker
  <1>1. PICK com : com = Committed
    OBVIOUS
  <1>2. PICK r : r = Aborted(nd)
    OBVIOUS
  <1>3. Core(nd, made, com) /\ Grounded(made, com)
    BY <1>1 DEF NodeInv
  <1>4. Core(r, made, com) /\ Settles(nd, r) /\ r.pending = {} /\ r.tracker = nd.tracker
    BY <1>2, <1>3, AbortedOK
  <1>5. PendingOK(r, com) /\ Waits(n, r)
    BY <1>4 DEF PendingOK, Waits
  <1>6. NodeInv(n, r, j, ts, made) /\ Keeps(n, ts, nd, r) /\ Mine(r) \subseteq Mine(nd)
    BY <1>1, <1>4, <1>5, SettlesInv
  <1> QED BY <1>2, <1>4, <1>6

\* schedule_production_loop.
LEMMA LoopedInv ==
    ASSUME RaftOK, NEW n \in Node, NEW nd, NEW j, NEW ts, NEW made, Grounded(made, Committed),
           NodeInv(n, nd, j, ts, made), NEW l \in Looped(n, nd)
    PROVE  /\ NodeInv(n, l.nd, j, ts, made) /\ Keeps(n, ts, nd, l.nd) /\ Settles(nd, l.nd)
           /\ Mine(l.nd) \subseteq Mine(nd) /\ l.announced \subseteq Committed
  <1>1. PICK com : com = Committed
    OBVIOUS
  <1>2. Core(nd, made, com) /\ Grounded(made, com) /\ PendingOK(nd, com)
    BY <1>1 DEF NodeInv
  <1>3. /\ Core(l.nd, made, com) /\ Settles(nd, l.nd) /\ PendingOK(l.nd, com)
        /\ l.announced \subseteq com /\ LoopPending(n, nd, l.nd)
    BY <1>2, LoopedOK
  <1>4. Waits(n, l.nd)
    BY <1>3, LoopWaits DEF NodeInv
  <1>5. PICK r : r = l.nd
    OBVIOUS
  <1>6. NodeInv(n, r, j, ts, made) /\ Keeps(n, ts, nd, r) /\ Mine(r) \subseteq Mine(nd)
    BY <1>1, <1>3, <1>4, <1>5, SettlesInv
  <1> QED BY <1>1, <1>3, <1>5, <1>6

\* A step that ends with the production loop.
LEMMA LoopStep ==
    ASSUME Inv, NEW n \in Node, NEW nd, NEW bs, NEW j \in {"none", "signing", "waiting"},
           MainThenLoop(n, Result(nd, bs)), job' = [job EXCEPT ![n] = j],
           tasks' = [tasks EXCEPT ![n] = tasks[n]], NodeInv(n, nd, j, tasks[n], built'), built \subseteq built',
           Grounded(built', Committed), bs \subseteq Committed,
           \A m \in Node \ {n} : Mine(nd) \cap Mine(node[m]) = {},
           Keeps(n, tasks[n], node[n], nd)
    PROVE  Inv' /\ KeepsAll
  <1>1. Result(nd, bs).nd = nd /\ Result(nd, bs).announced = bs
    BY DEF Result
  <1>2. PICK l \in Looped(n, nd) : Main(n, Result(l.nd, bs \cup l.announced))
    BY <1>1 DEF MainThenLoop
  <1>3. PICK made : made = built'
    OBVIOUS
  <1>4. PICK ts : ts = tasks[n]
    OBVIOUS
  <1>5. RaftOK /\ Grounded(made, Committed) /\ NodeInv(n, nd, j, ts, made)
    BY <1>3, <1>4 DEF Inv
  <1>6. /\ NodeInv(n, l.nd, j, ts, made) /\ Keeps(n, ts, nd, l.nd)
        /\ Mine(l.nd) \subseteq Mine(nd) /\ l.announced \subseteq Committed
    BY <1>5, LoopedInv
  <1>7. tasks' = [tasks EXCEPT ![n] = ts]
    BY <1>4
  <1>8. PICK r, ps : r = l.nd /\ ps = bs \cup l.announced
    OBVIOUS
  <1>9. PICK x : x = node[n]
    OBVIOUS
  <1>10. Keeps(n, ts, x, r)
    BY <1>4, <1>6, <1>8, <1>9, KeepsTwice
  <1>11. /\ Main(n, Result(r, ps)) /\ NodeInv(n, r, j, ts, built') /\ ps \subseteq Committed
         /\ \A m \in Node \ {n} : Mine(r) \cap Mine(node[m]) = {}
         /\ Keeps(n, tasks[n], node[n], r)
    BY <1>2, <1>3, <1>4, <1>6, <1>8, <1>9, <1>10
  <1> QED BY <1>7, <1>11, MainStep

\* What every step of the main thread starts from.
LEMMA NodeFacts ==
    ASSUME Inv, NEW n \in Node
    PROVE  /\ NodeInv(n, node[n], job[n], tasks[n], built) /\ RaftOK /\ Grounded(built, Committed)
           /\ job[n] \in {"none", "signing", "waiting"}
           /\ job = [job EXCEPT ![n] = job[n]] /\ tasks = [tasks EXCEPT ![n] = tasks[n]]
           /\ \A m \in Node \ {n} : Mine(node[n]) \cap Mine(node[m]) = {}
           /\ Keeps(n, tasks[n], node[n], node[n])
  BY DEF Inv, RaftOK, Keeps

\* The loop runs, maybe after the pending block was given up.
LEMMA LoopTimerStep ==
    ASSUME Inv, NEW n \in Node, LoopTimer(n)
    PROVE  Inv' /\ KeepsAll
  <1>1. PICK x, j, ts : x = node[n] /\ j = job[n] /\ ts = tasks[n]
    OBVIOUS
  <1>2. PICK nd \in {x, Aborted(x)} : MainThenLoop(n, Result(nd, {}))
    BY <1>1 DEF LoopTimer
  <1>3. job' = job /\ tasks' = tasks /\ built' = built
    BY DEF LoopTimer
  <1>4. NodeInv(n, x, j, ts, built) /\ Grounded(built, Committed) /\ Keeps(n, ts, x, x)
    BY <1>1, NodeFacts
  <1>5. NodeInv(n, nd, j, ts, built) /\ Keeps(n, ts, x, nd) /\ Mine(nd) \subseteq Mine(x)
    <2>1. CASE nd = x
      BY <1>4, <2>1
    <2>2. CASE nd = Aborted(x)
      BY <1>4, <2>2, AbortedInv
    <2> QED BY <2>1, <2>2
  <1>6. /\ j \in {"none", "signing", "waiting"} /\ job' = [job EXCEPT ![n] = j]
        /\ tasks' = [tasks EXCEPT ![n] = tasks[n]]
        /\ \A m \in Node \ {n} : Mine(nd) \cap Mine(node[m]) = {}
    BY <1>1, <1>3, <1>5, NodeFacts
  <1>7. PICK none : none = {}
    OBVIOUS
  <1>8. /\ MainThenLoop(n, Result(nd, none)) /\ none \subseteq Committed
        /\ NodeInv(n, nd, j, tasks[n], built') /\ Grounded(built', Committed)
        /\ Keeps(n, tasks[n], node[n], nd) /\ built \subseteq built'
    BY <1>1, <1>2, <1>3, <1>4, <1>5, <1>7
  <1> QED BY <1>6, <1>8, LoopStep

\* complete_produced_block: the block was committed and is announced, or it has failed and
\* leaves the chain.
LEMMA CompletionTaskStep ==
    ASSUME Inv, NEW n \in Node, CompletionTask(n)
    PROVE  Inv' /\ KeepsAll
  <1>1. PICK x, j, ts : x = node[n] /\ j = job[n] /\ ts = tasks[n]
    OBVIOUS
  <1>2. PICK c : c = Completed(x)
    OBVIOUS
  <1>3. /\ x.tracker.status = "ready" /\ job' = job /\ tasks' = tasks /\ built' = built
        /\ IF HasFailed(c, x.tracker.block) THEN Main(n, Result(Aborted(c), {}))
           ELSE Main(n, Result(c, x.tracker.block))
    BY <1>1, <1>2 DEF CompletionTask
  <1>4. PICK com : com = Committed
    OBVIOUS
  <1>5. /\ NodeInv(n, x, j, ts, built) /\ Grounded(built, com) /\ Core(x, built, com)
        /\ PendingOK(x, com) /\ Waits(n, x)
    BY <1>1, <1>4, NodeFacts DEF NodeInv
  <1>6. /\ Core(c, built, com) /\ Settles(x, c) /\ c.pending = x.pending
        /\ c.ctl.head = x.ctl.head
        /\ \/ HasFailed(c, x.tracker.block)
           \/ /\ ~HasFailed(c, x.tracker.block) /\ x.tracker.block \subseteq com
              /\ c.failed = x.failed
    BY <1>2, <1>3, <1>5, CompletedOK
  <1>7. PICK r, bs : /\ Main(n, Result(r, bs)) /\ bs \subseteq com /\ Core(r, built, com)
                     /\ Settles(x, r) /\ PendingOK(r, com) /\ Waits(n, r)
    <2>1. CASE HasFailed(c, x.tracker.block)
      <3>1. PICK r : r = Aborted(c)
        OBVIOUS
      <3>2. Core(r, built, com) /\ Settles(c, r) /\ r.pending = {}
        BY <1>5, <1>6, <3>1, AbortedOK
      <3>3. Settles(x, r)
        BY <1>6, <3>2, SettlesTwice
      <3>4. PendingOK(r, com) /\ Waits(n, r)
        BY <3>2 DEF PendingOK, Waits
      <3>5. PICK none : none = {}
        OBVIOUS
      <3>6. Main(n, Result(r, none)) /\ none \subseteq com
        BY <1>3, <2>1, <3>1, <3>5
      <3> QED BY <3>2, <3>3, <3>4, <3>6
    <2>2. CASE ~HasFailed(c, x.tracker.block)
      <3>1. PendingOK(c, com) /\ Waits(n, c)
        BY <1>5, <1>6, <2>2 DEF PendingOK, Waits
      <3> QED BY <1>3, <1>6, <2>2, <3>1
    <2> QED BY <2>1, <2>2
  <1>8. NodeInv(n, r, j, ts, built) /\ Keeps(n, ts, x, r) /\ Mine(r) \subseteq Mine(x)
    BY <1>4, <1>5, <1>7, SettlesInv
  <1>9. /\ j \in {"none", "signing", "waiting"} /\ job' = [job EXCEPT ![n] = j]
        /\ tasks' = [tasks EXCEPT ![n] = ts]
        /\ \A m \in Node \ {n} : Mine(r) \cap Mine(node[m]) = {}
    BY <1>1, <1>3, <1>8, NodeFacts
  <1>10. /\ bs \subseteq Committed /\ NodeInv(n, r, j, ts, built') /\ Grounded(built', Committed)
         /\ Keeps(n, tasks[n], node[n], r) /\ built \subseteq built'
    BY <1>1, <1>3, <1>4, <1>5, <1>7, <1>8
  <1> QED BY <1>7, <1>9, <1>10, MainStep

\* A committed block that the node does not have is pushed: a leader that builds has them all.
LEMMA PushedInv ==
    ASSUME Bad = {}, RaftOK, NEW n \in Node, NEW nd, NEW j, NEW ts,
           NodeInv(n, nd, j, ts, built), NEW b \in Committed, ~HasBlock(nd.ctl, b)
    PROVE  LET r == Pushed(nd, b)
           IN  /\ NodeInv(n, r, j, ts, built) /\ Keeps(n, ts, nd, r) /\ Mine(r) \subseteq Mine(nd)
               /\ Settles(nd, Aborted(nd)) /\ Switches(Aborted(nd), r, Committed)
               /\ r.ctl.outcome # "threw" => \/ r.ctl.head # Aborted(nd).ctl.head
                                             \/ ~FirstPreferred(b, Aborted(nd).ctl.head)
               /\ NewlyApplied(nd, r) \subseteq Committed
  <1>1. PICK com : com = Committed
    OBVIOUS
  <1>2. PICK a, r : a = Aborted(nd) /\ r = Pushed(nd, b)
    OBVIOUS
  <1>3. PICK made : made = built
    OBVIOUS
  <1>4. Grounded(made, com) /\ Core(nd, made, com) /\ b \in com /\ Group(n, nd, j)
    BY <1>1, <1>3 DEF RaftOK, NodeInv
  <1>5. /\ Core(a, made, com) /\ Core(r, made, com)
        /\ Settles(nd, a) /\ Switches(a, r, com) /\ PendingOK(r, com) /\ r.pending = {}
        /\ nd.tracker.block # {} => a.ctl = nd.ctl
        /\ r.ctl.outcome # "threw" => r.ctl.head # a.ctl.head \/ ~FirstPreferred(b, a.ctl.head)
    <2>1. LET aa == Aborted(nd)
              rr == Pushed(nd, b)
          IN  /\ Core(aa, made, com) /\ Core(rr, made, com)
              /\ Settles(nd, aa) /\ Switches(aa, rr, com) /\ PendingOK(rr, com) /\ rr.pending = {}
              /\ nd.tracker.block # {} => aa.ctl = nd.ctl
              /\ rr.ctl.outcome # "threw" =>
                   rr.ctl.head # aa.ctl.head \/ ~FirstPreferred(b, aa.ctl.head)
      BY <1>4, PushedOK
    <2> QED BY <1>2, <2>1
  <1>6. /\ NodeInv(n, a, j, ts, made) /\ Keeps(n, ts, nd, a) /\ Mine(a) \subseteq Mine(nd)
        /\ a.tracker = nd.tracker
    BY <1>1, <1>2, <1>3, <1>4, AbortedInv
  <1>7. ~(Current(n) /\ a.tracker.status = "pending")
    BY <1>1, <1>4, <1>6, LeaderHasBlocks
  <1>8. Group(n, r, j)
    BY <1>5, <1>6, <1>7, SwitchesGroup DEF NodeInv
  <1>9. TasksOK(n, r, ts) /\ Keeps(n, ts, a, r)
    <2>1. a.ctl.head \in Block
      BY <1>5, LeadingFacts DEF Core, Blocks
    <2> QED BY <1>1, <1>5, <1>6, <2>1, SwitchesTasks DEF NodeInv
  <1>10. Keeps(n, ts, nd, r)
    BY <1>6, <1>9, KeepsTwice
  <1>11. Mine(r) \subseteq Mine(nd)
    BY <1>5, <1>6 DEF Switches, Mine
  <1>12. Waits(n, r)
    BY <1>5 DEF Waits
  <1>13. NodeInv(n, r, j, ts, made)
    BY <1>1, <1>5, <1>8, <1>9, <1>12 DEF NodeInv
  <1>14. Anc[r.ctl.head] \ Anc[a.ctl.head] \subseteq com
    <2>1. CASE r.ctl.head = a.ctl.head
      BY <2>1
    <2>2. CASE r.ctl.head \in com
      <3>1. Anc[r.ctl.head] \subseteq com \cup {Genesis}
        BY <1>4, <2>2, CommittedBranch
      <3>2. a.ctl.head \in Block
        BY <1>5, LeadingFacts DEF Core, Blocks
      <3>3. Genesis \in Anc[a.ctl.head]
        BY <3>2, GenesisFirst
      <3> QED BY <3>1, <3>3
    <2> QED BY <1>5, <2>1, <2>2 DEF Switches
  <1>15. NewlyApplied(nd, r) \subseteq Committed
    BY <1>1, <1>2, <1>14 DEF NewlyApplied
  <1> QED BY <1>1, <1>2, <1>3, <1>5, <1>10, <1>11, <1>13, <1>15

\* A block from a peer was committed: it does not take the place of one that was.
LEMMA ReceiveBlockStep ==
    ASSUME Bad = {}, Inv, NEW n \in Node, NEW b \in Block \ {Genesis}, ReceiveBlock(n, b)
    PROVE  Inv' /\ KeepsAll
  <1>1. PICK x, j, ts : x = node[n] /\ j = job[n] /\ ts = tasks[n]
    OBVIOUS
  <1>2. PICK r, bs : r = Pushed(x, b) /\ bs = NewlyApplied(x, r)
    OBVIOUS
  <1>3. /\ MainThenLoop(n, Result(r, bs)) /\ ~HasBlock(x.ctl, b) /\ b \in Committed
        /\ job' = job /\ tasks' = tasks /\ built' = built
    BY <1>1, <1>2 DEF ReceiveBlock, Inv
  <1>4. NodeInv(n, x, j, ts, built) /\ Grounded(built, Committed) /\ RaftOK
    BY <1>1, NodeFacts
  <1>5. /\ NodeInv(n, r, j, ts, built) /\ Keeps(n, ts, x, r) /\ Mine(r) \subseteq Mine(x)
        /\ bs \subseteq Committed
    BY <1>2, <1>3, <1>4, PushedInv
  <1>6. /\ j \in {"none", "signing", "waiting"} /\ job' = [job EXCEPT ![n] = j]
        /\ tasks' = [tasks EXCEPT ![n] = tasks[n]]
        /\ \A m \in Node \ {n} : Mine(r) \cap Mine(node[m]) = {}
    BY <1>1, <1>3, <1>5, NodeFacts
  <1>7. /\ bs \subseteq Committed
        /\ NodeInv(n, r, j, tasks[n], built') /\ Grounded(built', Committed)
        /\ Keeps(n, tasks[n], node[n], r) /\ built \subseteq built'
    BY <1>1, <1>2, <1>3, <1>4, <1>5
  <1> QED BY <1>3, <1>6, <1>7, LoopStep

\* A leader builds a block: on the head, which has everything it has applied.
Produced(nd, b) ==
    [nd EXCEPT !.pending = {}, !.spare = {}, !.ctl = Built(@, b),
               !.tracker = [status |-> "pending", block |-> {b}, ok |-> FALSE]]

\* A leader whose term is not over has built on all it has applied; one whose term is over
\* has built on what was committed.
LEMMA ProducedInv ==
    ASSUME Bad = {}, RaftOK, NEW n \in Node, NEW nd, NEW j, NEW ts,
           NodeInv(n, nd, j, ts, built), NEW b \in Block \ {Genesis}, b \notin built,
           nd.tracker.status = "none", Prev[b] \in nd.pending,
           NEW r, r = Produced(nd, b)
    PROVE  /\ NodeInv(n, r, "signing", ts, built \cup {b}) /\ Keeps(n, ts, nd, r)
           /\ Mine(r) \subseteq Mine(nd) \cup {b} /\ Grounded(built \cup {b}, Committed)
  <1>1. PICK com, made, c : com = Committed /\ made = built /\ c = Built(nd.ctl, b)
    OBVIOUS
  <1>2. PICK tr : tr = [status |-> "pending", block |-> {b}, ok |-> FALSE]
    OBVIOUS
  <1>3. /\ Grounded(made, com) /\ Core(nd, made, com) /\ Group(n, nd, j) /\ PendingOK(nd, com)
        /\ Waits(n, nd) /\ TasksOK(n, nd, ts) /\ b \notin made
    BY <1>1 DEF RaftOK, NodeInv
  <1>4. /\ nd \in Nodes /\ Blocks(nd.ctl, Mine(nd), made, com) /\ Tracking(nd, made, com)
        /\ Mine(nd) = nd.failed /\ nd.failed \subseteq made
    BY <1>3 DEF Core, Tracking, Mine
  <1>5. Prev[b] = nd.ctl.head /\ nd.ctl.head \in com \cup {Genesis}
    BY <1>3, <1>4 DEF PendingOK, Blocks
  <1>6. /\ Blocks(c, nd.failed \cup {b}, made \cup {b}, com) /\ c.head = b
        /\ Grounded(made \cup {b}, com)
    <2>1. PICK ctl, own : ctl = nd.ctl /\ own = nd.failed
      OBVIOUS
    <2> QED BY <1>1, <1>3, <1>4, <1>5, <2>1, BlocksBuilt
  <1>7. c \in Controllers
    BY <1>6, LeadingFacts DEF Blocks
  <1>8. /\ r \in Nodes /\ r.pending = {} /\ r.ctl = c /\ r.tracker = tr
        /\ r.failed = nd.failed /\ r.succ = nd.succ
    <2>1. tr \in [status : {"none", "pending", "ready"}, block : SUBSET Block, ok : BOOLEAN]
      BY <1>2
    <2>2. r = [nd EXCEPT !.pending = {}, !.spare = {}, !.ctl = c, !.tracker = tr]
      BY <1>1, <1>2, Zenon DEF Produced
    <2> QED BY <1>4, <1>7, <2>1, <2>2, Zenon DEF Nodes
  <1>9. tr.status = "pending" /\ tr.block = {b} /\ ~tr.ok /\ tr.status # "none" /\ tr.status # "ready"
    BY <1>2
  <1>10. Mine(r) = nd.failed \cup {b} /\ Dead(r) = nd.failed \ nd.succ /\ b \notin nd.failed
    BY <1>3, <1>4, <1>8, <1>9 DEF Mine, Dead
  <1>11. Core(r, made \cup {b}, com)
    <2>1. Tracking(r, made \cup {b}, com)
      BY <1>4, <1>8, <1>9, <1>10 DEF Tracking, AtMostOne
    <2> QED BY <1>6, <1>8, <1>10, <2>1 DEF Core
  <1>12. PendingOK(r, com) /\ Waits(n, r)
    BY <1>8 DEF PendingOK, Waits
  <1>13. Unlogged(b)
    <2>1. b \notin Committed
      BY <1>1, <1>3 DEF Grounded
    <2> QED BY <2>1, EntryTypes DEF Unlogged
  <1>14. Group(n, r, "signing")
    <2>1. InFlight(r, "signing") = {} /\ InFlight(nd, j) = {}
      BY <1>3 DEF InFlight, Group
    <2>2. lead[n] # 0 => TermAt(done[n]) = lead[n]
      BY <1>3 DEF Waits
    <2>3. Current(n) => AppliedBy(n) \subseteq Anc[Prev[b]]
      BY <1>3 DEF Waits
    <2>4. Anc[Prev[b]] \subseteq Anc[b]
      BY AncStep
    <2>5. Current(n) => OwnTerm(n, InFlight(r, "signing"))
      BY <1>3, <2>1 DEF Group
    <2>6. r.ctl.head = b /\ b \notin Dead(r) /\ r.tracker.block = {b}
      BY <1>6, <1>8, <1>9, <1>10
    <2> QED BY <1>8, <1>9, <1>13, <2>2, <2>3, <2>4, <2>5, <2>6 DEF Group
  <1>15. TasksOK(n, r, ts)
    <2>1. HandledOf(n, ts) \subseteq AppliedBy(n)
      BY DEF HandledOf, AppliedBy
    <2>2. b \notin HandledOf(n, ts)
      BY <1>13, <2>1, CommittedIs DEF Unlogged
    <2> QED BY <1>3, <1>6, <1>8, <2>2 DEF TasksOK
  <1>16. Keeps(n, ts, nd, r)
    BY <1>5, <1>6, <1>8, AncStep DEF Keeps
  <1> QED BY <1>1, <1>4, <1>6, <1>10, <1>11, <1>12, <1>14, <1>15, <1>16 DEF NodeInv

\* produce_block, and the loop after it.
LEMMA ProduceBlockStep ==
    ASSUME Bad = {}, Inv, NEW n \in Node, NEW b \in Block \ {Genesis}, ProduceBlock(n, b),
           ~astray'
    PROVE  Inv' /\ KeepsAll
  <1>1. PICK x, j, ts : x = node[n] /\ j = job[n] /\ ts = tasks[n]
    OBVIOUS
  <1>2. PICK r, none : r = Produced(x, b) /\ none = {}
    OBVIOUS
  <1>3. /\ MainThenLoop(n, Result(r, none)) /\ x.tracker.status = "none" /\ Prev[b] \in x.pending
        /\ b \notin built /\ job' = [job EXCEPT ![n] = "signing"] /\ tasks' = tasks
        /\ built' = built \cup {b}
    <2>1. Prev[b] \in node[n].pending
      BY Zenon DEF ProduceBlock
    <2> QED BY <1>1, <1>2, <2>1 DEF ProduceBlock, Produced
  <1>4. NodeInv(n, x, j, ts, built) /\ RaftOK
    BY <1>1, NodeFacts
  <1>5. /\ NodeInv(n, r, "signing", ts, built \cup {b}) /\ Keeps(n, ts, x, r)
        /\ Mine(r) \subseteq Mine(x) \cup {b} /\ Grounded(built \cup {b}, Committed)
    BY <1>2, <1>3, <1>4, ProducedInv
  <1>6. \A m \in Node \ {n} : Mine(r) \cap Mine(node[m]) = {}
    <2>1. ASSUME NEW m \in Node PROVE Mine(node[m]) \subseteq built
      BY NodeFacts DEF NodeInv, Core, Tracking
    <2> QED BY <1>1, <1>3, <1>5, <2>1, NodeFacts
  <1>7. PICK k \in {"none", "signing", "waiting"} : k = "signing"
    OBVIOUS
  <1>8. tasks' = [tasks EXCEPT ![n] = tasks[n]]
    BY <1>3, NodeFacts
  <1>9. /\ none \subseteq Committed /\ job' = [job EXCEPT ![n] = k]
        /\ NodeInv(n, r, k, tasks[n], built') /\ Grounded(built', Committed)
        /\ Keeps(n, tasks[n], node[n], r) /\ built \subseteq built'
    BY <1>1, <1>2, <1>3, <1>5, <1>7
  <1> QED BY <1>3, <1>6, <1>8, <1>9, LoopStep

\* The tasks that are left, apart from the node.
QueueOK(n, ts) ==
    /\ ts \in Seq(Block)
    /\ \A i \in 1..Len(ts) : ts[i] \in AppliedBy(n)
    /\ \A i, j \in 1..Len(ts) : i < j => ts[i] \in Anc[Prev[ts[j]]]
    /\ \A x \in HandledOf(n, ts), i \in 1..Len(ts) : x \in Anc[Prev[ts[i]]]

\* The next task is b.
Pops(ts, b, tl) == ts # <<>> /\ b = Head(ts) /\ tl = Tail(ts)

\* The next task: its block becomes a handled one, on which the others stand.
LEMMA PopTask ==
    ASSUME RaftOK, NEW n \in Node, NEW nd, NEW ts, TasksOK(n, nd, ts),
           NEW b, NEW tl, Pops(ts, b, tl)
    PROVE  /\ b \in Committed /\ b \in Block \ {Genesis}
           /\ HandledOf(n, tl) = HandledOf(n, ts) \cup {b}
           /\ QueueOK(n, tl)
  <1>1. ts \in Seq(Block) /\ Len(ts) \in Nat /\ DOMAIN ts = 1..Len(ts)
    BY LenProperties DEF TasksOK
  <1>2. /\ tl \in Seq(Block) /\ Len(tl) = Len(ts) - 1 /\ Len(tl) \in Nat /\ DOMAIN tl = 1..Len(tl)
        /\ \A i \in 1..Len(tl) : i + 1 \in 1..Len(ts) /\ tl[i] = ts[i + 1]
    BY <1>1, HeadTailProperties, LenProperties DEF Pops
  <1>3. 1 \in 1..Len(ts) /\ ts[1] = b
    <2>1. Len(ts) # 0
      BY <1>1, EmptySeq DEF Pops
    <2> QED BY <1>1, <2>1 DEF Pops
  <1>4. b \in AppliedBy(n)
    BY <1>3 DEF TasksOK
  <1>5. b \in Committed
    BY <1>4, CommittedIs
  <1>6. b \in Block \ {Genesis}
    BY <1>5 DEF RaftOK, Grounded
  <1>7. \A i \in 1..Len(tl) : tl[i] \in AppliedBy(n)
    BY <1>2 DEF TasksOK
  <1>8. \A i \in 1..Len(tl) : tl[i] \in Block \ {Genesis}
    BY <1>7, CommittedIs DEF RaftOK, Grounded
  <1>9. \A i \in 1..Len(tl) : b \in Anc[Prev[tl[i]]]
    <2>1. \A i \in 1..Len(tl) : 1 < i + 1
      OBVIOUS
    <2> QED BY <1>2, <1>3, <2>1 DEF TasksOK
  <1>10. \A i \in 1..Len(tl) : tl[i] # b
    BY <1>8, <1>9, NotBelowItself
  <1>11. \E i \in 1..done[n] : clog[i].block = {b}
    <2>1. PICK i \in 1..done[n] : b \in clog[i].block
      BY <1>4 DEF AppliedBy
    <2>2. i \in 1..Len(clog)
      BY EntryTypes
    <2> QED BY <2>1, <2>2 DEF RaftOK, LogsOK, EntryOK, EntryIn
  <1>12. HandledOf(n, tl) = HandledOf(n, ts) \cup {b}
    <2>1. ASSUME NEW x \in Block, x # b
          PROVE  (\A i \in DOMAIN ts : ts[i] # x) <=> (\A i \in DOMAIN tl : tl[i] # x)
      <3>1. ASSUME NEW i \in 1..Len(ts), i # 1 PROVE i - 1 \in 1..Len(tl) /\ ts[i] = tl[i - 1]
        <4>1. i - 1 \in 1..Len(tl) /\ (i - 1) + 1 = i
          BY <1>1, <1>2, <3>1
        <4> QED BY <1>2, <4>1
      <3>2. ASSUME \A i \in 1..Len(tl) : tl[i] # x, NEW i \in 1..Len(ts) PROVE ts[i] # x
        BY <1>3, <2>1, <3>1, <3>2
      <3>3. ASSUME \A i \in 1..Len(ts) : ts[i] # x, NEW i \in 1..Len(tl) PROVE tl[i] # x
        BY <1>2, <3>3
      <3> QED BY <1>1, <1>2, <3>2, <3>3
    <2>2. b \in HandledOf(n, tl)
      BY <1>2, <1>6, <1>10, <1>11 DEF HandledOf
    <2> QED BY <2>1, <2>2 DEF HandledOf
  <1>13. \A i, k \in 1..Len(tl) : i < k => tl[i] \in Anc[Prev[tl[k]]]
    <2>1. \A i, k \in 1..Len(tl) : i < k => i + 1 < k + 1
      OBVIOUS
    <2> QED BY <1>2, <2>1 DEF TasksOK
  <1>14. \A x \in HandledOf(n, tl), i \in 1..Len(tl) : x \in Anc[Prev[tl[i]]]
    <2>1. \A x \in HandledOf(n, ts), i \in 1..Len(tl) : x \in Anc[Prev[tl[i]]]
      BY <1>2 DEF TasksOK
    <2> QED BY <1>9, <1>12, <2>1
  <1> QED BY <1>2, <1>5, <1>6, <1>7, <1>12, <1>13, <1>14 DEF QueueOK

\* The node remembers a committed block that is its head, or in place of which it has none
\* of its own that was committed.
HasSucceeded(nd, b) == [nd EXCEPT !.succ = {b}]

\* The head may be marked once its task has run.
LEMMA HasSucceededInv ==
    ASSUME RaftOK, NEW n \in Node, NEW nd, NEW j, NEW ts, NodeInv(n, nd, j, ts, built),
           NEW b, NEW tl, Pops(ts, b, tl),
           nd.ctl.head \in Mine(nd) /\ nd.ctl.head # b => nd.ctl.head \notin Committed,
           NEW r, r = HasSucceeded(nd, b)
    PROVE  NodeInv(n, r, j, tl, built) /\ Mine(r) = Mine(nd) /\ r.ctl = nd.ctl
  <1>1. PICK com, made : com = Committed /\ made = built
    OBVIOUS
  <1>2. /\ Core(nd, made, com) /\ Group(n, nd, j) /\ PendingOK(nd, com) /\ Waits(n, nd)
        /\ TasksOK(n, nd, ts)
    BY <1>1 DEF NodeInv
  <1>3. /\ b \in com /\ b \in Block \ {Genesis}
        /\ HandledOf(n, tl) = HandledOf(n, ts) \cup {b}
        /\ QueueOK(n, tl)
    BY <1>1, <1>2, PopTask
  <1>4. /\ r \in Nodes /\ r.ctl = nd.ctl /\ r.tracker = nd.tracker /\ r.failed = nd.failed
        /\ r.pending = nd.pending /\ r.succ = {b}
    <2>1. nd \in Nodes /\ {b} \in SUBSET Block
      BY <1>2, <1>3 DEF Core
    <2> QED BY <2>1, Zenon DEF Nodes, HasSucceeded
  <1>5. Mine(r) = Mine(nd) /\ InFlight(r, j) = InFlight(nd, j)
    BY <1>4 DEF Mine, InFlight
  <1>6. Core(r, made, com)
    <2>1. Tracking(r, made, com)
      BY <1>2, <1>3, <1>4, <1>5 DEF Core, Tracking
    <2> QED BY <1>2, <1>4, <1>5, <2>1 DEF Core
  <1>7. r.ctl.head \in Dead(r) => nd.ctl.head \in Dead(nd)
    <2>1. nd.succ \subseteq com
      BY <1>2 DEF Core, Tracking
    <2> QED BY <1>1, <1>4, <2>1 DEF Dead, Mine
  <1>8. Group(n, r, j)
    BY <1>2, <1>4, <1>5, <1>7 DEF Group
  <1>9. PendingOK(r, com) /\ Waits(n, r)
    BY <1>2, <1>4 DEF PendingOK, Waits
  <1>10. TasksOK(n, r, tl)
    <2>1. r.ctl.head \in Mine(r) \cap HandledOf(n, tl) => r.ctl.head \in r.succ
      <3>1. HandledOf(n, ts) \subseteq Committed
        <4>1. HandledOf(n, ts) \subseteq AppliedBy(n)
          BY DEF HandledOf, AppliedBy
        <4> QED BY <4>1, CommittedIs
      <3> QED BY <1>3, <1>4, <1>5, <3>1
    <2> QED BY <1>3, <1>4, <2>1 DEF TasksOK, QueueOK
  <1> QED BY <1>1, <1>4, <1>5, <1>6, <1>8, <1>9, <1>10 DEF NodeInv

\* The node is done with a committed block that is not its head.
LEMMA PassedInv ==
    ASSUME RaftOK, NEW n \in Node, NEW nd, NEW j, NEW ts, NodeInv(n, nd, j, ts, built),
           NEW b, NEW tl, Pops(ts, b, tl), nd.ctl.head \in Mine(nd) => nd.ctl.head # b
    PROVE  NodeInv(n, nd, j, tl, built)
  <1>1. TasksOK(n, nd, ts)
    BY DEF NodeInv
  <1>2. /\ HandledOf(n, tl) = HandledOf(n, ts) \cup {b}
        /\ QueueOK(n, tl)
    BY <1>1, PopTask
  <1>3. TasksOK(n, nd, tl)
    <2>1. /\ nd.succ \subseteq HandledOf(n, tl)
          /\ nd.ctl.head \in Mine(nd) \cap HandledOf(n, tl) => nd.ctl.head \in nd.succ
      BY <1>1, <1>2 DEF TasksOK
    <2> QED BY <1>2, <2>1 DEF TasksOK, QueueOK
  <1> QED BY <1>3 DEF NodeInv

\* app().quit()
Quits(nd) == [nd EXCEPT !.quit = TRUE]

\* The flag is nothing to the invariant.
LEMMA QuitInv ==
    ASSUME NEW n \in Node, NEW nd, NEW j, NEW ts, NEW made, NodeInv(n, nd, j, ts, made),
           NEW r, r = Quits(nd)
    PROVE  NodeInv(n, r, j, ts, made) /\ Mine(r) = Mine(nd) /\ r.ctl = nd.ctl
  <1>1. PICK com : com = Committed
    OBVIOUS
  <1>2. Core(nd, made, com) /\ nd \in Nodes /\ PendingOK(nd, com) /\ Waits(n, nd)
    BY <1>1 DEF NodeInv, Core
  <1>3. SameBlocks(nd, r) /\ r.pending = nd.pending
    BY <1>2, Zenon DEF Nodes, SameBlocks, Quits
  <1>4. Core(r, made, com) /\ Settles(nd, r)
    BY <1>2, <1>3, SameBlocksOK
  <1>5. PendingOK(r, com) /\ Waits(n, r)
    BY <1>2, <1>3 DEF PendingOK, Waits, SameBlocks
  <1>6. NodeInv(n, r, j, ts, made)
    BY <1>1, <1>4, <1>5, SettlesInv
  <1> QED BY <1>3, <1>6 DEF SameBlocks, Mine

\* An own block that is the head after a push and the loop was the head before.
LEMMA OwnHeadStays ==
    ASSUME NEW x, NEW a, NEW p, NEW y, NEW com, Settles(x, a), Switches(a, p, com),
           Settles(p, y), y.ctl.head \in Mine(y)
    PROVE  y.ctl.head = x.ctl.head /\ a.ctl.head = x.ctl.head /\ p.ctl.head = a.ctl.head
  <1>1. y.ctl.head = p.ctl.head /\ p.ctl.head \in Mine(p)
    BY DEF Settles
  <1>2. Mine(p) = Mine(a)
    BY DEF Switches, Mine
  <1>3. p.ctl.head = a.ctl.head
    BY <1>1, <1>2 DEF Switches
  <1>4. a.ctl.head = x.ctl.head
    BY <1>1, <1>2, <1>3 DEF Settles
  <1> QED BY <1>1, <1>3, <1>4

\* A committed block that is not on the chain would be a better head than a committed one.
LEMMA BetterHead ==
    ASSUME RaftOK, NEW c, Leading(c), NEW b \in Committed, ~HasBlock(c, b),
           ~FirstPreferred(b, c.head), c.head # b
    PROVE  c.head \notin Committed
  <1>1. SUFFICES ASSUME c.head \in Committed PROVE FALSE
    OBVIOUS
  <1>2. PICK h : h = c.head
    OBVIOUS
  <1>3. /\ h \in Block \ {Genesis} /\ b \in Block \ {Genesis}
        /\ h \in Anc[Prev[b]] \/ b \in Anc[Prev[h]]
    BY <1>1, <1>2, CommittedChain
  <1>4. CASE h \in Anc[Prev[b]]
    <2>1. h \in Anc[b] /\ h # b
      BY <1>3, <1>4, NotBelowItself
    <2>2. FirstPreferred(b, h)
      BY <1>3, <2>1, AncNumbers
    <2> QED BY <1>2, <2>2
  <1>5. CASE b \in Anc[Prev[h]]
    <2>1. b \in Anc[h]
      BY <1>3, <1>5, NotBelowItself
    <2>2. b \in c.fdb.valid \cup Anc[c.blog] /\ c.fdb.valid \subseteq c.fdb.index
      BY <1>2, <2>1, HeadBranch, LeadingFacts
    <2> QED BY <2>2 DEF HasBlock
  <1> QED BY <1>3, <1>4, <1>5

\* A committed block is accepted, unless the node does not link it.
LEMMA AcceptedInv ==
    ASSUME Bad = {}, RaftOK, NEW n \in Node, NEW nd, NEW j, NEW ts,
           NodeInv(n, nd, j, ts, built), NEW b, NEW tl, Pops(ts, b, tl),
           nd.ctl.head # b, ~HasBlock(nd.ctl, b), NEW p, p = Pushed(nd, b),
           NEW l \in Looped(n, p), NEW r,
           r = IF p.ctl.outcome = "threw" THEN Quits(l.nd) ELSE HasSucceeded(l.nd, b)
    PROVE  /\ NodeInv(n, r, j, tl, built) /\ Mine(r) \subseteq Mine(nd)
           /\ Keeps(n, ts, nd, r) /\ l.announced \cup NewlyApplied(nd, p) \subseteq Committed
  <1>1. b \in Committed
    BY PopTask DEF NodeInv
  <1>2. PICK a, y : a = Aborted(nd) /\ y = l.nd
    OBVIOUS
  <1>3. /\ NodeInv(n, p, j, ts, built) /\ Keeps(n, ts, nd, p) /\ Mine(p) \subseteq Mine(nd)
        /\ Settles(nd, a) /\ Switches(a, p, Committed)
        /\ p.ctl.outcome # "threw" => \/ p.ctl.head # a.ctl.head
                                      \/ ~FirstPreferred(b, a.ctl.head)
        /\ NewlyApplied(nd, p) \subseteq Committed
    BY <1>1, <1>2, PushedInv
  <1>4. Grounded(built, Committed)
    BY DEF RaftOK
  <1>5. /\ NodeInv(n, y, j, ts, built) /\ Keeps(n, ts, p, y) /\ Settles(p, y)
        /\ Mine(y) \subseteq Mine(p) /\ l.announced \subseteq Committed
    BY <1>2, <1>3, <1>4, LoopedInv
  <1>6. Keeps(n, ts, nd, y) /\ Mine(y) \subseteq Mine(nd)
    BY <1>3, <1>5, KeepsTwice
  <1>7. y.ctl.head \in Mine(y) => /\ y.ctl.head = nd.ctl.head /\ a.ctl.head = nd.ctl.head
                                  /\ p.ctl.head = a.ctl.head
    BY <1>3, <1>5, OwnHeadStays
  <1>8. CASE p.ctl.outcome = "threw"
    <2>1. NodeInv(n, y, j, tl, built)
      BY <1>5, <1>7, PassedInv
    <2>2. r = Quits(y)
      BY <1>2, <1>8
    <2>3. NodeInv(n, r, j, tl, built) /\ Mine(r) = Mine(y) /\ r.ctl = y.ctl
      BY <2>1, <2>2, QuitInv
    <2> QED BY <1>3, <1>5, <1>6, <2>3 DEF Keeps
  <1>9. CASE p.ctl.outcome # "threw"
    <2>1. ASSUME y.ctl.head \in Mine(y) PROVE y.ctl.head \notin Committed
      <3>1. PICK c : c = nd.ctl
        OBVIOUS
      <3>2. Leading(c)
        BY <3>1 DEF NodeInv, Core, Blocks
      <3>3. y.ctl.head = c.head /\ ~FirstPreferred(b, c.head) /\ ~HasBlock(c, b) /\ c.head # b
        BY <1>3, <1>7, <1>9, <2>1, <3>1
      <3> QED BY <1>1, <3>2, <3>3, BetterHead
    <2>2. r = HasSucceeded(y, b)
      BY <1>2, <1>9
    <2>3. NodeInv(n, r, j, tl, built) /\ Mine(r) = Mine(y) /\ r.ctl = y.ctl
      BY <1>5, <2>1, <2>2, HasSucceededInv
    <2> QED BY <1>3, <1>5, <1>6, <2>3 DEF Keeps
  <1> QED BY <1>8, <1>9

\* The task of commit_raft_log: the block is the head, is skipped, or is pushed.
LEMMA CommitTaskStep ==
    ASSUME Bad = {}, Inv, NEW n \in Node, CommitTask(n)
    PROVE  Inv' /\ KeepsAll
  <1>1. PICK x, j, ts : x = node[n] /\ j = job[n] /\ ts = tasks[n]
    OBVIOUS
  <1>2. PICK b, tl : b = Head(ts) /\ tl = Tail(ts)
    OBVIOUS
  <1>3. /\ Pops(ts, b, tl) /\ tasks' = [tasks EXCEPT ![n] = tl] /\ job' = job /\ built' = built
        /\ CommittedHead(n, b) \/ CommittedSkipped(n, b) \/ CommittedAccepted(n, b)
    BY <1>1, <1>2 DEF CommitTask, Pops
  <1>4. NodeInv(n, x, j, ts, built) /\ RaftOK /\ Grounded(built, Committed)
    BY <1>1, NodeFacts
  <1>5. b \in Committed
    BY <1>3, <1>4, PopTask DEF NodeInv
  <1>6. PICK r, bs : /\ Main(n, Result(r, bs)) /\ bs \subseteq Committed
                     /\ NodeInv(n, r, j, tl, built) /\ Mine(r) \subseteq Mine(x)
                     /\ Keeps(n, ts, x, r)
    <2>1. PICK none : none = {}
      OBVIOUS
    <2>2. CASE CommittedHead(n, b)
      <3>1. PICK r : r = HasSucceeded(x, b)
        OBVIOUS
      <3>2. x.ctl.head = b /\ Main(n, Result(r, none))
        BY <1>1, <2>1, <2>2, <3>1 DEF CommittedHead, HasSucceeded
      <3>3. NodeInv(n, r, j, tl, built) /\ Mine(r) = Mine(x) /\ r.ctl = x.ctl
        BY <1>3, <1>4, <3>1, <3>2, HasSucceededInv
      <3> QED BY <2>1, <3>2, <3>3 DEF Keeps
    <2>3. CASE CommittedSkipped(n, b)
      <3>1. x.ctl.head # b /\ Main(n, Result(x, none))
        BY <1>1, <2>1, <2>3 DEF CommittedSkipped, Skips
      <3>2. NodeInv(n, x, j, tl, built)
        BY <1>3, <1>4, <3>1, PassedInv
      <3> QED BY <2>1, <3>1, <3>2 DEF Keeps
    <2>4. CASE CommittedAccepted(n, b)
      <3>1. PICK p : p = Pushed(x, b)
        OBVIOUS
      <3>2. /\ x.ctl.head # b
            /\ IF Dropped(n, b) \/ HasBlock(x.ctl, b)
               THEN Main(n, Result(Quits(x), {}))
               ELSE \E l \in Looped(n, p) :
                      Main(n, IF p.ctl.outcome = "threw"
                              THEN Result(Quits(l.nd), l.announced \cup NewlyApplied(x, p))
                              ELSE Result(HasSucceeded(l.nd, b), l.announced \cup NewlyApplied(x, p)))
        BY <1>1, <2>4, <3>1 DEF CommittedAccepted, Quits, HasSucceeded
      <3>3. CASE Dropped(n, b) \/ HasBlock(x.ctl, b)
        <4>1. PICK r : r = Quits(x)
          OBVIOUS
        <4>2. NodeInv(n, x, j, tl, built)
          BY <1>3, <1>4, <3>2, PassedInv
        <4>3. NodeInv(n, r, j, tl, built) /\ Mine(r) = Mine(x) /\ r.ctl = x.ctl
          BY <4>1, <4>2, QuitInv
        <4>4. Main(n, Result(r, none))
          BY <2>1, <3>2, <3>3, <4>1
        <4> QED BY <2>1, <4>3, <4>4 DEF Keeps
      <3>4. CASE ~(Dropped(n, b) \/ HasBlock(x.ctl, b))
        <4>1. PICK l \in Looped(n, p) :
                 Main(n, IF p.ctl.outcome = "threw"
                         THEN Result(Quits(l.nd), l.announced \cup NewlyApplied(x, p))
                         ELSE Result(HasSucceeded(l.nd, b), l.announced \cup NewlyApplied(x, p)))
          BY <3>2, <3>4
        <4>2. PICK r, bs :
                 /\ r = IF p.ctl.outcome = "threw" THEN Quits(l.nd) ELSE HasSucceeded(l.nd, b)
                 /\ bs = l.announced \cup NewlyApplied(x, p)
          OBVIOUS
        <4>3. Main(n, Result(r, bs))
          BY <4>1, <4>2
        <4>4. /\ NodeInv(n, r, j, tl, built) /\ Mine(r) \subseteq Mine(x)
              /\ Keeps(n, ts, x, r) /\ bs \subseteq Committed
          BY <1>3, <1>4, <3>1, <3>2, <3>4, <4>2, AcceptedInv
        <4> QED BY <4>3, <4>4
      <3> QED BY <3>3, <3>4
    <2> QED BY <1>3, <2>2, <2>3, <2>4
  <1>7. /\ j \in {"none", "signing", "waiting"} /\ job' = [job EXCEPT ![n] = j]
        /\ \A m \in Node \ {n} : Mine(r) \cap Mine(node[m]) = {}
    BY <1>1, <1>3, <1>6, NodeFacts
  <1>8. /\ tasks' = [tasks EXCEPT ![n] = tl] /\ Main(n, Result(r, bs)) /\ bs \subseteq Committed
        /\ NodeInv(n, r, j, tl, built') /\ Grounded(built', Committed)
        /\ Keeps(n, tasks[n], node[n], r) /\ built \subseteq built'
    BY <1>1, <1>3, <1>4, <1>6
  <1> QED BY <1>7, <1>8, MainStep

-----------------------------------------------------------------------------
(* The library and the signing thread *)

\* More is committed.
LEMMA MoreCommitted ==
    ASSUME NEW nd, NEW made, NEW com, NEW com2, com \subseteq com2, Core(nd, made, com),
           PendingOK(nd, com)
    PROVE  Core(nd, made, com2) /\ PendingOK(nd, com2)
  <1>1. Blocks(nd.ctl, Mine(nd), made, com2)
    BY BlocksMore DEF Core
  <1> QED BY <1>1 DEF Core, Tracking, PendingOK

\* A node after a step.
LEMMA NodePrime ==
    ASSUME NEW m \in Node, NEW nd, NEW j, NEW ts, nd = node'[m], j = job'[m], ts = tasks'[m],
           Core(nd, built', Committed'), PendingOK(nd, Committed'),
           Group(m, nd, j)', Waits(m, nd)', TasksOK(m, nd, ts)'
    PROVE  NodeInv(m, node[m], job[m], tasks[m], built)'
  <1>1. Group(m, node[m], job[m])'
    BY DEF Group
  <1>2. Waits(m, node[m])'
    BY DEF Waits
  <1>3. TasksOK(m, node[m], tasks[m])'
    BY DEF TasksOK
  <1> QED BY <1>1, <1>2, <1>3 DEF NodeInv

\* A step of the group that leaves the nodes alone.
LEMMA RaftStep ==
    ASSUME Inv, node' = node, built' = built, published' = published,
           job' \in [Node -> {"none", "signing", "waiting"}],
           tasks' \in [Node -> Seq(Block)], Committed \subseteq Committed', RaftOK',
           \A m \in Node : \A nd, j, ts : nd = node[m] /\ j = job'[m] /\ ts = tasks'[m] =>
              Group(m, nd, j)' /\ Waits(m, nd)' /\ TasksOK(m, nd, ts)'
    PROVE  Inv' /\ KeepsAll
  <1>1. ASSUME NEW m \in Node PROVE NodeInv(m, node[m], job[m], tasks[m], built)'
    <2>1. PICK nd, j, ts : nd = node[m] /\ j = job'[m] /\ ts = tasks'[m]
      OBVIOUS
    <2>2. Group(m, nd, j)' /\ Waits(m, nd)' /\ TasksOK(m, nd, ts)'
      BY <2>1
    <2>3. PICK com, com2 : com = Committed /\ com2 = Committed'
      OBVIOUS
    <2>4. Core(nd, built, com) /\ PendingOK(nd, com)
      BY <2>1, <2>3, NodeFacts DEF NodeInv
    <2>5. Core(nd, built, com2) /\ PendingOK(nd, com2)
      BY <2>3, <2>4, MoreCommitted
    <2>6. /\ Core(nd, built', Committed') /\ PendingOK(nd, Committed')
          /\ nd = node'[m] /\ j = job'[m] /\ ts = tasks'[m]
      BY <2>1, <2>3, <2>5
    <2> QED BY <2>2, <2>6, NodePrime
  <1>2. Inv'
    BY <1>1 DEF Inv
  <1> QED BY <1>2 DEF KeepsAll

\* The group as the node saw it: nothing it had applied has changed, nor its term.
LEMMA GroupKept ==
    ASSUME NEW m \in Node, NEW nd, NEW j, Group(m, nd, j), Waits(m, nd),
           lead'[m] = lead[m], TermAt(done[m])' = TermAt(done[m]), AppliedBy(m)' = AppliedBy(m),
           \A b \in Mine(nd) : Unlogged(b) => Unlogged(b)',
           Current(m)' => Current(m),
           \A S : Current(m)' /\ OwnTerm(m, S) => OwnTerm(m, S)'
    PROVE  Group(m, nd, j)' /\ Waits(m, nd)'
  <1>1. (j = "signing" => \A b \in nd.tracker.block : Unlogged(b))'
    BY DEF Group, Mine
  <1>2. (lead[m] # 0 /\ nd.ctl.head \in Dead(nd) => Unlogged(nd.ctl.head))'
    BY DeadIsMine DEF Group
  <1>3. Current(m)' => OwnTerm(m, InFlight(nd, j))'
    BY DEF Group
  <1>4. Group(m, nd, j)'
    BY <1>1, <1>2, <1>3 DEF Group
  <1>5. Waits(m, nd)'
    BY DEF Waits
  <1> QED BY <1>4, <1>5

\* A node that does not lead.
LEMMA GroupIdle ==
    ASSUME NEW m \in Node, NEW nd, NEW j, Group(m, nd, j), lead'[m] = 0,
           \A b \in Mine(nd) : Unlogged(b) => Unlogged(b)'
    PROVE  Group(m, nd, j)' /\ Waits(m, nd)'
  <1>1. (j = "signing" => \A b \in nd.tracker.block : Unlogged(b))'
    BY DEF Group, Mine
  <1>2. ~Current(m)'
    BY DEF Current
  <1> QED BY <1>1, <1>2 DEF Group, Waits

\* The tasks of a node that has applied nothing.
LEMMA TasksKept ==
    ASSUME NEW m \in Node, NEW nd, NEW ts, TasksOK(m, nd, ts), AppliedBy(m)' = AppliedBy(m),
           HandledOf(m, ts)' = HandledOf(m, ts)
    PROVE  TasksOK(m, nd, ts)'
  BY DEF TasksOK

\* A node does not lead any more.
Resigns(n) == lead' = [lead EXCEPT ![n] = 0] /\ UNCHANGED <<term, tail, clog, done, built>>

\* What is asked of leaders is asked of one less.
LEMMA ResignsOK ==
    ASSUME RaftOK, NEW n \in Node, Resigns(n)
    PROVE  /\ RaftOK' /\ Committed' = Committed /\ lead'[n] = 0
           /\ \A m \in Node : \A nd, j, ts :
                 Group(m, nd, j) /\ Waits(m, nd) /\ TasksOK(m, nd, ts) =>
                 Group(m, nd, j)' /\ Waits(m, nd)' /\ TasksOK(m, nd, ts)'
  <1>1. /\ lead' = [lead EXCEPT ![n] = 0] /\ term' = term /\ tail' = tail /\ clog' = clog
        /\ done' = done /\ built' = built
    BY DEF Resigns
  <1>2. RaftTypes /\ LogsOK /\ LeadersOK /\ Grounded(built, Committed) /\ term \in Nat
    BY EntryTypes DEF RaftOK
  <1>3. Committed' = Committed /\ (\A b : Unlogged(b)' <=> Unlogged(b))
    BY <1>1 DEF Committed, Unlogged
  <1>4. lead'[n] = 0 /\ \A m \in Node \ {n} : lead'[m] = lead[m]
    BY <1>1, <1>2 DEF RaftTypes
  <1>5. RaftOK'
    <2>1. lead' \in [Node -> 0..term']
      BY <1>1, <1>2 DEF RaftTypes
    <2>2. RaftTypes'
      BY <1>1, <1>2, <2>1 DEF RaftTypes
    <2>3. LogsOK'
      BY <1>1, <1>2 DEF LogsOK, EntryOK
    <2>4. LeadersOK'
      BY <1>1, <1>2, <1>4 DEF LeadersOK, TermAt
    <2> QED BY <1>1, <1>2, <1>3, <2>2, <2>3, <2>4 DEF RaftOK
  <1>6. ASSUME NEW m \in Node, NEW nd, NEW j, NEW ts,
               Group(m, nd, j), Waits(m, nd), TasksOK(m, nd, ts)
        PROVE  Group(m, nd, j)' /\ Waits(m, nd)' /\ TasksOK(m, nd, ts)'
    <2>2. AppliedBy(m)' = AppliedBy(m) /\ HandledOf(m, ts)' = HandledOf(m, ts)
      BY <1>1 DEF AppliedBy, HandledOf
    <2>3. TasksOK(m, nd, ts)'
      BY <1>6, <2>2, TasksKept
    <2>4. CASE m = n
      BY <1>3, <1>4, <1>6, <2>3, <2>4, GroupIdle
    <2>5. CASE m # n
      <3>1. /\ lead'[m] = lead[m] /\ TermAt(done[m])' = TermAt(done[m])
            /\ Current(m)' => Current(m)
            /\ \A S : Current(m)' /\ OwnTerm(m, S) => OwnTerm(m, S)'
        BY <1>1, <1>4, <2>5 DEF TermAt, Current, OwnTerm
      <3> QED BY <1>3, <1>6, <2>2, <2>3, <3>1, GroupKept
    <2> QED BY <2>4, <2>5
  <1> QED BY <1>3, <1>4, <1>5, <1>6

\* A leader learns of a later one.
LEMMA StepDownStep ==
    ASSUME Inv, NEW n \in Node, StepDown(n)
    PROVE  Inv' /\ KeepsAll
  <1>1. /\ Resigns(n) /\ node' = node /\ job' = job /\ tasks' = tasks /\ built' = built
        /\ published' = published
    BY DEF StepDown, Resigns
  <1>2. RaftOK
    BY DEF Inv
  <1>3. /\ RaftOK' /\ Committed' = Committed
        /\ \A m \in Node : \A nd, j, ts :
              Group(m, nd, j) /\ Waits(m, nd) /\ TasksOK(m, nd, ts) =>
              Group(m, nd, j)' /\ Waits(m, nd)' /\ TasksOK(m, nd, ts)'
    BY <1>1, <1>2, ResignsOK
  <1>4. ASSUME NEW m \in Node, NEW nd, NEW j, NEW ts,
               nd = node[m] /\ j = job'[m] /\ ts = tasks'[m]
        PROVE  Group(m, nd, j)' /\ Waits(m, nd)' /\ TasksOK(m, nd, ts)'
    <2>1. Group(m, nd, j) /\ Waits(m, nd) /\ TasksOK(m, nd, ts)
      BY <1>1, <1>4, NodeFacts DEF NodeInv
    <2> QED BY <1>3, <2>1
  <1>5. /\ job' \in [Node -> {"none", "signing", "waiting"}]
        /\ tasks' \in [Node -> Seq(Block)] /\ Committed \subseteq Committed'
    BY <1>1, <1>3 DEF Inv
  <1>6. node' = node /\ built' = built /\ published' = published
    BY <1>1
  <1> QED BY <1>3, <1>4, <1>5, <1>6, RaftStep

\* A node that is elected has nothing on its hands, so nothing of its term is in a log but
\* the configuration it adds.
LEMMA ElectStep ==
    ASSUME Inv, NEW n \in Node, Elect(n), ~astray'
    PROVE  Inv' /\ KeepsAll
  <1>1. /\ term < MaxTerm /\ lead[n] = 0 /\ Settled(n) /\ term' = term + 1
        /\ lead' = [lead EXCEPT ![n] = term + 1]
        /\ node' = node /\ job' = job /\ tasks' = tasks
        /\ clog' = clog /\ done' = done /\ built' = built /\ published' = published
    <2>1. Settled(n)
      BY Zenon DEF Elect
    <2> QED BY <2>1 DEF Elect
  <1>2. PICK p \in Node : \E k \in 0..Len(tail[p]) :
           tail' = [tail EXCEPT ![n] = Append(SubSeq(tail[p], 1, k), Entry(term + 1, {}))]
    BY DEF Elect
  <1>3. PICK k \in 0..Len(tail[p]) :
           tail' = [tail EXCEPT ![n] = Append(SubSeq(tail[p], 1, k), Entry(term + 1, {}))]
    BY <1>2
  <1>4. RaftOK /\ RaftTypes /\ LogsOK /\ LeadersOK /\ Grounded(built, Committed) /\ term \in Nat
    BY EntryTypes DEF Inv, RaftOK
  <1>5. PICK e : e = Entry(term + 1, {})
    OBVIOUS
  <1>6. e \in Entries /\ e.term = term + 1 /\ e.block = {} /\ EntryIn(e, term', built')
    <2>1. MaxTerm \in Nat /\ term + 1 \in 1..MaxTerm
      BY <1>1, <1>4, ProducerHAAssumption
    <2>2. e \in Entries /\ e.term = term + 1 /\ e.block = {}
      BY <1>5, <2>1 DEF Entry, Entries
    <2> QED BY <1>1, <1>4, <2>2 DEF EntryOK, EntryIn
  <1>7. PICK s : s = Append(SubSeq(tail[p], 1, k), e)
    OBVIOUS
  <1>8. /\ k \in Nat /\ s \in Seq(Entries) /\ Len(s) = k + 1 /\ s[k + 1] = e
        /\ \A i \in 1..k : i \in 1..Len(tail[p]) /\ s[i] = tail[p][i]
    <2>1. tail[p] \in Seq(Entries) /\ Len(tail[p]) \in Nat
      BY <1>4, EntryTypes
    <2>2. k \in Nat /\ \A i \in 1..k : i \in 1..Len(tail[p])
      BY <2>1
    <2>3. \A i \in 1..k : tail[p][i] \in Entries
      BY <1>4, <2>2, EntryTypes
    <2>4. PICK t : t = SubSeq(tail[p], 1, k)
      OBVIOUS
    <2>5. t \in Seq(Entries) /\ Len(t) = k /\ \A i \in 1..k : t[i] = tail[p][i]
      <3>1. /\ t \in Seq(Entries) /\ Len(t) = IF 1 <= k THEN k - 1 + 1 ELSE 0
            /\ \A i \in 1 .. k - 1 + 1 : t[i] = tail[p][1 + i - 1]
        BY <2>2, <2>3, <2>4, SubSeqProperties
      <3> QED BY <2>2, <3>1
    <2>6. /\ s \in Seq(Entries) /\ Len(s) = Len(t) + 1
          /\ (\A i \in 1..Len(t) : s[i] = t[i]) /\ s[Len(t) + 1] = e
      BY <1>6, <1>7, <2>4, <2>5, AppendProperties
    <2> QED BY <2>2, <2>5, <2>6
  <1>9. tail'[n] = s /\ \A m \in Node \ {n} : tail'[m] = tail[m]
    BY <1>3, <1>4, <1>5, <1>7 DEF RaftTypes
  <1>10. tail' \in [Node -> Seq(Entries)]
    <2>1. tail' = [tail EXCEPT ![n] = s]
      BY <1>3, <1>5, <1>7
    <2> QED BY <1>4, <1>8, <2>1 DEF RaftTypes
  <1>11. /\ lead'[n] = term + 1 /\ (\A m \in Node \ {n} : lead'[m] = lead[m])
         /\ \A m \in Node : lead[m] \in 0..term
    BY <1>1, <1>4 DEF RaftTypes
  <1>12. ASSUME NEW m \in Node, NEW i \in 1..Len(tail'[m])
         PROVE  \/ tail'[m][i] = e
                \/ \E a \in Node : \E h \in 1..Len(tail[a]) : tail'[m][i] = tail[a][h]
    <2>1. CASE m = n
      <3>1. i \in 1..k \/ i = k + 1
        BY <1>8, <1>9, <2>1
      <3> QED BY <1>8, <1>9, <2>1, <3>1
    <2>2. CASE m # n
      BY <1>9, <2>2
    <2> QED BY <2>1, <2>2
  <1>13. Committed' = Committed /\ \A b : Unlogged(b) => Unlogged(b)'
    <2>1. Committed' = Committed
      BY <1>1 DEF Committed
    <2>2. ASSUME NEW b, Unlogged(b) PROVE Unlogged(b)'
      <3>1. ASSUME NEW m \in Node, NEW i \in 1..Len(tail'[m]) PROVE b \notin tail'[m][i].block
        <4>1. \A a \in Node : \A h \in 1..Len(tail[a]) : b \notin tail[a][h].block
          BY <2>2 DEF Unlogged
        <4> QED BY <1>6, <1>12, <4>1
      <3> QED BY <2>1, <2>2, <3>1 DEF Unlogged
    <2> QED BY <2>1, <2>2
  <1>14. RaftOK'
    <2>1. RaftTypes'
      <3>1. term' \in 0..MaxTerm
        BY <1>1, <1>4, ProducerHAAssumption
      <3>2. lead' \in [Node -> 0..term']
        <4>1. 0..term \subseteq 0..term' /\ term + 1 \in 0..term'
          BY <1>1, <1>4
        <4> QED BY <1>1, <1>4, <4>1 DEF RaftTypes
      <3> QED BY <1>1, <1>4, <1>10, <3>1, <3>2 DEF RaftTypes
    <2>2. \A f : EntryOK(f) => EntryIn(f, term', built')
      BY <1>1, <1>4 DEF EntryOK, EntryIn
    <2>3. \A i \in 1..Len(clog') : EntryIn(clog'[i], term', built')
      BY <1>1, <1>4, <2>2 DEF LogsOK
    <2>4. ASSUME NEW m \in Node, NEW i \in 1..Len(tail'[m])
          PROVE  EntryIn(tail'[m][i], term', built')
      <3>1. \A a \in Node : \A h \in 1..Len(tail[a]) : EntryOK(tail[a][h])
        BY <1>4 DEF LogsOK
      <3> QED BY <1>6, <1>12, <2>2, <3>1
    <2>5. \A i, j \in 1..Len(clog') : i < j => Before(clog'[i], clog'[j])
      BY <1>1, <1>4 DEF LogsOK
    <2>6. \A f : EntryOK(f) => Before(f, e)
      BY <1>4, <1>6 DEF EntryOK, EntryIn, Before
    <2>7. ASSUME NEW m \in Node, NEW i \in 1..Len(clog'), NEW j \in 1..Len(tail'[m])
          PROVE  Before(clog'[i], tail'[m][j])
      <3>1. EntryOK(clog[i]) /\ \A a \in Node : \A h \in 1..Len(tail[a]) : Before(clog[i], tail[a][h])
        BY <1>1, <1>4 DEF LogsOK
      <3>2. PICK f : f = clog[i]
        OBVIOUS
      <3>3. clog'[i] = f /\ Before(f, e) /\ \A a \in Node : \A h \in 1..Len(tail[a]) : Before(f, tail[a][h])
        BY <1>1, <2>6, <3>1, <3>2
      <3> QED BY <1>12, <3>3
    <2>8. ASSUME NEW m \in Node, NEW i \in 1..Len(tail'[m]), NEW j \in 1..Len(tail'[m]), i < j
          PROVE  Before(tail'[m][i], tail'[m][j])
      <3>1. CASE m # n
        BY <1>4, <1>9, <2>8, <3>1 DEF LogsOK
      <3>2. CASE m = n
        <4>1. i \in 1..k /\ (j \in 1..k \/ j = k + 1)
          BY <1>8, <1>9, <2>8, <3>2
        <4>2. CASE j \in 1..k
          BY <1>4, <1>8, <1>9, <2>8, <3>2, <4>1, <4>2 DEF LogsOK
        <4>3. CASE j = k + 1
          <5>1. EntryOK(tail[p][i])
            BY <1>4, <1>8, <4>1 DEF LogsOK
          <5> QED BY <1>8, <1>9, <2>6, <3>2, <4>1, <4>3, <5>1
        <4> QED BY <4>1, <4>2, <4>3
      <3> QED BY <3>1, <3>2
    <2>9. LogsOK'
      BY <2>3, <2>4, <2>5, <2>7, <2>8 DEF LogsOK, EntryOK
    <2>10. LeadersOK'
      <3>1. ASSUME NEW a \in Node, NEW m \in Node, lead'[a] # 0, lead'[a] = lead'[m] PROVE a = m
        BY <1>4, <1>11, <3>1 DEF LeadersOK
      <3>2. ASSUME NEW m \in Node, lead'[m] # 0
            PROVE  /\ TermAt(done[m])' <= lead'[m]
                   /\ \A i \in 1..Len(tail'[m]) : tail'[m][i].term <= lead'[m]
        <4>1. TermAt(done[m])' = TermAt(done[m])
          BY <1>1 DEF TermAt
        <4>2. CASE m # n
          BY <1>4, <1>9, <1>11, <3>2, <4>1, <4>2 DEF LeadersOK
        <4>3. CASE m = n
          <5>1. TermAt(done[m]) <= term
            BY <1>4, EntryTypes DEF TermAt
          <5>2. TermAt(done[m]) \in Nat
            BY <1>4, LaterTerms
          <5>3. ASSUME NEW i \in 1..Len(tail'[m]) PROVE tail'[m][i].term <= term + 1
            <6>1. CASE tail'[m][i] = e
              BY <1>4, <1>6, <6>1
            <6>2. CASE \E a \in Node : \E h \in 1..Len(tail[a]) : tail'[m][i] = tail[a][h]
              BY <1>4, <6>2, EntryTypes
            <6> QED BY <1>12, <6>1, <6>2
          <5> QED BY <1>4, <1>11, <4>1, <4>3, <5>1, <5>2, <5>3
        <4> QED BY <4>2, <4>3
      <3> QED BY <3>1, <3>2 DEF LeadersOK
    <2> QED BY <1>1, <1>4, <1>13, <2>1, <2>9, <2>10 DEF RaftOK
  <1>15. ASSUME NEW m \in Node, NEW nd, NEW j, NEW ts,
                nd = node[m] /\ j = job'[m] /\ ts = tasks'[m]
         PROVE  Group(m, nd, j)' /\ Waits(m, nd)' /\ TasksOK(m, nd, ts)'
    <2>1. Group(m, nd, j) /\ Waits(m, nd) /\ TasksOK(m, nd, ts) /\ Core(nd, built, Committed)
      BY <1>1, <1>15, NodeFacts DEF NodeInv
    <2>2. AppliedBy(m)' = AppliedBy(m) /\ HandledOf(m, ts)' = HandledOf(m, ts)
      BY <1>1 DEF AppliedBy, HandledOf
    <2>3. TasksOK(m, nd, ts)'
      BY <2>1, <2>2, TasksKept
    <2>4. TermAt(done[m])' = TermAt(done[m])
      BY <1>1 DEF TermAt
    <2>5. CASE m # n
      <3>1. /\ lead'[m] = lead[m] /\ lead[m] # term + 1
            /\ Current(m)' => Current(m)
        BY <1>1, <1>4, <1>11, <2>5 DEF TermAt, Current
      <3>2. ASSUME NEW S, OwnTerm(m, S) PROVE OwnTerm(m, S)'
        <4>1. ASSUME NEW a \in Node, NEW i \in 1..Len(tail'[a]), tail'[a][i].term = lead'[m]
              PROVE  tail'[a][i].block \subseteq S
          <5>1. \A b \in Node : \A h \in 1..Len(tail[b]) :
                   tail[b][h].term = lead[m] => tail[b][h].block \subseteq S
            BY <3>2 DEF OwnTerm
          <5>2. CASE tail'[a][i] = e
            BY <1>6, <5>2
          <5>3. CASE \E b \in Node : \E h \in 1..Len(tail[b]) : tail'[a][i] = tail[b][h]
            BY <3>1, <4>1, <5>1, <5>3
          <5> QED BY <1>12, <5>2, <5>3
        <4> QED BY <1>1, <3>1, <3>2, <4>1 DEF OwnTerm
      <3> QED BY <1>13, <2>1, <2>2, <2>3, <2>4, <3>1, <3>2, GroupKept
    <2>6. CASE m = n
      <3>1. /\ nd.pending = {} /\ nd.tracker.status = "none"
            /\ ~Aborts(nd.failed \ nd.succ, nd.ctl)
        BY <1>1, <1>15, <2>6 DEF Settled
      <3>2. nd.ctl.head \notin Dead(nd)
        <4>1. nd.ctl.fdb.head = nd.ctl.head
          BY <2>1, LeadingFacts DEF Core, Blocks
        <4> QED BY <3>1, <4>1 DEF Dead, Aborts
      <3>3. j = "none" /\ InFlight(nd, j) = {} /\ ~nd.tracker.ok
        BY <2>1, <3>1 DEF Group, InFlight
      <3>4. OwnTerm(n, {})'
        <4>1. \A i \in 1..Len(clog') : clog'[i].term # lead'[n]
          BY <1>1, <1>4, <1>11, EntryTypes
        <4>2. ASSUME NEW a \in Node, NEW i \in 1..Len(tail'[a]), tail'[a][i].term = lead'[n]
              PROVE  tail'[a][i].block \subseteq {}
          <5>1. ASSUME NEW b \in Node, NEW h \in 1..Len(tail[b]) PROVE tail[b][h].term # term + 1
            <6>1. tail[b][h].term \in 1..term
              BY <1>4, EntryTypes
            <6> QED BY <1>4, <6>1
          <5> QED BY <1>6, <1>11, <1>12, <4>2, <5>1
        <4> QED BY <4>1, <4>2 DEF OwnTerm
      <3>5. Group(m, nd, j)'
        BY <2>6, <3>1, <3>2, <3>3, <3>4 DEF Group
      <3>6. Waits(m, nd)'
        BY <3>1 DEF Waits
      <3> QED BY <2>3, <3>5, <3>6
    <2> QED BY <2>5, <2>6
  <1>16. /\ job' \in [Node -> {"none", "signing", "waiting"}]
         /\ tasks' \in [Node -> Seq(Block)] /\ Committed \subseteq Committed'
    BY <1>1, <1>13 DEF Inv
  <1>17. node' = node /\ built' = built /\ published' = published
    BY <1>1
  <1> QED BY <1>14, <1>15, <1>16, <1>17, RaftStep

\* The group commits an entry: it comes after the committed ones and before what a node
\* that has it in its log has after it.
LEMMA GroupCommitsStep ==
    ASSUME Inv, NEW n \in Node, GroupCommits(n)
    PROVE  Inv' /\ KeepsAll
  <1>1. /\ tail[n] # <<>> /\ node' = node /\ job' = job /\ tasks' = tasks /\ term' = term
        /\ lead' = lead /\ done' = done /\ built' = built /\ published' = published
    BY DEF GroupCommits
  <1>2. PICK e : e = Head(tail[n])
    OBVIOUS
  <1>3. /\ clog' = Append(clog, e)
        /\ tail' = [m \in Node |-> IF tail[m] # <<>> /\ Head(tail[m]) = e THEN Tail(tail[m])
                                   ELSE <<>>]
    BY <1>2 DEF GroupCommits
  <1>4. RaftOK /\ RaftTypes /\ LogsOK /\ LeadersOK /\ Grounded(built, Committed) /\ term \in Nat
    BY EntryTypes DEF Inv, RaftOK
  <1>5. /\ clog \in Seq(Entries) /\ Len(clog) \in Nat
        /\ \A m \in Node : tail[m] \in Seq(Entries) /\ Len(tail[m]) \in Nat
        /\ \A m \in Node : done[m] \in Nat /\ done[m] <= Len(clog)
    BY <1>4, EntryTypes DEF RaftTypes
  <1>6. 1 \in 1..Len(tail[n]) /\ e = tail[n][1] /\ e \in Entries
    <2>1. PICK s : s = tail[n]
      OBVIOUS
    <2>2. s \in Seq(Entries) /\ s # <<>> /\ Len(s) \in Nat
      BY <1>1, <1>5, <2>1
    <2>3. Len(s) # 0
      BY <2>2, EmptySeq
    <2>4. 1 \in 1..Len(s) /\ Head(s) = s[1] /\ Head(s) \in Entries
      BY <2>2, <2>3, HeadTailProperties
    <2> QED BY <1>2, <2>1, <2>4
  <1>7. /\ clog' \in Seq(Entries) /\ Len(clog') = Len(clog) + 1 /\ clog'[Len(clog) + 1] = e
        /\ \A i \in 1..Len(clog) : clog'[i] = clog[i]
    BY <1>3, <1>5, <1>6, AppendProperties
  <1>8. ASSUME NEW m \in Node
        PROVE  /\ tail'[m] \in Seq(Entries) /\ Len(tail'[m]) \in Nat
               /\ \A i \in 1..Len(tail'[m]) : /\ i + 1 \in 1..Len(tail[m]) /\ 1 \in 1..Len(tail[m])
                                              /\ tail'[m][i] = tail[m][i + 1]
                                              /\ tail[m][1] = e
    <2>1. PICK s : s = tail[m]
      OBVIOUS
    <2>2. s \in Seq(Entries) /\ Len(s) \in Nat
      BY <1>5, <2>1
    <2>3. CASE s # <<>> /\ Head(s) = e
      <3>1. tail'[m] = Tail(s)
        BY <1>3, <2>1, <2>3
      <3>2. /\ Tail(s) \in Seq(Entries) /\ Len(Tail(s)) = Len(s) - 1
            /\ \A i \in 1..Len(Tail(s)) : Tail(s)[i] = s[i + 1]
        BY <2>2, <2>3, HeadTailProperties
      <3>3. Len(s) # 0 /\ s[1] = e
        BY <2>2, <2>3, EmptySeq
      <3> QED BY <2>1, <2>2, <3>1, <3>2, <3>3
    <2>4. CASE ~(s # <<>> /\ Head(s) = e)
      <3>1. PICK z : z = <<>>
        OBVIOUS
      <3>2. tail'[m] = z
        BY <1>3, <2>1, <2>4, <3>1
      <3>3. z \in Seq(Entries) /\ Len(z) = 0
        BY <3>1
      <3> QED BY <3>2, <3>3
    <2> QED BY <2>3, <2>4
  <1>9. ASSUME NEW i \in 1..Len(clog') PROVE i \in 1..Len(clog) \/ (i = Len(clog) + 1 /\ clog'[i] = e)
    BY <1>5, <1>7
  <1>10. \A x : x \in Committed' <=> x \in Committed \/ x \in e.block
    <2>1. DOMAIN clog' = 1..Len(clog') /\ DOMAIN clog = 1..Len(clog)
      BY <1>5, <1>7, LenProperties
    <2>2. 1..Len(clog) \subseteq 1..Len(clog') /\ Len(clog) + 1 \in 1..Len(clog')
      BY <1>5, <1>7
    <2>3. ASSUME NEW x PROVE x \in Committed <=> \E i \in 1..Len(clog) : x \in clog[i].block
      BY <2>1 DEF Committed
    <2>4. ASSUME NEW x PROVE x \in Committed' <=> \E i \in 1..Len(clog') : x \in clog'[i].block
      BY <2>1 DEF Committed
    <2> QED BY <1>7, <1>9, <2>2, <2>3, <2>4
  <1>11. EntryOK(e) /\ (\A i \in 1..Len(clog) : Before(clog[i], e))
         /\ \A b : Unlogged(b) => b \notin e.block
    BY <1>4, <1>6 DEF LogsOK, Unlogged
  <1>12. \A b : Unlogged(b) => Unlogged(b)'
    <2>1. ASSUME NEW b, Unlogged(b), NEW m \in Node, NEW i \in 1..Len(tail'[m])
          PROVE  b \notin tail'[m][i].block
      BY <1>8, <2>1 DEF Unlogged
    <2> QED BY <1>10, <1>11, <2>1 DEF Unlogged
  <1>13. RaftOK'
    <2>1. RaftTypes'
      <3>1. tail' \in [Node -> Seq(Entries)]
        BY <1>3, <1>8
      <3>2. done' \in [Node -> 0..Len(clog')]
        <4>1. 0..Len(clog) \subseteq 0..Len(clog')
          BY <1>5, <1>7
        <4> QED BY <1>1, <1>4, <4>1 DEF RaftTypes
      <3> QED BY <1>1, <1>4, <1>7, <3>1, <3>2 DEF RaftTypes
    <2>2. \A i \in 1..Len(clog') : EntryIn(clog'[i], term', built')
      BY <1>1, <1>4, <1>7, <1>9, <1>11 DEF LogsOK, EntryOK
    <2>3. \A m \in Node : \A i \in 1..Len(tail'[m]) : EntryIn(tail'[m][i], term', built')
      BY <1>1, <1>4, <1>8 DEF LogsOK, EntryOK
    <2>4. ASSUME NEW i \in 1..Len(clog'), NEW j \in 1..Len(clog'), i < j
          PROVE  Before(clog'[i], clog'[j])
      <3>1. i \in 1..Len(clog) /\ clog'[i] = clog[i]
        BY <1>5, <1>7, <1>9, <2>4
      <3>2. CASE j \in 1..Len(clog)
        BY <1>4, <1>7, <2>4, <3>1, <3>2 DEF LogsOK
      <3>3. CASE clog'[j] = e
        BY <1>11, <3>1, <3>3
      <3> QED BY <1>9, <3>2, <3>3
    <2>5. ASSUME NEW m \in Node, NEW i \in 1..Len(clog'), NEW j \in 1..Len(tail'[m])
          PROVE  Before(clog'[i], tail'[m][j])
      <3>1. /\ j + 1 \in 1..Len(tail[m]) /\ 1 \in 1..Len(tail[m]) /\ 1 < j + 1
            /\ tail'[m][j] = tail[m][j + 1] /\ tail[m][1] = e
        BY <1>8
      <3>2. CASE i \in 1..Len(clog)
        BY <1>4, <1>7, <3>1, <3>2 DEF LogsOK
      <3>3. CASE clog'[i] = e
        BY <1>4, <3>1, <3>3 DEF LogsOK
      <3> QED BY <1>9, <3>2, <3>3
    <2>6. ASSUME NEW m \in Node, NEW i \in 1..Len(tail'[m]), NEW j \in 1..Len(tail'[m]), i < j
          PROVE  Before(tail'[m][i], tail'[m][j])
      <3>1. i + 1 < j + 1
        BY <1>8, <2>6
      <3> QED BY <1>4, <1>8, <3>1 DEF LogsOK
    <2>7. LogsOK'
      BY <2>2, <2>3, <2>4, <2>5, <2>6 DEF LogsOK, EntryOK
    <2>8. LeadersOK'
      <3>1. ASSUME NEW m \in Node PROVE TermAt(done[m])' = TermAt(done[m])
        BY <1>1, <1>5, <1>7 DEF TermAt
      <3>2. ASSUME NEW m \in Node, lead'[m] # 0, NEW i \in 1..Len(tail'[m])
            PROVE  tail'[m][i].term <= lead'[m]
        BY <1>1, <1>4, <1>8, <3>2 DEF LeadersOK
      <3> QED BY <1>1, <1>4, <3>1, <3>2 DEF LeadersOK
    <2>9. Grounded(built', Committed')
      <3>1. e.block \subseteq built
        BY <1>11 DEF EntryOK, EntryIn
      <3> QED BY <1>1, <1>4, <1>10, <3>1 DEF Grounded
    <2> QED BY <2>1, <2>7, <2>8, <2>9 DEF RaftOK
  <1>14. ASSUME NEW m \in Node, NEW nd, NEW j, NEW ts,
                nd = node[m] /\ j = job'[m] /\ ts = tasks'[m]
         PROVE  Group(m, nd, j)' /\ Waits(m, nd)' /\ TasksOK(m, nd, ts)'
    <2>1. Group(m, nd, j) /\ Waits(m, nd) /\ TasksOK(m, nd, ts)
      BY <1>1, <1>14, NodeFacts DEF NodeInv
    <2>2. \A i \in 1..done[m] : clog'[i] = clog[i]
      BY <1>5, <1>7
    <2>3. AppliedBy(m)' = AppliedBy(m) /\ HandledOf(m, ts)' = HandledOf(m, ts)
      BY <1>1, <2>2 DEF AppliedBy, HandledOf
    <2>4. TasksOK(m, nd, ts)'
      BY <2>1, <2>3, TasksKept
    <2>5. lead'[m] = lead[m] /\ TermAt(done[m])' = TermAt(done[m])
      BY <1>1, <1>5, <1>7 DEF TermAt
    <2>6. Current(m)' => Current(m)
      <3>1. TermAt(Len(clog))' = e.term
        BY <1>5, <1>7 DEF TermAt
      <3>2. /\ TermAt(Len(clog)) <= e.term /\ TermAt(Len(clog)) \in Nat /\ e.term \in Nat
            /\ lead[m] \in Nat
        BY <1>4, <1>6, LaterTerms, EntryTypes
      <3> QED BY <1>1, <3>1, <3>2 DEF Current
    <2>7. ASSUME NEW S, OwnTerm(m, S) PROVE OwnTerm(m, S)'
      <3>1. ASSUME NEW i \in 1..Len(clog'), i > done'[m], clog'[i].term = lead'[m]
            PROVE  clog'[i].block \subseteq S
        <4>1. CASE i \in 1..Len(clog)
          BY <1>1, <1>7, <2>7, <3>1, <4>1 DEF OwnTerm
        <4>2. CASE clog'[i] = e
          BY <1>1, <1>6, <2>7, <3>1, <4>2 DEF OwnTerm
        <4> QED BY <1>9, <4>1, <4>2
      <3>2. ASSUME NEW a \in Node, NEW i \in 1..Len(tail'[a]), tail'[a][i].term = lead'[m]
            PROVE  tail'[a][i].block \subseteq S
        <4>1. i + 1 \in 1..Len(tail[a]) /\ tail'[a][i] = tail[a][i + 1]
          BY <1>8
        <4>2. tail[a][i + 1].term = lead[m]
          BY <1>1, <3>2, <4>1
        <4> QED BY <2>7, <4>1, <4>2 DEF OwnTerm
      <3> QED BY <3>1, <3>2 DEF OwnTerm
    <2> QED BY <1>12, <2>1, <2>3, <2>4, <2>5, <2>6, <2>7, GroupKept
  <1>15. /\ job' \in [Node -> {"none", "signing", "waiting"}]
         /\ tasks' \in [Node -> Seq(Block)] /\ Committed \subseteq Committed'
    BY <1>1, <1>10 DEF Inv
  <1>16. node' = node /\ built' = built /\ published' = published
    BY <1>1
  <1> QED BY <1>13, <1>14, <1>15, <1>16, RaftStep

\* The task of an entry goes behind the others, which come before it in the log.
LEMMA AppliedTasks ==
    ASSUME RaftOK, NEW n \in Node, NEW nd, NEW ts, TasksOK(n, nd, ts), NEW k, k = done[n] + 1,
           k \in 1..Len(clog), done'[n] = k, clog' = clog, NEW ts2,
           IF clog[k].block = {} THEN ts2 = ts
           ELSE ts2 = Append(ts, CHOOSE b \in clog[k].block : TRUE)
    PROVE  TasksOK(n, nd, ts2)' /\ ts2 \in Seq(Block)
  <1>1. done[n] \in Nat /\ Len(clog) \in Nat /\ done[n] < k /\ 1..k = (1..done[n]) \cup {k}
    BY EntryTypes
  <1>2. \A x : x \in AppliedBy(n)' <=> x \in AppliedBy(n) \/ x \in clog[k].block
    BY <1>1 DEF AppliedBy
  <1>3. ts \in Seq(Block) /\ Len(ts) \in Nat /\ DOMAIN ts = 1..Len(ts)
    BY LenProperties DEF TasksOK
  <1>4. CASE clog[k].block = {}
    <2>1. ts2 = ts
      BY <1>4
    <2>2. AppliedBy(n)' = AppliedBy(n)
      BY <1>2, <1>4
    <2>3. HandledOf(n, ts)' = HandledOf(n, ts)
      BY <1>1, <1>4 DEF HandledOf
    <2> QED BY <1>3, <2>1, <2>2, <2>3, TasksKept
  <1>5. CASE clog[k].block # {}
    <2>1. PICK b \in built : clog[k].block = {b}
      BY <1>5 DEF RaftOK, LogsOK, EntryOK, EntryIn
    <2>2. b \in Block \ {Genesis}
      BY EntryTypes
    <2>3. ts2 = Append(ts, b)
      BY <1>5, <2>1
    <2>4. /\ ts2 \in Seq(Block) /\ Len(ts2) = Len(ts) + 1 /\ ts2[Len(ts) + 1] = b
          /\ \A i \in 1..Len(ts) : ts2[i] = ts[i]
      <3>1. b \in Block
        BY <2>2
      <3>2. PICK t : t = Append(ts, b)
        OBVIOUS
      <3>3. /\ t \in Seq(Block) /\ Len(t) = Len(ts) + 1 /\ t[Len(ts) + 1] = b
            /\ \A i \in 1..Len(ts) : t[i] = ts[i]
        BY <1>3, <3>1, <3>2, AppendProperties
      <3>4. ts2 = t
        BY <2>3, <3>2
      <3> QED BY <3>3, <3>4
    <2>5. \A i \in 1..Len(ts2) : i \in 1..Len(ts) \/ (i = Len(ts) + 1 /\ ts2[i] = b)
      BY <1>3, <2>4
    <2>6. DOMAIN ts2 = 1..Len(ts2) /\ 1..Len(ts) \subseteq 1..Len(ts2) /\ Len(ts) + 1 \in 1..Len(ts2)
      BY <1>3, <2>4, LenProperties
    <2>7. ASSUME NEW x \in AppliedBy(n) PROVE x \in Anc[Prev[b]] /\ x # b
      <3>1. PICK i \in 1..done[n] : x \in clog[i].block
        BY DEF AppliedBy
      <3>2. i \in 1..Len(clog) /\ i < k
        BY <1>1, EntryTypes
      <3>3. x \in Anc[Prev[b]]
        BY <2>1, <3>1, <3>2 DEF RaftOK, LogsOK, Before
      <3> QED BY <2>2, <3>3, NotBelowItself
    <2>8. \A i \in 1..Len(ts) : ts[i] \in AppliedBy(n)
      BY DEF TasksOK
    <2>9. HandledOf(n, ts2)' = HandledOf(n, ts) /\ HandledOf(n, ts) \subseteq AppliedBy(n)
      <3>1. HandledOf(n, ts) \subseteq AppliedBy(n)
        BY DEF HandledOf, AppliedBy
      <3>2. b \notin HandledOf(n, ts) /\ b \notin HandledOf(n, ts2)'
        <4>1. b \notin HandledOf(n, ts2)'
          BY <2>4, <2>6 DEF HandledOf
        <4> QED BY <2>7, <3>1, <4>1
      <3>3. ASSUME NEW x \in Block, x # b
            PROVE  x \in HandledOf(n, ts2)' <=> x \in HandledOf(n, ts)
        <4>1. (\A i \in DOMAIN ts2 : ts2[i] # x) <=> (\A i \in DOMAIN ts : ts[i] # x)
          BY <1>3, <2>4, <2>5, <2>6, <3>3
        <4>2. (\E i \in 1..k : clog[i].block = {x}) <=> (\E i \in 1..done[n] : clog[i].block = {x})
          BY <1>1, <2>1, <3>3
        <4> QED BY <4>1, <4>2 DEF HandledOf
      <3>4. \A x \in HandledOf(n, ts2)' : x \in Block
        BY DEF HandledOf
      <3>5. \A x \in HandledOf(n, ts) : x \in Block
        BY DEF HandledOf
      <3>6. PICK H1, H2 : H1 = HandledOf(n, ts2)' /\ H2 = HandledOf(n, ts)
        OBVIOUS
      <3>7. \A x : x \in H1 <=> x \in H2
        BY <3>2, <3>3, <3>4, <3>5, <3>6
      <3>8. H1 = H2
        BY <3>7
      <3> QED BY <3>1, <3>6, <3>8
    <2>10. \A i \in 1..Len(ts2) : ts2[i] \in AppliedBy(n)'
      BY <1>2, <2>1, <2>4, <2>5, <2>8
    <2>11. ASSUME NEW i \in 1..Len(ts2), NEW j \in 1..Len(ts2), i < j
           PROVE  ts2[i] \in Anc[Prev[ts2[j]]]
      <3>1. i \in 1..Len(ts) /\ ts2[i] = ts[i]
        BY <1>3, <2>4, <2>5, <2>11
      <3>2. CASE j \in 1..Len(ts)
        BY <2>4, <2>11, <3>1, <3>2 DEF TasksOK
      <3>3. CASE ts2[j] = b
        BY <2>7, <2>8, <3>1, <3>3
      <3> QED BY <2>5, <3>2, <3>3
    <2>12. ASSUME NEW x \in HandledOf(n, ts), NEW i \in 1..Len(ts2) PROVE x \in Anc[Prev[ts2[i]]]
      <3>1. CASE i \in 1..Len(ts)
        BY <2>4, <3>1 DEF TasksOK
      <3>2. CASE ts2[i] = b
        BY <2>7, <2>9, <3>2
      <3> QED BY <2>5, <3>1, <3>2
    <2>13. /\ nd.succ \subseteq HandledOf(n, ts)
           /\ nd.ctl.head \in Mine(nd) \cap HandledOf(n, ts) => nd.ctl.head \in nd.succ
      BY DEF TasksOK
    <2> QED BY <2>4, <2>9, <2>10, <2>11, <2>12, <2>13 DEF TasksOK
  <1> QED BY <1>4, <1>5

\* A node applies an entry.  If it still leads and builds, the entry is one of its term, so
\* it has no block, or the one the signing thread waits for.
LEMMA CommitRaftLogStep ==
    ASSUME Inv, NEW n \in Node, CommitRaftLog(n)
    PROVE  Inv' /\ KeepsAll
  <1>1. PICK k : k = done[n] + 1
    OBVIOUS
  <1>2. /\ done[n] < Len(clog) /\ done' = [done EXCEPT ![n] = k]
        /\ lead' = [lead EXCEPT ![n] = IF clog[k].term > lead[n] THEN 0 ELSE lead[n]]
        /\ node' = node /\ job' = job /\ term' = term /\ tail' = tail /\ clog' = clog
        /\ built' = built /\ published' = published
    BY <1>1 DEF CommitRaftLog
  <1>3. IF clog[k].block = {} THEN tasks' = tasks
        ELSE tasks' = [tasks EXCEPT ![n] = Append(tasks[n], CHOOSE b \in clog[k].block : TRUE)]
    BY <1>1 DEF CommitRaftLog
  <1>4. RaftOK /\ RaftTypes /\ LogsOK /\ LeadersOK /\ Grounded(built, Committed) /\ term \in Nat
    BY EntryTypes DEF Inv, RaftOK
  <1>5. /\ done[n] \in Nat /\ Len(clog) \in Nat /\ k \in 1..Len(clog) /\ k \in 0..Len(clog)
        /\ done[n] < k /\ k \in Nat
    <2>1. done[n] \in Nat /\ Len(clog) \in Nat
      BY <1>4, EntryTypes
    <2> QED BY <1>1, <1>2, <2>1
  <1>6. /\ done'[n] = k /\ \A m \in Node \ {n} : done'[m] = done[m]
    BY <1>2, <1>4 DEF RaftTypes
  <1>7. /\ lead'[n] = (IF clog[k].term > lead[n] THEN 0 ELSE lead[n])
        /\ \A m \in Node \ {n} : lead'[m] = lead[m]
    BY <1>2, <1>4 DEF RaftTypes
  <1>8. clog[k].term \in Nat /\ lead[n] \in Nat
    BY <1>4, <1>5, EntryTypes
  <1>9. /\ tasks' \in [Node -> Seq(Block)] /\ \A m \in Node \ {n} : tasks'[m] = tasks[m]
        /\ IF clog[k].block = {} THEN tasks'[n] = tasks[n]
           ELSE tasks'[n] = Append(tasks[n], CHOOSE b \in clog[k].block : TRUE)
    <2>1. tasks \in [Node -> Seq(Block)]
      BY DEF Inv
    <2>2. CASE clog[k].block = {}
      BY <1>3, <2>1, <2>2
    <2>3. CASE clog[k].block # {}
      <3>1. PICK b \in built : clog[k].block = {b}
        BY <1>4, <1>5, <2>3 DEF LogsOK, EntryOK, EntryIn
      <3>2. PICK c : c = CHOOSE y \in clog[k].block : TRUE
        OBVIOUS
      <3>3. c \in Block
        BY <1>4, <3>1, <3>2, EntryTypes
      <3>4. Append(tasks[n], c) \in Seq(Block)
        BY <2>1, <3>3, AppendProperties
      <3> QED BY <1>3, <2>1, <2>3, <3>2, <3>4
    <2> QED BY <2>2, <2>3
  <1>10. Committed' = Committed /\ (\A b : Unlogged(b)' <=> Unlogged(b))
    BY <1>2 DEF Committed, Unlogged
  <1>11. RaftOK'
    <2>1. lead' \in [Node -> 0..term'] /\ done' \in [Node -> 0..Len(clog')]
      BY <1>2, <1>4, <1>5 DEF RaftTypes
    <2>2. RaftTypes'
      BY <1>2, <1>4, <2>1 DEF RaftTypes
    <2>3. LogsOK'
      BY <1>2, <1>4 DEF LogsOK, EntryOK
    <2>4. LeadersOK'
      <3>1. ASSUME NEW m \in Node, lead'[m] # 0
            PROVE  TermAt(done[m])' <= lead'[m] /\ lead'[m] = lead[m]
        <4>1. CASE m = n
          <5>1. TermAt(done[m])' = clog[k].term
            BY <1>2, <1>5, <1>6, <4>1 DEF TermAt
          <5> QED BY <1>7, <1>8, <3>1, <4>1, <5>1
        <4>2. CASE m # n
          <5>1. TermAt(done[m])' = TermAt(done[m])
            BY <1>2, <1>6, <4>2 DEF TermAt
          <5> QED BY <1>4, <1>7, <3>1, <4>2, <5>1 DEF LeadersOK
        <4> QED BY <4>1, <4>2
      <3> QED BY <1>2, <1>4, <3>1 DEF LeadersOK
    <2> QED BY <1>2, <1>4, <1>10, <2>2, <2>3, <2>4 DEF RaftOK
  <1>12. ASSUME NEW m \in Node, NEW nd, NEW j, NEW ts,
                nd = node[m] /\ j = job'[m] /\ ts = tasks'[m]
         PROVE  Group(m, nd, j)' /\ Waits(m, nd)' /\ TasksOK(m, nd, ts)'
    <2>1. /\ Group(m, nd, j) /\ Waits(m, nd) /\ TasksOK(m, nd, tasks[m])
          /\ Core(nd, built, Committed) /\ PendingOK(nd, Committed)
      BY <1>2, <1>12, NodeFacts DEF NodeInv
    <2>2. CASE m # n
      <3>1. ts = tasks[m] /\ done'[m] = done[m] /\ lead'[m] = lead[m]
        BY <1>6, <1>7, <1>9, <1>12, <2>2
      <3>2. /\ AppliedBy(m)' = AppliedBy(m) /\ HandledOf(m, ts)' = HandledOf(m, ts)
            /\ TermAt(done[m])' = TermAt(done[m]) /\ (Current(m)' => Current(m))
            /\ \A S : OwnTerm(m, S) => OwnTerm(m, S)'
        BY <1>2, <3>1 DEF AppliedBy, HandledOf, TermAt, Current, OwnTerm
      <3>3. TasksOK(m, nd, ts)'
        BY <2>1, <3>1, <3>2, TasksKept
      <3> QED BY <1>10, <2>1, <3>1, <3>2, <3>3, GroupKept
    <2>3. CASE m = n
      <3>1. TasksOK(m, nd, ts)'
        <4>1. PICK old : old = tasks[n]
          OBVIOUS
        <4>2. IF clog[k].block = {} THEN ts = old
              ELSE ts = Append(old, CHOOSE b \in clog[k].block : TRUE)
          BY <1>9, <1>12, <2>3, <4>1
        <4>3. TasksOK(n, nd, old)
          BY <2>1, <2>3, <4>1
        <4>4. clog' = clog
          BY <1>2
        <4>5. TasksOK(n, nd, ts)'
          BY <1>1, <1>4, <1>5, <1>6, <4>2, <4>3, <4>4, AppliedTasks
        <4> QED BY <2>3, <4>5
      <3>2. CASE lead'[n] = 0
        BY <1>10, <2>1, <2>3, <3>1, <3>2, GroupIdle
      <3>3. CASE lead'[n] # 0
        <4>1. lead'[n] = lead[n] /\ lead[n] # 0 /\ clog[k].term <= lead[n]
          BY <1>7, <1>8, <3>3
        <4>2. TermAt(done[n])' = clog[k].term /\ TermAt(done[n]) <= clog[k].term
              /\ TermAt(done[n]) \in Nat
          BY <1>2, <1>4, <1>5, <1>6, LaterTerms DEF TermAt
        <4>3. TermAt(done[n]) = lead[n] => TermAt(done[n])' = lead'[n]
          BY <1>8, <4>1, <4>2
        <4>4. Current(n)' <=> Current(n)
          BY <1>2, <4>1 DEF Current, TermAt
        <4>5. \A S : OwnTerm(n, S) => OwnTerm(n, S)'
          <5>1. \A i \in 1..Len(clog) : i > k => i > done[n]
            BY <1>5
          <5> QED BY <1>2, <1>6, <4>1, <5>1 DEF OwnTerm
        <4>6. ASSUME Current(n), TermAt(done[n]) = lead[n]
              PROVE  \A x : x \in AppliedBy(n)' => x \in AppliedBy(n) \/ x \in InFlight(nd, j)
          <5>1. clog[k].term = lead[n]
            BY <1>8, <4>1, <4>2, <4>6
          <5>2. clog[k].block \subseteq InFlight(nd, j)
            <6>1. OwnTerm(n, InFlight(nd, j))
              BY <2>1, <2>3, <4>6 DEF Group
            <6> QED BY <1>5, <5>1, <6>1 DEF OwnTerm
          <5>3. 1..k = (1..done[n]) \cup {k}
            BY <1>1, <1>5
          <5> QED BY <1>2, <1>6, <5>2, <5>3 DEF AppliedBy
        <4>7. ASSUME Current(n), nd.tracker.status = "pending", NEW b \in nd.tracker.block
              PROVE  /\ nd.ctl.head = b /\ AppliedBy(n)' \subseteq Anc[b]
                     /\ j = "signing" => AppliedBy(n)' \subseteq Anc[Prev[b]]
          <5>1. /\ nd.ctl.head = b /\ AppliedBy(n) \subseteq Anc[b] /\ TermAt(done[n]) = lead[n]
                /\ j = "signing" => AppliedBy(n) \subseteq Anc[Prev[b]]
            BY <2>1, <2>3, <4>1, <4>7 DEF Group
          <5>2. InFlight(nd, j) \subseteq {b} /\ (j = "signing" => InFlight(nd, j) = {})
            BY <2>1, <4>7 DEF InFlight, Core, Tracking, AtMostOne
          <5>3. b \in Anc[b]
            BY <2>1, <5>1, LeadingFacts, AncBasic DEF Core, Blocks
          <5> QED BY <4>6, <4>7, <5>1, <5>2, <5>3
        <4>8. ASSUME Current(n), NEW p \in nd.pending PROVE AppliedBy(n)' \subseteq Anc[p]
          <5>1. AppliedBy(n) \subseteq Anc[p] /\ TermAt(done[n]) = lead[n]
            BY <2>1, <2>3, <4>1, <4>8 DEF Waits
          <5>2. p = nd.ctl.head /\ p \in Anc[p]
            BY <2>1, LeadingFacts, AncBasic DEF Core, Blocks, PendingOK
          <5>3. InFlight(nd, j) \subseteq {p}
            <6>1. CASE j = "waiting"
              <7>1. nd.tracker.status = "pending"
                BY <2>1, <6>1 DEF Group
              <7> QED BY <2>1, <2>3, <4>8, <5>2, <6>1, <7>1 DEF Group, InFlight
            <6> QED BY <6>1 DEF InFlight
          <5> QED BY <4>6, <4>8, <5>1, <5>2, <5>3
        <4>9. Group(m, nd, j)'
          BY <1>10, <2>1, <2>3, <4>1, <4>3, <4>4, <4>5, <4>7 DEF Group
        <4>10. Waits(m, nd)'
          BY <2>1, <2>3, <4>1, <4>3, <4>4, <4>8 DEF Waits
        <4> QED BY <3>1, <4>9, <4>10
      <3> QED BY <3>2, <3>3
    <2> QED BY <2>2, <2>3
  <1>13. /\ job' \in [Node -> {"none", "signing", "waiting"}]
         /\ tasks' \in [Node -> Seq(Block)] /\ Committed \subseteq Committed'
    BY <1>2, <1>9, <1>10 DEF Inv
  <1>14. node' = node /\ built' = built /\ published' = published
    BY <1>2
  <1> QED BY <1>11, <1>12, <1>13, <1>14, RaftStep

\* The tracker is ready.
Ready(nd, q, ok) ==
    /\ q \in Nodes /\ q.ctl = nd.ctl /\ q.pending = nd.pending /\ q.failed = nd.failed
    /\ q.succ = nd.succ /\ q.tracker.block = nd.tracker.block
    /\ q.tracker.status = "ready" /\ q.tracker.ok = ok

\* The node that Signed leaves.
LEMMA SignedIs ==
    ASSUME node \in [Node -> Nodes], NEW n \in Node, NEW ok \in BOOLEAN, Signed(n, ok)
    PROVE  \E q : Ready(node[n], q, ok) /\ node' = [node EXCEPT ![n] = q]
  <1>1. PICK x : x = node[n]
    OBVIOUS
  <1>2. x \in Nodes
    BY <1>1
  <1>3. PICK t : t = [x.tracker EXCEPT !.status = "ready", !.ok = ok]
    OBVIOUS
  <1>4. PICK q : q = [x EXCEPT !.tracker = t]
    OBVIOUS
  <1>5. t \in [status : {"none", "pending", "ready"}, block : SUBSET Block, ok : BOOLEAN]
        /\ t.status = "ready" /\ t.block = x.tracker.block /\ t.ok = ok
    <2>1. PICK tr : tr = x.tracker
      OBVIOUS
    <2>2. tr \in [status : {"none", "pending", "ready"}, block : SUBSET Block, ok : BOOLEAN]
      BY <1>2, <2>1, NodeTypes
    <2>3. t = [tr EXCEPT !.status = "ready", !.ok = ok]
      BY <1>3, <2>1
    <2>4. t \in [status : {"none", "pending", "ready"}, block : SUBSET Block, ok : BOOLEAN]
          /\ t.status = "ready" /\ t.block = tr.block /\ t.ok = ok
      BY <2>2, <2>3, Zenon
    <2> QED BY <2>1, <2>4
  <1>6. /\ q \in Nodes /\ q.ctl = x.ctl /\ q.pending = x.pending /\ q.failed = x.failed
        /\ q.succ = x.succ /\ q.tracker = t
    BY <1>2, <1>4, <1>5, Zenon DEF Nodes
  <1>7. Ready(x, q, ok)
    BY <1>5, <1>6 DEF Ready
  <1>8. node' = [node EXCEPT ![n] = q]
    <2>1. node' = [node EXCEPT ![n].tracker.status = "ready", ![n].tracker.ok = ok]
      BY DEF Signed
    <2>2. [x EXCEPT !.tracker.status = "ready", !.tracker.ok = ok] = q
      BY <1>2, <1>3, <1>4 DEF Nodes
    <2> QED BY <1>1, <2>1, <2>2
  <1> QED BY <1>1, <1>7, <1>8

\* What the tracker's status does not touch.
LEMMA ReadyOK ==
    ASSUME NEW n \in Node, NEW nd, NEW j, NEW ts, NEW made, NEW com, Core(nd, made, com),
           PendingOK(nd, com), Waits(n, nd), TasksOK(n, nd, ts), Group(n, nd, j), j # "none",
           NEW ok \in BOOLEAN, ok => nd.tracker.block \subseteq com, NEW q, Ready(nd, q, ok)
    PROVE  /\ Core(q, made, com) /\ PendingOK(q, com) /\ Waits(n, q) /\ TasksOK(n, q, ts)
           /\ Mine(q) = Mine(nd) /\ nd.tracker.status = "pending"
           /\ Dead(q) = Dead(nd) \cup (IF ok THEN {} ELSE nd.tracker.block \ nd.succ)
  <1>1. Mine(q) = Mine(nd) /\ nd.tracker.status = "pending"
    BY DEF Ready, Mine, Group
  <1>2. Tracking(q, made, com)
    BY <1>1 DEF Ready, Core, Tracking
  <1>3. Core(q, made, com)
    BY <1>1, <1>2 DEF Ready, Core
  <1>4. PendingOK(q, com) /\ Waits(n, q)
    BY DEF Ready, PendingOK, Waits
  <1>5. TasksOK(n, q, ts)
    BY <1>1 DEF Ready, TasksOK
  <1>6. Dead(q) = Dead(nd) \cup (IF ok THEN {} ELSE nd.tracker.block \ nd.succ)
    BY <1>1 DEF Ready, Dead
  <1> QED BY <1>1, <1>3, <1>4, <1>5, <1>6

\* The signing thread is done, and the group as it was.
OnlySigned == UNCHANGED <<raft, tasks, built, published>>
ReadyFits(n, ok) ==
    /\ ok => node[n].tracker.block \subseteq Committed
    /\ \A q : Ready(node[n], q, ok) => Group(n, q, "none")

\* It keeps the invariant if the tracker fits the group.
LEMMA SignedStep ==
    ASSUME Inv, NEW n \in Node, NEW ok \in BOOLEAN, Signed(n, ok), OnlySigned,
           job[n] # "none", ReadyFits(n, ok)
    PROVE  Inv' /\ KeepsAll
  <1>1. PICK x, j, ts, com : x = node[n] /\ j = job[n] /\ ts = tasks[n] /\ com = Committed
    OBVIOUS
  <1>2. /\ NodeInv(n, x, j, ts, built) /\ Core(x, built, com) /\ PendingOK(x, com)
        /\ Waits(n, x) /\ TasksOK(n, x, ts) /\ Group(n, x, j)
    BY <1>1, NodeFacts DEF NodeInv
  <1>3. node \in [Node -> Nodes]
    BY DEF Inv
  <1>4. PICK q : Ready(x, q, ok) /\ node' = [node EXCEPT ![n] = q]
    BY <1>1, <1>3, SignedIs
  <1>5. /\ Core(q, built, com) /\ PendingOK(q, com) /\ Waits(n, q) /\ TasksOK(n, q, ts)
        /\ Mine(q) = Mine(x)
    BY <1>1, <1>2, <1>4, ReadyOK DEF ReadyFits
  <1>6. PICK k \in {"none", "signing", "waiting"} : k = "none"
    OBVIOUS
  <1>7. NodeInv(n, q, k, ts, built)
    BY <1>1, <1>4, <1>5, <1>6 DEF NodeInv, ReadyFits
  <1>8. Changes(n, q, k, ts)
    <2>1. job' = [job EXCEPT ![n] = k]
      BY <1>6 DEF Signed
    <2>2. tasks' = [tasks EXCEPT ![n] = ts]
      BY <1>1, NodeFacts DEF OnlySigned
    <2> QED BY <1>4, <2>1, <2>2 DEF Changes, OnlySigned
  <1>9. /\ NodeInv(n, q, k, ts, built') /\ built \subseteq built' /\ Grounded(built', Committed)
        /\ (\A m \in Node \ {n} : Mine(q) \cap Mine(node[m]) = {}) /\ published' \subseteq Committed
    BY <1>1, <1>5, <1>7, NodeFacts DEF Inv, OnlySigned
  <1>10. Inv' /\ node'[n] = q /\ \A m \in Node \ {n} : node'[m] = node[m]
    BY <1>8, <1>9, NodeStep
  <1>11. \A m \in Node : node'[m].ctl = node[m].ctl
    BY <1>1, <1>4, <1>10 DEF Ready
  <1> QED BY <1>10, <1>11 DEF KeepsAll

\* commit_head_block gives up: the block is in no log.
LEMMA NotSignedStep ==
    ASSUME Inv, NEW n \in Node, job[n] = "signing", Signed(n, FALSE), OnlySigned
    PROVE  Inv' /\ KeepsAll
  <1>1. PICK x, j, ts, com : x = node[n] /\ j = job[n] /\ ts = tasks[n] /\ com = Committed
    OBVIOUS
  <1>2. /\ Core(x, built, com) /\ PendingOK(x, com) /\ Waits(n, x) /\ TasksOK(n, x, ts)
        /\ Group(n, x, j) /\ j = "signing"
    BY <1>1, NodeFacts DEF NodeInv
  <1>3. PICK ok \in BOOLEAN : ok = FALSE
    OBVIOUS
  <1>4. ASSUME NEW q, Ready(x, q, ok) PROVE Group(n, q, "none")
    <2>1. /\ Mine(q) = Mine(x) /\ x.tracker.status = "pending"
          /\ Dead(q) = Dead(x) \cup (x.tracker.block \ x.succ)
      BY <1>2, <1>3, <1>4, ReadyOK
    <2>2. /\ q.tracker.status = "ready" /\ ~q.tracker.ok /\ q.ctl = x.ctl
      BY <1>3, <1>4 DEF Ready
    <2>3. lead[n] # 0 /\ q.ctl.head \in Dead(q) => Unlogged(q.ctl.head)
      BY <1>2, <2>1, <2>2 DEF Group
    <2>4. InFlight(q, "none") = {} /\ InFlight(x, j) = {}
      BY <1>2 DEF InFlight
    <2>5. Current(n) => OwnTerm(n, InFlight(q, "none"))
      BY <1>2, <2>4 DEF Group
    <2> QED BY <2>2, <2>3, <2>5 DEF Group
  <1>5. Signed(n, ok) /\ job[n] # "none" /\ ReadyFits(n, ok)
    BY <1>1, <1>3, <1>4 DEF ReadyFits
  <1> QED BY <1>5, SignedStep

\* The result of commit_head_block is that this node has applied the entry: no other entry
\* has its block.
LEMMA CommittedResultStep ==
    ASSUME Inv, NEW n \in Node, job[n] = "waiting", Signed(n, TRUE), OnlySigned,
           \E i \in 1..done[n] : clog[i].block = node[n].tracker.block
    PROVE  Inv' /\ KeepsAll
  <1>1. PICK x, j, ts, com : x = node[n] /\ j = job[n] /\ ts = tasks[n] /\ com = Committed
    OBVIOUS
  <1>2. /\ Core(x, built, com) /\ PendingOK(x, com) /\ Waits(n, x) /\ TasksOK(n, x, ts)
        /\ Group(n, x, j) /\ j = "waiting" /\ RaftOK /\ Tracking(x, built, com)
    BY <1>1, NodeFacts DEF NodeInv, Core
  <1>3. PICK ok \in BOOLEAN : ok = TRUE
    OBVIOUS
  <1>4. PICK i \in 1..done[n] : clog[i].block = x.tracker.block
    BY <1>1
  <1>5. i \in 1..Len(clog) /\ done[n] \in Nat /\ i <= done[n] /\ i \in Nat
    BY <1>2, EntryTypes
  <1>6. x.tracker.block \subseteq com
    BY <1>1, <1>2, <1>4, <1>5, CommittedIs
  <1>7. PICK b : x.tracker.block = {b}
    BY <1>2 DEF Tracking, AtMostOne, Group
  <1>8. b \in Block \ {Genesis} /\ b \notin Anc[Prev[b]]
    <2>1. b \in Block \ {Genesis}
      BY <1>1, <1>2, <1>6, <1>7 DEF RaftOK, Grounded
    <2> QED BY <2>1, NotBelowItself
  <1>9. Current(n) => OwnTerm(n, {})
    <2>1. SUFFICES ASSUME Current(n) PROVE OwnTerm(n, {})
      OBVIOUS
    <2>2. OwnTerm(n, {b})
      BY <1>2, <1>7, <2>1 DEF Group, InFlight
    <2>3. ASSUME NEW h \in 1..Len(clog), h > done[n], clog[h].term = lead[n]
          PROVE  clog[h].block \subseteq {}
      <3>1. clog[h].block \subseteq {b}
        BY <2>2, <2>3 DEF OwnTerm
      <3>2. i < h
        BY <1>5, <2>3
      <3>3. Before(clog[i], clog[h])
        BY <1>2, <1>5, <3>2 DEF RaftOK, LogsOK
      <3> QED BY <1>4, <1>7, <1>8, <3>1, <3>3 DEF Before
    <2>4. ASSUME NEW m \in Node, NEW h \in 1..Len(tail[m]), tail[m][h].term = lead[n]
          PROVE  tail[m][h].block \subseteq {}
      <3>1. tail[m][h].block \subseteq {b}
        BY <2>2, <2>4 DEF OwnTerm
      <3>2. Before(clog[i], tail[m][h])
        BY <1>2, <1>5 DEF RaftOK, LogsOK
      <3> QED BY <1>4, <1>7, <1>8, <3>1, <3>2 DEF Before
    <2> QED BY <2>3, <2>4 DEF OwnTerm
  <1>10. ASSUME NEW q, Ready(x, q, ok) PROVE Group(n, q, "none")
    <2>1. Dead(q) = Dead(x)
      <3>1. Dead(q) = Dead(x) \cup (IF ok THEN {} ELSE x.tracker.block \ x.succ)
        BY <1>2, <1>6, <1>10, ReadyOK
      <3> QED BY <1>3, <3>1
    <2>2. q.tracker.status = "ready" /\ q.ctl = x.ctl
      BY <1>10 DEF Ready
    <2>3. lead[n] # 0 /\ q.ctl.head \in Dead(q) => Unlogged(q.ctl.head)
      BY <1>2, <2>1, <2>2 DEF Group
    <2>4. InFlight(q, "none") = {}
      BY DEF InFlight
    <2> QED BY <1>9, <2>2, <2>3, <2>4 DEF Group
  <1>11. Signed(n, ok) /\ job[n] # "none" /\ ReadyFits(n, ok)
    BY <1>1, <1>3, <1>6, <1>10 DEF ReadyFits
  <1> QED BY <1>11, SignedStep

\* The leader's entry is the last of its log, and the only one of its term with a block.
LEMMA AppendedStep ==
    ASSUME Inv, NEW n \in Node, job[n] = "signing", lead[n] # 0,
           job' = [job EXCEPT ![n] = "waiting"],
           tail' = Appended(n, Entry(lead[n], node[n].tracker.block)),
           UNCHANGED <<node, tasks, term, lead, clog, done, built, published>>
    PROVE  Inv' /\ KeepsAll
  <1>1. /\ node' = node /\ tasks' = tasks /\ term' = term /\ lead' = lead /\ clog' = clog
        /\ done' = done /\ built' = built /\ published' = published
    OBVIOUS
  <1>2. RaftOK /\ RaftTypes /\ LogsOK /\ LeadersOK /\ Grounded(built, Committed)
    BY DEF Inv, RaftOK
  <1>3. PICK x, com : x = node[n] /\ com = Committed
    OBVIOUS
  <1>4. /\ Core(x, built, com) /\ Waits(n, x) /\ Group(n, x, "signing") /\ Tracking(x, built, com)
    BY <1>3, NodeFacts DEF NodeInv, Core
  <1>5. x.tracker.status = "pending" /\ ~x.tracker.ok
    BY <1>4 DEF Group
  <1>6. PICK b : x.tracker.block = {b}
    BY <1>4, <1>5 DEF Tracking, AtMostOne
  <1>7. /\ b \in built /\ b \in Block \ {Genesis} /\ b \in Mine(x) /\ Unlogged(b)
        /\ TermAt(done[n]) = lead[n] /\ x.ctl.head \notin Dead(x)
    <2>1. b \in Mine(x) /\ b \in built
      BY <1>4, <1>6 DEF Mine, Tracking
    <2>2. b \in Block \ {Genesis}
      BY <1>2, <2>1 DEF Grounded
    <2>3. x.ctl.head \notin Dead(x)
      BY <1>4, <1>5, <1>6 DEF Core, Dead
    <2> QED BY <1>4, <1>5, <1>6, <2>1, <2>2, <2>3 DEF Group
  <1>8. PICK e : e = Entry(lead[n], {b})
    OBVIOUS
  <1>9. tail' = IF TermAt(Len(clog)) > lead[n] THEN tail ELSE [tail EXCEPT ![n] = Append(tail[n], e)]
    BY <1>3, <1>6, <1>8 DEF Appended
  <1>10. /\ e.term = lead[n] /\ e.block = {b} /\ e \in Entries /\ EntryOK(e)
    <2>1. term \in Nat /\ term <= MaxTerm /\ lead[n] \in 1..term /\ MaxTerm \in Nat
      <3>1. term \in 0..MaxTerm /\ lead[n] \in 0..term /\ MaxTerm \in Nat
        BY <1>2, ProducerHAAssumption DEF RaftTypes
      <3> QED BY <3>1
    <2>2. lead[n] \in 1..MaxTerm /\ {b} \in SUBSET Block
      BY <1>7, <2>1
    <2>3. e.term = lead[n] /\ e.block = {b} /\ e \in Entries
      BY <1>8, <2>2 DEF Entry, Entries
    <2> QED BY <1>7, <2>1, <2>3 DEF EntryOK, EntryIn
  <1>11. /\ Committed' = Committed
         /\ \A m \in Node : /\ TermAt(done[m])' = TermAt(done[m]) /\ lead'[m] = lead[m]
                            /\ AppliedBy(m)' = AppliedBy(m) /\ (Current(m)' <=> Current(m))
                            /\ \A ts : HandledOf(m, ts)' = HandledOf(m, ts)
    BY <1>1 DEF Committed, TermAt, AppliedBy, Current, HandledOf
  <1>12. /\ job' \in [Node -> {"none", "signing", "waiting"}] /\ job'[n] = "waiting"
         /\ \A m \in Node \ {n} : job'[m] = job[m]
    BY DEF Inv
  <1>13. /\ tasks' \in [Node -> Seq(Block)] /\ Committed \subseteq Committed'
    BY <1>1, <1>11 DEF Inv
  <1>14. node' = node /\ built' = built /\ published' = published
    BY <1>1
  <1>15. CASE TermAt(Len(clog)) > lead[n]
    <2>1. tail' = tail
      BY <1>9, <1>15
    <2>2. RaftOK'
      <3>1. RaftTypes'
        BY <1>1, <1>2, <2>1 DEF RaftTypes
      <3>2. LogsOK'
        BY <1>1, <1>2, <2>1 DEF LogsOK, EntryOK
      <3>3. LeadersOK'
        BY <1>1, <1>2, <2>1 DEF LeadersOK, TermAt
      <3> QED BY <1>1, <1>2, <1>11, <3>1, <3>2, <3>3 DEF RaftOK
    <2>3. ~Current(n)
      <3>1. TermAt(Len(clog)) \in Nat /\ lead[n] \in Nat
        BY <1>2, LaterTerms, EntryTypes
      <3> QED BY <1>15, <3>1 DEF Current
    <2>4. ASSUME NEW m \in Node, NEW nd, NEW j, NEW ts,
                 nd = node[m] /\ j = job'[m] /\ ts = tasks'[m]
          PROVE  Group(m, nd, j)' /\ Waits(m, nd)' /\ TasksOK(m, nd, ts)'
      <3>1. Group(m, nd, job[m]) /\ Waits(m, nd) /\ TasksOK(m, nd, ts)
        BY <1>1, <2>4, NodeFacts DEF NodeInv
      <3>2. TasksOK(m, nd, ts)'
        BY <1>11, <3>1, TasksKept
      <3>3. \A y : Unlogged(y) => Unlogged(y)'
        BY <1>11, <2>1 DEF Unlogged
      <3>4. CASE m # n
        <4>1. Group(m, nd, j)
          BY <1>12, <2>4, <3>1, <3>4
        <4>2. \A S : OwnTerm(m, S) => OwnTerm(m, S)'
          BY <1>1, <2>1 DEF OwnTerm
        <4> QED BY <1>11, <3>1, <3>2, <3>3, <4>1, <4>2, GroupKept
      <3>5. CASE m = n
        <4>1. nd = x /\ j = "waiting"
          BY <1>3, <1>12, <2>4, <3>5
        <4>2. Group(m, nd, j)'
          BY <1>5, <1>7, <1>11, <2>3, <3>5, <4>1 DEF Group
        <4>3. Waits(m, nd)'
          BY <1>11, <3>1 DEF Waits
        <4> QED BY <3>2, <4>2, <4>3
      <3> QED BY <3>4, <3>5
    <2> QED BY <1>12, <1>13, <1>14, <2>2, <2>4, RaftStep
  <1>16. CASE ~(TermAt(Len(clog)) > lead[n])
    <2>1. /\ Len(tail[n]) \in Nat /\ tail[n] \in Seq(Entries)
      BY <1>2, EntryTypes
    <2>2. PICK s, k : s = Append(tail[n], e) /\ k = Len(tail[n])
      OBVIOUS
    <2>3. /\ k \in Nat /\ s \in Seq(Entries) /\ Len(s) = k + 1 /\ s[k + 1] = e
          /\ \A i \in 1..k : s[i] = tail[n][i] /\ i \in 1..Len(tail[n])
      BY <1>10, <2>1, <2>2, AppendProperties
    <2>4. tail' = [tail EXCEPT ![n] = s]
      BY <1>9, <1>16, <2>2
    <2>5. /\ tail' \in [Node -> Seq(Entries)] /\ tail'[n] = s
          /\ \A m \in Node \ {n} : tail'[m] = tail[m]
      BY <1>2, <2>3, <2>4 DEF RaftTypes
    <2>6. Current(n) /\ TermAt(Len(clog)) <= lead[n] /\ lead[n] \in Nat
      <3>1. TermAt(Len(clog)) \in Nat /\ lead[n] \in Nat
        BY <1>2, LaterTerms, EntryTypes
      <3> QED BY <1>16, <3>1 DEF Current
    <2>7. OwnTerm(n, {}) /\ x.ctl.head = b /\ AppliedBy(n) \subseteq Anc[Prev[b]]
      BY <1>4, <1>5, <1>6, <2>6 DEF Group, InFlight
    <2>8. ASSUME NEW m \in Node, NEW i \in 1..Len(tail'[m])
          PROVE  \/ tail'[m][i] = e
                 \/ \E a \in Node : \E h \in 1..Len(tail[a]) : tail'[m][i] = tail[a][h]
      <3>1. CASE m = n
        <4>1. i \in 1..k \/ i = k + 1
          BY <2>3, <2>5, <3>1
        <4> QED BY <2>3, <2>5, <3>1, <4>1
      <3>2. CASE m # n
        BY <2>5, <3>2
      <3> QED BY <3>1, <3>2
    <2>9. ASSUME NEW i \in 1..Len(clog) PROVE Before(clog[i], e)
      <3>1. clog[i].term \in Nat /\ clog[i].term <= lead[n]
        <4>1. clog[i].term \in Nat /\ clog[i].term <= TermAt(Len(clog)) /\ TermAt(Len(clog)) \in Nat
          BY <1>2, EntryTypes, LaterTerms
        <4> QED BY <2>6, <4>1
      <3>2. ASSUME NEW a \in clog[i].block PROVE a \in Anc[Prev[b]]
        <4>1. done[n] \in Nat /\ i \in Nat
          BY <1>2, EntryTypes
        <4>2. CASE i <= done[n]
          <5>1. i \in 1..done[n]
            BY <4>1, <4>2
          <5>2. a \in AppliedBy(n)
            BY <3>2, <5>1 DEF AppliedBy
          <5> QED BY <2>7, <5>2
        <4>3. CASE i > done[n]
          <5>1. TermAt(done[n]) <= clog[i].term
            BY <1>2, <4>3, LaterTerms
          <5>2. clog[i].term = lead[n]
            BY <1>7, <2>6, <3>1, <5>1
          <5> QED BY <2>7, <3>2, <4>3, <5>2 DEF OwnTerm
        <4> QED BY <4>1, <4>2, <4>3
      <3> QED BY <1>10, <3>1, <3>2 DEF Before
    <2>10. ASSUME NEW i \in 1..Len(tail[n]) PROVE Before(tail[n][i], e)
      <3>1. /\ tail[n][i].term \in Nat /\ TermAt(done[n]) <= tail[n][i].term
            /\ tail[n][i].term <= lead[n]
        BY <1>2, EntryTypes, LaterTerms DEF LeadersOK
      <3>2. tail[n][i].term = lead[n]
        BY <1>7, <2>6, <3>1
      <3>3. tail[n][i].block \subseteq {}
        BY <2>7, <3>2 DEF OwnTerm
      <3> QED BY <1>10, <3>1, <3>3 DEF Before
    <2>11. RaftOK'
      <3>1. RaftTypes'
        BY <1>1, <1>2, <2>5 DEF RaftTypes
      <3>2. ASSUME NEW m \in Node, NEW i \in 1..Len(tail'[m])
            PROVE  EntryIn(tail'[m][i], term', built')
        <4>1. EntryIn(e, term', built')
          BY <1>1, <1>10 DEF EntryOK
        <4>2. \A a \in Node : \A h \in 1..Len(tail[a]) : EntryIn(tail[a][h], term', built')
          BY <1>1, <1>2 DEF LogsOK, EntryOK
        <4> QED BY <2>8, <4>1, <4>2
      <3>3. \A i \in 1..Len(clog') : EntryIn(clog'[i], term', built')
        BY <1>1, <1>2 DEF LogsOK, EntryOK
      <3>4. \A i, j \in 1..Len(clog') : i < j => Before(clog'[i], clog'[j])
        BY <1>1, <1>2 DEF LogsOK
      <3>5. ASSUME NEW m \in Node, NEW i \in 1..Len(clog'), NEW j \in 1..Len(tail'[m])
            PROVE  Before(clog'[i], tail'[m][j])
        <4>1. \A a \in Node : \A h \in 1..Len(tail[a]) : Before(clog[i], tail[a][h])
          BY <1>1, <1>2 DEF LogsOK
        <4>2. Before(clog[i], e)
          BY <1>1, <2>9
        <4> QED BY <1>1, <2>8, <4>1, <4>2
      <3>6. ASSUME NEW m \in Node, NEW i \in 1..Len(tail'[m]), NEW j \in 1..Len(tail'[m]), i < j
            PROVE  Before(tail'[m][i], tail'[m][j])
        <4>1. CASE m # n
          BY <1>2, <2>5, <3>6, <4>1 DEF LogsOK
        <4>2. CASE m = n
          <5>1. i \in 1..k /\ (j \in 1..k \/ j = k + 1)
            BY <2>3, <2>5, <3>6, <4>2
          <5>2. CASE j \in 1..k
            BY <1>2, <2>3, <2>5, <3>6, <4>2, <5>1, <5>2 DEF LogsOK
          <5>3. CASE j = k + 1
            BY <2>3, <2>5, <2>10, <4>2, <5>1, <5>3
          <5> QED BY <5>1, <5>2, <5>3
        <4> QED BY <4>1, <4>2
      <3>7. LogsOK'
        BY <3>2, <3>3, <3>4, <3>5, <3>6 DEF LogsOK, EntryOK
      <3>8. LeadersOK'
        <4>1. ASSUME NEW m \in Node, lead'[m] # 0
              PROVE  /\ TermAt(done[m])' <= lead'[m]
                     /\ \A i \in 1..Len(tail'[m]) : tail'[m][i].term <= lead'[m]
          <5>1. CASE m # n
            BY <1>1, <1>2, <1>11, <2>5, <4>1, <5>1 DEF LeadersOK
          <5>2. CASE m = n
            <6>1. \A i \in 1..Len(tail[n]) : tail[n][i].term <= lead[n]
              BY <1>2 DEF LeadersOK
            <6>2. ASSUME NEW i \in 1..Len(s) PROVE s[i].term <= lead[n]
              <7>1. i \in 1..k \/ i = k + 1
                BY <2>3
              <7> QED BY <1>10, <2>3, <2>6, <6>1, <7>1
            <6> QED BY <1>2, <1>11, <2>5, <4>1, <5>2, <6>2 DEF LeadersOK
          <5> QED BY <5>1, <5>2
        <4> QED BY <1>1, <1>2, <4>1 DEF LeadersOK
      <3> QED BY <1>1, <1>2, <1>11, <3>1, <3>7, <3>8 DEF RaftOK
    <2>12. ASSUME NEW y, y # b, Unlogged(y) PROVE Unlogged(y)'
      <3>1. ASSUME NEW m \in Node, NEW i \in 1..Len(tail'[m]) PROVE y \notin tail'[m][i].block
        <4>1. \A a \in Node : \A h \in 1..Len(tail[a]) : y \notin tail[a][h].block
          BY <2>12 DEF Unlogged
        <4> QED BY <1>10, <2>8, <2>12, <4>1
      <3> QED BY <1>11, <2>12, <3>1 DEF Unlogged
    <2>13. ASSUME NEW m \in Node, NEW nd, NEW j, NEW ts,
                  nd = node[m] /\ j = job'[m] /\ ts = tasks'[m]
           PROVE  Group(m, nd, j)' /\ Waits(m, nd)' /\ TasksOK(m, nd, ts)'
      <3>1. Group(m, nd, job[m]) /\ Waits(m, nd) /\ TasksOK(m, nd, ts)
        BY <1>1, <2>13, NodeFacts DEF NodeInv
      <3>2. TasksOK(m, nd, ts)'
        BY <1>11, <3>1, TasksKept
      <3>3. ASSUME NEW S, OwnTerm(m, S), m = n => b \in S
            PROVE  OwnTerm(m, S)'
        <4>1. ASSUME NEW a \in Node, NEW i \in 1..Len(tail'[a]), tail'[a][i].term = lead'[m]
              PROVE  tail'[a][i].block \subseteq S
          <5>1. \A c \in Node : \A h \in 1..Len(tail[c]) :
                   tail[c][h].term = lead[m] => tail[c][h].block \subseteq S
            BY <3>3 DEF OwnTerm
          <5>2. CASE tail'[a][i] = e
            <6>1. m = n
              BY <1>1, <1>2, <1>10, <4>1, <5>2 DEF LeadersOK
            <6> QED BY <1>10, <3>3, <5>2, <6>1
          <5>3. CASE \E c \in Node : \E h \in 1..Len(tail[c]) : tail'[a][i] = tail[c][h]
            BY <1>11, <4>1, <5>1, <5>3
          <5> QED BY <2>8, <5>2, <5>3
        <4> QED BY <1>1, <3>3, <4>1 DEF OwnTerm
      <3>4. CASE m # n
        <4>1. Group(m, nd, j)
          BY <1>12, <2>13, <3>1, <3>4
        <4>2. \A S : OwnTerm(m, S) => OwnTerm(m, S)'
          BY <3>3, <3>4
        <4>3. \A y \in Mine(nd) : Unlogged(y) => Unlogged(y)'
          <5>1. b \notin Mine(nd)
            BY <1>3, <1>7, <2>13, <3>4, NodeFacts
          <5> QED BY <2>12, <5>1
        <4> QED BY <1>11, <3>1, <3>2, <4>1, <4>2, <4>3, GroupKept
      <3>5. CASE m = n
        <4>1. nd = x /\ j = "waiting" /\ InFlight(x, "waiting") = {b}
          BY <1>3, <1>6, <1>12, <2>13, <3>5 DEF InFlight
        <4>2. OwnTerm(m, {b})
          BY <2>7, <3>5 DEF OwnTerm
        <4>3. OwnTerm(m, {b})'
          BY <3>3, <4>2
        <4>4. AppliedBy(n) \subseteq Anc[b]
          BY <1>7, <2>7, AncStep
        <4>5. Group(n, x, "waiting")'
          BY <1>5, <1>6, <1>7, <1>11, <2>7, <3>5, <4>1, <4>3, <4>4 DEF Group
        <4>6. Group(m, nd, j)'
          BY <3>5, <4>1, <4>5
        <4>7. Waits(m, nd)'
          BY <1>11, <3>1 DEF Waits
        <4> QED BY <3>2, <4>6, <4>7
      <3> QED BY <3>4, <3>5
    <2> QED BY <1>12, <1>13, <1>14, <2>11, <2>13, RaftStep
  <1> QED BY <1>15, <1>16

\* commit_head_block up to the wait.
LEMMA CommitHeadBlockStep ==
    ASSUME Inv, NEW n \in Node, CommitHeadBlock(n)
    PROVE  Inv' /\ KeepsAll
  <1>1. job[n] = "signing"
    BY DEF CommitHeadBlock
  <1>2. CASE /\ lead[n] # 0 /\ job' = [job EXCEPT ![n] = "waiting"]
             /\ tail' = Appended(n, Entry(lead[n], node[n].tracker.block))
             /\ UNCHANGED <<node, tasks, term, lead, clog, done, built, published>>
    BY <1>1, <1>2, AppendedStep
  <1>3. CASE Signed(n, FALSE) /\ OnlySigned
    BY <1>1, <1>3, NotSignedStep
  <1>4. \/ /\ lead[n] # 0 /\ job' = [job EXCEPT ![n] = "waiting"]
           /\ tail' = Appended(n, Entry(lead[n], node[n].tracker.block))
           /\ UNCHANGED <<node, tasks, term, lead, clog, done, built, published>>
        \/ Signed(n, FALSE) /\ OnlySigned
    BY DEF CommitHeadBlock, OnlySigned, raft
  <1> QED BY <1>2, <1>3, <1>4

\* The wait timed out or was cancelled: the block may be in a log, but the node resigns.
LEMMA FailedResultStep ==
    ASSUME Inv, NEW n \in Node, job[n] = "waiting", Signed(n, FALSE), Resigns(n),
           UNCHANGED <<tasks, published>>
    PROVE  Inv' /\ KeepsAll
  <1>1. PICK x, j, ts, com, ok : /\ x = node[n] /\ j = job[n] /\ ts = tasks[n]
                                 /\ com = Committed /\ ok = FALSE
    OBVIOUS
  <1>2. /\ Core(x, built, com) /\ PendingOK(x, com) /\ Waits(n, x) /\ TasksOK(n, x, ts)
        /\ Group(n, x, j) /\ j # "none" /\ RaftOK /\ node \in [Node -> Nodes]
    BY <1>1, NodeFacts DEF NodeInv, Inv
  <1>3. ok \in BOOLEAN /\ Signed(n, ok)
    BY <1>1
  <1>4. PICK q : Ready(x, q, ok) /\ node' = [node EXCEPT ![n] = q]
    BY <1>1, <1>2, <1>3, SignedIs
  <1>5. /\ Core(q, built, com) /\ PendingOK(q, com) /\ Waits(n, q) /\ TasksOK(n, q, ts)
        /\ Mine(q) = Mine(x)
    BY <1>1, <1>2, <1>3, <1>4, ReadyOK
  <1>6. /\ RaftOK' /\ Committed' = Committed /\ lead'[n] = 0
        /\ \A m \in Node : \A nd, jm, tm :
              Group(m, nd, jm) /\ Waits(m, nd) /\ TasksOK(m, nd, tm) =>
              Group(m, nd, jm)' /\ Waits(m, nd)' /\ TasksOK(m, nd, tm)'
    BY <1>2, ResignsOK
  <1>7. /\ node'[n] = q /\ (\A m \in Node \ {n} : node'[m] = node[m])
        /\ node' \in [Node -> Nodes]
    BY <1>2, <1>4 DEF Ready
  <1>8. /\ job'[n] = "none" /\ (\A m \in Node \ {n} : job'[m] = job[m])
        /\ job' \in [Node -> {"none", "signing", "waiting"}]
    <2>1. job' = [job EXCEPT ![n] = "none"]
      BY DEF Signed
    <2> QED BY <2>1 DEF Inv
  <1>9. tasks' = tasks /\ built' = built /\ published' = published
    BY DEF Resigns
  <1>10. ASSUME NEW m \in Node PROVE NodeInv(m, node[m], job[m], tasks[m], built)'
    <2>1. PICK nd, jm, tm : nd = node'[m] /\ jm = job'[m] /\ tm = tasks'[m]
      OBVIOUS
    <2>2. CASE m # n
      <3>1. NodeInv(m, nd, jm, tm, built)
        BY <1>7, <1>8, <1>9, <2>1, <2>2, NodeFacts
      <3>2. Group(m, nd, jm)' /\ Waits(m, nd)' /\ TasksOK(m, nd, tm)'
        BY <1>6, <3>1 DEF NodeInv
      <3>3. Core(nd, built', Committed') /\ PendingOK(nd, Committed')
        BY <1>6, <1>9, <3>1 DEF NodeInv
      <3> QED BY <2>1, <3>2, <3>3, NodePrime
    <2>3. CASE m = n
      <3>1. nd = q /\ jm = "none" /\ tm = ts
        BY <1>1, <1>7, <1>8, <1>9, <2>1, <2>3
      <3>2. Core(nd, built', Committed') /\ PendingOK(nd, Committed')
        BY <1>1, <1>5, <1>6, <1>9, <3>1
      <3>3. TasksOK(m, nd, tm)'
        <4>1. AppliedBy(m)' = AppliedBy(m) /\ HandledOf(m, tm)' = HandledOf(m, tm)
          BY DEF Resigns, AppliedBy, HandledOf
        <4>2. TasksOK(m, nd, tm)
          BY <1>5, <2>3, <3>1
        <4> QED BY <4>1, <4>2, TasksKept
      <3>4. ~Current(m)' /\ lead'[m] = 0
        BY <1>6, <2>3 DEF Current
      <3>5. q.tracker.status = "ready"
        BY <1>4 DEF Ready
      <3>6. Group(m, nd, jm)'
        BY <3>1, <3>4, <3>5 DEF Group
      <3>7. Waits(m, nd)'
        BY <3>4 DEF Waits
      <3> QED BY <2>1, <3>2, <3>3, <3>6, <3>7, NodePrime
    <2> QED BY <2>2, <2>3
  <1>11. \A a, m \in Node : a # m => Mine(node'[a]) \cap Mine(node'[m]) = {}
    <2>1. \A a, m \in Node : a # m => Mine(node[a]) \cap Mine(node[m]) = {}
      BY DEF Inv
    <2>2. \A a \in Node : Mine(node'[a]) = Mine(node[a])
      BY <1>1, <1>5, <1>7
    <2> QED BY <2>1, <2>2
  <1>12. tasks' \in [Node -> Seq(Block)] /\ published' \subseteq Committed'
    BY <1>6, <1>9 DEF Inv
  <1>13. Inv'
    BY <1>6, <1>7, <1>8, <1>10, <1>11, <1>12 DEF Inv
  <1>14. \A m \in Node : node'[m].ctl = node[m].ctl
    BY <1>1, <1>4, <1>7 DEF Ready
  <1> QED BY <1>13, <1>14 DEF KeepsAll

\* The two results of the wait.
LEMMA CommitResultStep ==
    ASSUME Inv, NEW n \in Node, CommitResult(n)
    PROVE  Inv' /\ KeepsAll
  <1>1. job[n] = "waiting"
    BY DEF CommitResult
  <1>2. CASE /\ \E i \in 1..done[n] : clog[i].block = node[n].tracker.block
             /\ Signed(n, TRUE) /\ OnlySigned
    BY <1>1, <1>2, CommittedResultStep
  <1>3. CASE Signed(n, FALSE) /\ Resigns(n) /\ UNCHANGED <<tasks, published>>
    BY <1>1, <1>3, FailedResultStep
  <1>4. \/ /\ \E i \in 1..done[n] : clog[i].block = node[n].tracker.block
           /\ Signed(n, TRUE) /\ OnlySigned
        \/ Signed(n, FALSE) /\ Resigns(n) /\ UNCHANGED <<tasks, published>>
    BY DEF CommitResult, OnlySigned, raft, Resigns
  <1> QED BY <1>2, <1>3, <1>4

-----------------------------------------------------------------------------
(* The theorems *)

\* Nodes that have just started, and a group without a leader.
LEMMA InitInv == Init => Inv
  <1>1. SUFFICES ASSUME Init PROVE Inv
    OBVIOUS
  <1>2. /\ Genesis \in Block /\ Genesis \in Anc[Genesis] /\ Num[Genesis] \in Nat
        /\ Genesis \notin Bad
    BY BlockTreeAssumption, AncBasic, Numbers, ControllerAssumption
  <1>3. Anc[Genesis] = {Genesis}
    <2>1. Anc[Genesis] \subseteq {Genesis}
      BY <1>2, AncInduction DEF PrevClosed
    <2> QED BY <1>2, <2>1
  <1>4. PICK fd : fd = ResetTo(Genesis)
    OBVIOUS
  <1>5. /\ FdbOK(fd) /\ fd \in ForkDb /\ fd.root = Genesis /\ fd.index = {} /\ fd.valid = {}
        /\ fd.head = Genesis
    BY <1>2, <1>4, ResetOK DEF FdbOK, ResetTo
  <1>6. PICK c : c = [mode |-> "speculative", fdb |-> fd, head |-> Genesis, sparse |-> TRUE,
                      db |-> Genesis, rev |-> Num[Genesis], base |-> Num[Genesis],
                      blog |-> Genesis, outcome |-> "ok"]
    OBVIOUS
  <1>7. c = NewController("speculative", ResetTo(Genesis), Genesis, Genesis)
    BY <1>4, <1>6 DEF NewController
  <1>8. PICK r : r = [c EXCEPT !.sparse = FALSE]
    OBVIOUS
  <1>9. c \in Controllers
    BY <1>2, <1>5, <1>6 DEF Controllers, Outcomes
  <1>10. /\ r \in Controllers /\ r.fdb = fd /\ r.head = Genesis /\ r.sparse = FALSE
         /\ r.db = Genesis /\ r.rev = Num[Genesis] /\ r.base = Num[Genesis]
         /\ r.blog = Genesis /\ r.outcome = "ok" /\ r.mode = "speculative"
    <2>1. /\ c.fdb = fd /\ c.head = Genesis /\ c.db = Genesis /\ c.rev = Num[Genesis]
          /\ c.base = Num[Genesis] /\ c.blog = Genesis /\ c.outcome = "ok"
          /\ c.mode = "speculative"
      BY <1>6
    <2> QED BY <1>8, <1>9, <2>1, Zenon DEF Controllers
  <1>11. Sound(r)
    <2>1. Anc[r.blog] \cap Bad = {} /\ r.fdb.valid \cap Bad = {}
      BY <1>2, <1>3, <1>5, <1>10
    <2>2. Synced(r)
      BY <1>10 DEF Synced
    <2> QED BY <1>5, <1>10, <2>1, <2>2 DEF Sound
  <1>12. Leading(r)
    BY <1>5, <1>10, <1>11 DEF Leading, Leads, Irreversible
  <1>13. Blocks(r, {}, {}, {})
    BY <1>3, <1>5, <1>10, <1>12 DEF Blocks
  <1>14. PICK q : q = [ctl |-> r, pending |-> {}, spare |-> {}, mode |-> "speculating", tracker |-> NoTracker,
                       failed |-> {}, succ |-> {}, quit |-> FALSE]
    OBVIOUS
  <1>15. /\ q \in Nodes /\ q.ctl = r /\ q.pending = {} /\ q.failed = {} /\ q.succ = {}
         /\ q.tracker.status = "none" /\ q.tracker.block = {} /\ q.tracker.ok = FALSE
    BY <1>10, <1>14 DEF Nodes, NoTracker
  <1>16. node = [n \in Node |-> q]
    BY <1>1, <1>7, <1>8, <1>14 DEF Init
  <1>17. /\ clog = <<>> /\ tail = [n \in Node |-> <<>>] /\ done = [n \in Node |-> 0] /\ term = 0
         /\ lead = [n \in Node |-> 0] /\ job = [n \in Node |-> "none"]
         /\ tasks = [n \in Node |-> <<>>] /\ built = {} /\ published = {}
    BY <1>1 DEF Init
  <1>18. Committed = {}
    BY <1>17 DEF Committed
  <1>19. RaftOK
    <2>1. RaftTypes
      <3>1. <<>> \in Seq(Entries) /\ Len(<<>>) = 0 /\ 0 \in 0..MaxTerm /\ 0 \in 0..0
        BY ProducerHAAssumption
      <3> QED BY <1>17, <3>1 DEF RaftTypes
    <2>2. Len(clog) = 0 /\ \A m \in Node : Len(tail[m]) = 0
      BY <1>17
    <2>3. LogsOK
      BY <2>2 DEF LogsOK
    <2>4. LeadersOK
      BY <1>17 DEF LeadersOK
    <2> QED BY <1>17, <1>18, <2>1, <2>3, <2>4 DEF RaftOK, Grounded
  <1>20. ASSUME NEW n \in Node PROVE NodeInv(n, node[n], job[n], tasks[n], built)
    <2>1. Mine(q) = {} /\ Dead(q) = {}
      BY <1>15 DEF Mine, Dead
    <2>2. Core(q, {}, {}) /\ PendingOK(q, {})
      BY <1>13, <1>15, <2>1 DEF Core, Tracking, AtMostOne, PendingOK
    <2>3. lead[n] = 0 /\ ~Current(n)
      BY <1>17 DEF Current
    <2>4. Group(n, q, "none") /\ Waits(n, q)
      BY <1>15, <2>3 DEF Group, Waits
    <2>5. TasksOK(n, q, <<>>)
      <3>1. <<>> \in Seq(Block) /\ Len(<<>>) = 0
        OBVIOUS
      <3> QED BY <1>15, <2>1, <3>1 DEF TasksOK
    <2>6. node[n] = q /\ job[n] = "none" /\ tasks[n] = <<>>
      BY <1>16, <1>17
    <2> QED BY <1>17, <1>18, <2>2, <2>4, <2>5, <2>6 DEF NodeInv
  <1>21. \A n, m \in Node : n # m => Mine(node[n]) \cap Mine(node[m]) = {}
    BY <1>15, <1>16 DEF Mine
  <1>22. /\ node \in [Node -> Nodes] /\ tasks \in [Node -> Seq(Block)]
         /\ job \in [Node -> {"none", "signing", "waiting"}] /\ published \subseteq Committed
    BY <1>15, <1>16, <1>17
  <1> QED BY <1>19, <1>20, <1>21, <1>22 DEF Inv

\* Every step keeps the invariant and what was handled.
LEMMA InvStep ==
    ASSUME Bad = {}, Inv, Next, ~astray'
    PROVE  Inv' /\ KeepsAll
  <1>1. PICK n \in Node :
           \/ Elect(n) \/ StepDown(n) \/ GroupCommits(n)
           \/ CommitRaftLog(n) \/ CommitHeadBlock(n) \/ CommitResult(n)
           \/ CommitTask(n) \/ CompletionTask(n) \/ LoopTimer(n)
           \/ \E b \in Block \ {Genesis} : ReceiveBlock(n, b) \/ ProduceBlock(n, b)
    BY DEF Next
  <1>2. CASE Elect(n)
    BY <1>2, ElectStep
  <1>3. CASE StepDown(n)
    BY <1>3, StepDownStep
  <1>4. CASE GroupCommits(n)
    BY <1>4, GroupCommitsStep
  <1>5. CASE CommitRaftLog(n)
    BY <1>5, CommitRaftLogStep
  <1>6. CASE CommitHeadBlock(n)
    BY <1>6, CommitHeadBlockStep
  <1>7. CASE CommitResult(n)
    BY <1>7, CommitResultStep
  <1>8. CASE CommitTask(n)
    BY <1>8, CommitTaskStep
  <1>9. CASE CompletionTask(n)
    BY <1>9, CompletionTaskStep
  <1>10. CASE LoopTimer(n)
    BY <1>10, LoopTimerStep
  <1>11. ASSUME NEW b \in Block \ {Genesis}, ReceiveBlock(n, b) PROVE Inv' /\ KeepsAll
    BY <1>11, ReceiveBlockStep
  <1>12. ASSUME NEW b \in Block \ {Genesis}, ProduceBlock(n, b) PROVE Inv' /\ KeepsAll
    BY <1>12, ProduceBlockStep
  <1> QED
    BY <1>1, <1>2, <1>3, <1>4, <1>5, <1>6, <1>7, <1>8, <1>9, <1>10, <1>11, <1>12

\* A step in which nothing happens.
LEMMA InvStutter ==
    ASSUME Inv, UNCHANGED vars
    PROVE  Inv'
  <1>1. /\ node' = node /\ job' = job /\ tasks' = tasks /\ term' = term /\ lead' = lead
        /\ tail' = tail /\ clog' = clog /\ done' = done /\ built' = built
        /\ published' = published
    BY DEF vars, raft
  <1>2. /\ Committed' = Committed /\ RaftOK'
    <2>1. Committed' = Committed
      BY <1>1 DEF Committed
    <2>2. RaftTypes' /\ LogsOK' /\ LeadersOK'
      BY <1>1 DEF Inv, RaftOK, RaftTypes, LogsOK, EntryOK, LeadersOK, TermAt
    <2> QED BY <1>1, <2>1, <2>2 DEF Inv, RaftOK
  <1>3. ASSUME NEW m \in Node, NEW nd, NEW j, NEW ts,
               nd = node[m] /\ j = job'[m] /\ ts = tasks'[m]
        PROVE  Group(m, nd, j)' /\ Waits(m, nd)' /\ TasksOK(m, nd, ts)'
    <2>1. Group(m, nd, j) /\ Waits(m, nd) /\ TasksOK(m, nd, ts)
      BY <1>1, <1>3, NodeFacts DEF NodeInv
    <2>2. /\ lead'[m] = lead[m] /\ TermAt(done[m])' = TermAt(done[m])
          /\ AppliedBy(m)' = AppliedBy(m) /\ HandledOf(m, ts)' = HandledOf(m, ts)
          /\ Current(m)' => Current(m)
      BY <1>1 DEF TermAt, AppliedBy, HandledOf, Current
    <2>3. \A b \in Mine(nd) : Unlogged(b) => Unlogged(b)'
      BY <1>1, <1>2 DEF Unlogged
    <2>4. \A S : Current(m)' /\ OwnTerm(m, S) => OwnTerm(m, S)'
      BY <1>1 DEF OwnTerm
    <2>5. Group(m, nd, j)' /\ Waits(m, nd)'
      BY <2>1, <2>2, <2>3, <2>4, GroupKept
    <2> QED BY <2>1, <2>2, <2>5, TasksKept
  <1>4. /\ job' \in [Node -> {"none", "signing", "waiting"}]
        /\ tasks' \in [Node -> Seq(Block)] /\ Committed \subseteq Committed'
    BY <1>1, <1>2 DEF Inv
  <1>5. node' = node /\ built' = built /\ published' = published
    BY <1>1
  <1> QED BY <1>2, <1>3, <1>4, <1>5, RaftStep

\* Two committed blocks with one number are one block.
LEMMA InvOnePublished == Inv => OnePublished
  <1>1. SUFFICES ASSUME Inv, NEW a \in published, NEW b \in published, Num[a] = Num[b]
                 PROVE  a = b
    BY DEF OnePublished
  <1>2. RaftOK /\ a \in Committed /\ b \in Committed
    BY <1>1 DEF Inv
  <1>3. /\ a \in Block \ {Genesis} /\ b \in Block \ {Genesis}
        /\ a = b \/ a \in Anc[Prev[b]] \/ b \in Anc[Prev[a]]
    BY <1>2, CommittedChain
  <1>4. Num[a] \in Nat /\ Num[b] \in Nat
    BY <1>3, Numbers
  <1>5. CASE a \in Anc[Prev[b]]
    <2>1. Num[a] < Num[b]
      BY <1>3, <1>5, NotBelowItself
    <2> QED BY <1>1, <1>4, <2>1
  <1>6. CASE b \in Anc[Prev[a]]
    <2>1. Num[b] < Num[a]
      BY <1>3, <1>6, NotBelowItself
    <2> QED BY <1>1, <1>4, <2>1
  <1> QED BY <1>3, <1>5, <1>6

\* The invariant has the types, and the chain of a node is that of its last committed block
\* or one own block more.
LEMMA InvConsistent == Inv => TypeOK /\ PublishedIsCommitted /\ ChainIsCommitted
  <1>1. SUFFICES ASSUME Inv PROVE TypeOK /\ PublishedIsCommitted /\ ChainIsCommitted
    OBVIOUS
  <1>2. RaftOK /\ RaftTypes /\ Grounded(built, Committed)
    BY <1>1 DEF Inv, RaftOK
  <1>3. TypeOK
    <2>1. ASSUME NEW n \in Node
          PROVE  /\ job[n] \in {"none", "signing", "waiting"}
                 /\ job[n] = "none" <=> node[n].tracker.status # "pending"
                 /\ lead[n] \in 0..term /\ done[n] \in 0..Len(clog)
                 /\ \A i \in DOMAIN tasks[n] : tasks[n][i] \in Block
                 /\ \A i \in DOMAIN tail[n] : tail[n][i] \in Entries
      <3>1. Group(n, node[n], job[n]) /\ job[n] \in {"none", "signing", "waiting"}
        BY <1>1, NodeFacts DEF NodeInv
      <3>2. job[n] = "none" <=> node[n].tracker.status # "pending"
        BY <3>1 DEF Group
      <3>3. lead[n] \in 0..term /\ done[n] \in 0..Len(clog)
        BY <1>2 DEF RaftTypes
      <3>4. tasks[n] \in Seq(Block) /\ tail[n] \in Seq(Entries)
        BY <1>1, <1>2 DEF Inv, RaftTypes
      <3>5. /\ DOMAIN tasks[n] = 1..Len(tasks[n]) /\ DOMAIN tail[n] = 1..Len(tail[n])
        BY <3>4, LenProperties
      <3>6. \A i \in DOMAIN tasks[n] : tasks[n][i] \in Block
        BY <3>4, <3>5, ElementOfSeq
      <3>7. \A i \in DOMAIN tail[n] : tail[n][i] \in Entries
        BY <3>4, <3>5, ElementOfSeq
      <3> QED BY <3>1, <3>2, <3>3, <3>6, <3>7
    <2>2. \A i \in DOMAIN clog : clog[i] \in Entries
      BY <1>2, EntryTypes
    <2>3. node \in [Node -> Nodes] /\ term \in 0..MaxTerm /\ published \subseteq built
      BY <1>1, <1>2 DEF Inv, RaftTypes, Grounded
    <2> QED BY <2>1, <2>2, <2>3 DEF TypeOK
  <1>4. PublishedIsCommitted
    BY <1>1 DEF Inv, PublishedIsCommitted
  <1>5. ChainIsCommitted
    <2>1. SUFFICES ASSUME NEW n \in Node, NEW y \in Anc[node[n].ctl.head]
                   PROVE  y \in Committed \cup {Genesis} \cup Mine(node[n])
      BY DEF ChainIsCommitted, Mine
    <2>2. PICK x, com : x = node[n] /\ com = Committed
      OBVIOUS
    <2>3. Blocks(x.ctl, Mine(x), built, com) /\ Mine(x) \subseteq built
      BY <1>1, <2>2, NodeFacts DEF NodeInv, Core, Tracking
    <2>4. CASE x.ctl.head \in com \cup {Genesis}
      BY <1>2, <2>1, <2>2, <2>4, CommittedBranch
    <2>5. CASE x.ctl.head \in Mine(x)
      <3>1. x.ctl.head \in Block \ {Genesis} /\ Anc[Prev[x.ctl.head]] \subseteq com \cup {Genesis}
        BY <1>2, <2>2, <2>3, <2>5 DEF Grounded
      <3>2. Anc[x.ctl.head] = {x.ctl.head} \cup Anc[Prev[x.ctl.head]]
        BY <3>1, AncStep
      <3> QED BY <2>1, <2>2, <2>5, <3>1, <3>2
    <2> QED BY <2>3, <2>4, <2>5 DEF Blocks
  <1> QED BY <1>3, <1>4, <1>5

\* can_produce was bypassed once and for all.
LEMMA AstrayStays == [Next]_vars /\ ~astray' => ~astray
  <1>1. ASSUME UNCHANGED vars, ~astray' PROVE ~astray
    BY <1>1 DEF vars
  <1>2. ASSUME Next, ~astray' PROVE ~astray
    <2>1. PICK n \in Node :
             \/ Elect(n) \/ StepDown(n) \/ GroupCommits(n)
             \/ CommitRaftLog(n) \/ CommitHeadBlock(n) \/ CommitResult(n)
             \/ CommitTask(n) \/ CompletionTask(n) \/ LoopTimer(n)
             \/ \E b \in Block \ {Genesis} : ReceiveBlock(n, b) \/ ProduceBlock(n, b)
      BY <1>2 DEF Next
    <2>2. CASE Elect(n)
      BY <1>2, <2>2, Zenon DEF Elect
    <2>3. ASSUME NEW b \in Block \ {Genesis}, ProduceBlock(n, b) PROVE ~astray
      BY <1>2, <2>3, Zenon DEF ProduceBlock
    <2>4. ASSUME NEW b \in Block \ {Genesis}, ReceiveBlock(n, b) PROVE astray' = astray
      BY <2>4 DEF ReceiveBlock
    <2>5. CASE StepDown(n) \/ GroupCommits(n) \/ CommitRaftLog(n)
      BY <1>2, <2>5 DEF StepDown, GroupCommits, CommitRaftLog
    <2>6. CASE CommitHeadBlock(n) \/ CommitResult(n)
      BY <1>2, <2>6 DEF CommitHeadBlock, CommitResult
    <2>7. CASE CommitTask(n) \/ CompletionTask(n) \/ LoopTimer(n)
      BY <1>2, <2>7 DEF CommitTask, CompletionTask, LoopTimer
    <2> QED BY <1>2, <2>1, <2>2, <2>3, <2>4, <2>5, <2>6, <2>7
  <1> QED BY <1>1, <1>2

\* Inv holds until can_produce is bypassed.
THEOREM HAInvariant ==
    ASSUME Bad = {}
    PROVE  Spec => [](~astray => Inv)
  <1>1. (~astray => Inv) /\ [Next]_vars => (~astray => Inv)'
    BY InvStep, InvStutter, AstrayStays
  <1> QED BY <1>1, InitInv, PTL DEF Spec

\* Nothing is announced that the group has not committed, and the chain of a node has one
\* block at most that it has not: the one commit_head_block waits for, or the one that has
\* failed and abort_block is about to take off.  This lasts until can_produce is bypassed.
THEOREM HAConsistent ==
    ASSUME Bad = {}
    PROVE  Spec => []Consistent
  <1>1. (~astray => Inv) => Consistent
    BY InvConsistent DEF Consistent
  <1> QED BY <1>1, HAInvariant, PTL

\* Whoever leads and whenever it learns of it, the producers of the group announce one block
\* for each number, as long as each block they produce was begun with the consent of
\* can_produce by a node that was done with the block it had built as the last leader.
THEOREM OneIsPublished ==
    ASSUME Bad = {}
    PROVE  Spec => []PublishedAgree
  <1>1. (~astray => Inv) => PublishedAgree
    BY InvOnePublished DEF PublishedAgree
  <1> QED BY <1>1, HAInvariant, PTL

\* abort_block and push_block never take a block off a node's chain once the task of
\* commit_raft_log has brought it there, not even if commit_head_block reported a failure;
\* again until can_produce is bypassed.
THEOREM CommittedBlocksStay ==
    ASSUME Bad = {}
    PROVE  Spec => CommittedStays
  <1>1. (~astray => Inv) /\ [Next]_vars =>
           [~astray' =>
              \A n \in Node :
                 Handled(n) \cap Anc[node[n].ctl.head] \subseteq Anc[node'[n].ctl.head]]_vars
    <2>1. \A n \in Node : Handled(n) = HandledOf(n, tasks[n])
      BY DEF Handled, HandledOf
    <2>2. ASSUME ~astray => Inv, Next, ~astray' PROVE KeepsAll
      BY <2>2, InvStep, AstrayStays
    <2> QED BY <2>1, <2>2 DEF KeepsAll
  <1> QED BY <1>1, HAInvariant, PTL DEF Spec, CommittedStays
=============================================================================
