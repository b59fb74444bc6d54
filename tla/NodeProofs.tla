----------------------------- MODULE NodeProofs -----------------------------
(***************************************************************************)
(* Proofs about Node, for every block tree and every set of bad blocks.    *)
(*                                                                         *)
(* 1. A node that is started once from its genesis state and then receives *)
(* blocks (RunSpec), in any order, and whenever the block log is full.     *)
(* None of Consistent, HeadIsBestKnown, AssertionsHold and ImplementsChain *)
(* is inductive.  That a failed fork switch finds an old branch to restore *)
(* needs that no known block was preferred over the head; that the head is *)
(* best after it needs that the fork that failed holds the one block that  *)
(* was; that remove_fork and advance_root do not throw needs that no bad   *)
(* block was validated and that the head is validated; that the assertion  *)
(* on the block log holds needs that log and root move together.  RunInv   *)
(* joins them (ControllerOK); ControllerLemmas shows that push_block keeps *)
(* it, step by step.                                                       *)
(*                                                                         *)
(* 2. A node that is shut down, crashes and is started again (Spec), in    *)
(* any read mode, with a log that may be full and snapshots of any state.  *)
(* A snapshot can then pair a head with the state of another block, so any *)
(* block may fail and a block may be validated on one that is not; neither *)
(* ValidOnValid nor "the root is the head of the log" holds.  What is left *)
(* is RestartInv: the fork database is a tree above its root (FdbWell),    *)
(* the root is not ahead of the log, and not ahead of the head while the   *)
(* node runs.  It is enough: log_irreversible appends only when root and   *)
(* log head agree, and then only blocks above the root.  That the root     *)
(* stays below the head fails in the middle of a replay, whose blocks are  *)
(* not the best known, and holds again at its end.                         *)
(*                                                                         *)
(* 3. The same node, shut down and started from what the shutdown wrote    *)
(* (CleanRestart).  StopInv says what the files of an orderly stop hold.   *)
(* That nothing more is applied at startup needs that a speculative node   *)
(* whose best validated block is the root, and whose state is that         *)
(* block's, knows no other block: it is Settled.  RestartInv carries that  *)
(* through every push and every start, failed ones included.               *)
(*                                                                         *)
(* 4. The same in irreversible mode only and with a log that has room.     *)
(* Head, state, root and log are at one block, running or not (AtLibInv),  *)
(* and every snapshot is of a block of the log: that it names its own      *)
(* state needs both, since it pairs fork_db.head with the state of the     *)
(* controller's head.                                                      *)
(***************************************************************************)
EXTENDS Node, ControllerLemmas

\* At most one of a set of snapshots.
AtMostOne(S) == S = {} \/ \E s \in Snapshots : S = {s}

\* The inductive invariant.
RunInv ==
    /\ up \in BOOLEAN /\ saved = FALSE
    /\ AtMostOne(snap) /\ AtMostOne(child)
    /\ up => ControllerOK(ctl)
    /\ ~up => /\ snap = {} /\ child = {}
              /\ \E mode \in {"speculative", "irreversible"} :
                    ctl = NewController(mode, ResetTo(Genesis), Genesis, Genesis)

-----------------------------------------------------------------------------
\* The genesis block has no ancestor but itself, and is not bad.
LEMMA GenesisIsGood ==
    Genesis \in Block /\ Anc[Genesis] = {Genesis} /\ Anc[Genesis] \cap Bad = {}
  <1>1. Genesis \in Block /\ Genesis \in Anc[Genesis]
    BY BlockTreeAssumption, AncBasic
  <1>2. Anc[Genesis] \subseteq {Genesis}
    BY <1>1, AncInduction DEF PrevClosed
  <1> QED BY <1>1, <1>2, ControllerAssumption

\* startup from the genesis state with nothing on disk.
LEMMA FirstStart ==
    ASSUME NEW old \in {"speculative", "irreversible"}, NEW mode \in {"speculative", "irreversible"},
           NEW room
    PROVE  LET c == NewController(old, ResetTo(Genesis), Genesis, Genesis)
               r == StartFromGenesis(c, FALSE, mode, Bad, room)
           IN  ControllerOK(r) /\ r.outcome = "ok" /\ r.head = Genesis /\ r.blog = Genesis
  <1>0. PICK c : c = NewController(old, ResetTo(Genesis), Genesis, Genesis)
    OBVIOUS
  <1>1. PICK fd : fd = ResetTo(Genesis)
    OBVIOUS
  <1>2. /\ FdbOK(fd) /\ fd.root = Genesis /\ fd.index = {} /\ fd.valid = {} /\ fd.head = Genesis
        /\ fd \in ForkDb
    BY <1>1, GenesisIsGood, ResetOK DEF ResetTo, FdbOK
  <1>3. c.fdb = fd /\ c.blog = Genesis
    BY <1>0, <1>1 DEF NewController
  <1>4. PICK n : n = NewController(mode, fd, Genesis, Genesis)
    OBVIOUS
  <1>5. PICK r : r = [n EXCEPT !.sparse = FALSE]
    OBVIOUS
  <1>6. Num[Genesis] \in Nat
    BY GenesisIsGood, Numbers
  <1>7. /\ r \in Controllers /\ r.mode = mode /\ r.fdb = fd /\ r.head = Genesis /\ ~r.sparse
        /\ r.db = Genesis /\ r.rev = Num[Genesis] /\ r.base = Num[Genesis]
        /\ r.blog = Genesis /\ r.outcome = "ok"
    BY <1>2, <1>4, <1>5, <1>6, GenesisIsGood DEF NewController, Controllers, Outcomes
  <1>8. StartFromGenesis(c, FALSE, mode, Bad, room) = InitController(r, FALSE, Bad, room)
    BY <1>2, <1>3, <1>4, <1>5 DEF StartFromGenesis
  <1>9. ReplayLog(r, FALSE, Bad) = r
    <2>1. Num[r.head] >= Num[r.blog]
      BY <1>6, <1>7
    <2> QED BY <2>1, Zenon DEF ReplayLog
  <1>10. [r EXCEPT !.fdb = ResetTo(r.head)] = r
    BY <1>1, <1>7 DEF Controllers
  <1>11. ReplayForkDb(r, FALSE, Bad, room) = r
    BY <1>7, <1>10 DEF ReplayForkDb
  <1>12. PendingHead(fd) = fd.head
    BY <1>2 DEF PendingHead
  <1>13. ReadyToRun(r, Bad, room) = r
    BY <1>7, <1>12 DEF ReadyToRun, ApplyBestBranch
  <1>14. StartFromGenesis(c, FALSE, mode, Bad, room) = r
    BY <1>8, <1>9, <1>11, <1>13 DEF InitController
  <1>15. Sound(r)
    BY <1>2, <1>7, GenesisIsGood DEF Sound, Synced
  <1>16. ControllerOK(r)
    BY <1>2, <1>7, <1>15 DEF ControllerOK, Best
  <1> QED BY <1>0, <1>7, <1>14, <1>16

\* The snapshot of a sound controller.
LEMMA SnapshotTyped ==
    ASSUME NEW c, Sound(c), NEW who \in {"shutdown", "child", "orphan"}
    PROVE  WrittenBy(who, c) \in Snapshots
  <1>1. c.fdb.head \in Block /\ c.db \in Block
    BY SoundFacts DEF Sound, Synced
  <1> QED BY <1>1 DEF WrittenBy, Snapshot, Snapshots

-----------------------------------------------------------------------------
(* The steps *)

\* Nothing is on disk.
LEMMA InitRunInv == Init => RunInv
  BY ControllerAssumption DEF Init, RunInv, AtMostOne

\* on_incoming_block
LEMMA ReceiveBlockOK ==
    ASSUME RunInv, NEW b \in Block, ReceiveBlock(b)
    PROVE  RunInv' /\ Follows(ctl', ctl) /\ up
  <1>1. up /\ ControllerOK(ctl) /\ CanAdd(ctl.fdb, b)
    BY DEF ReceiveBlock, Deliverable, RunInv
  <1>2. ctl.db = ctl.head /\ ctl.blog \in Block /\ Num[ctl.blog] \in Nat
    BY <1>1, SoundFacts, Numbers DEF ControllerOK, Sound, Synced
  <1>3. PICK room \in Rooms : Pushed(PushBlock(ctl, b, Bad, room))
    BY <1>2 DEF ReceiveBlock, FailSets
  <1>4. room \in Nat
    BY <1>2, <1>3, MaxNumIs DEF Rooms
  <1>5. PICK r : r = PushBlock(ctl, b, Bad, room)
    OBVIOUS
  <1>6. Follows(r, ctl)
    BY <1>1, <1>4, <1>5, PushBlockOK
  <1>7. r.outcome \in {"ok", "threw"} /\ ControllerOK(r) /\ Sound(r)
    BY <1>6 DEF Follows, ControllerOK
  <1>8. up' = TRUE /\ ctl' = r /\ BackgroundSnapshot(r)
    BY <1>3, <1>5, <1>7 DEF Pushed
  <1>9. AtMostOne(child')
    BY <1>7, <1>8, SnapshotTyped DEF BackgroundSnapshot, AtMostOne, RunInv
  <1>10. saved' = FALSE /\ AtMostOne(snap')
    BY DEF ReceiveBlock, RunInv
  <1> QED BY <1>1, <1>6, <1>7, <1>8, <1>9, <1>10 DEF RunInv

\* startup: only the first one, from the genesis state.
LEMMA StartOK ==
    ASSUME RunInv, NEW mode \in Modes, Start(mode)
    PROVE  RunInv' /\ ControllerOK(ctl') /\ ctl'.head = Genesis /\ ctl'.blog = Genesis
           /\ ctl.head = Genesis /\ ctl.blog = Genesis
  <1>1. ~up /\ snap = {} /\ child = {} /\ saved = FALSE
    BY DEF Start, RunInv
  <1>2. PICK old \in {"speculative", "irreversible"} :
             ctl = NewController(old, ResetTo(Genesis), Genesis, Genesis)
    BY <1>1 DEF RunInv
  <1>3. PICK room \in Rooms : Started(StartFromGenesis(ctl, FALSE, mode, Bad, room))
    BY <1>1 DEF Start
  <1>4. PICK r : r = StartFromGenesis(ctl, FALSE, mode, Bad, room)
    OBVIOUS
  <1>5. mode \in {"speculative", "irreversible"}
    BY ControllerAssumption
  <1>6. ControllerOK(r) /\ r.outcome = "ok" /\ r.head = Genesis /\ r.blog = Genesis
    <2>1. PICK c : c = NewController(old, ResetTo(Genesis), Genesis, Genesis)
      OBVIOUS
    <2>2. r = StartFromGenesis(c, FALSE, mode, Bad, room)
      BY <1>2, <1>4, <2>1
    <2> QED BY <1>5, <2>1, <2>2, FirstStart
  <1>7. up' = TRUE /\ ctl' = r /\ saved' = FALSE
    BY <1>3, <1>4, <1>6 DEF Started
  <1>8. snap' = {} /\ child' = {}
    BY <1>1 DEF Start
  <1>9. ctl.head = Genesis /\ ctl.blog = Genesis
    BY <1>2 DEF NewController
  <1> QED BY <1>6, <1>7, <1>8, <1>9 DEF RunInv, AtMostOne

\* Every step of a running node keeps the invariant.
LEMMA RunInvStep == RunInv /\ [RunNext]_vars => RunInv'
  <1>1. SUFFICES ASSUME RunInv, [RunNext]_vars PROVE RunInv'
    OBVIOUS
  <1>2. CASE \E b \in Block : ReceiveBlock(b)
    BY <1>1, <1>2, ReceiveBlockOK
  <1>3. CASE \E mode \in Modes : Start(mode)
    BY <1>1, <1>3, StartOK
  <1>4. CASE ChildDone
    BY <1>1, <1>4 DEF ChildDone, RunInv, AtMostOne
  <1>5. CASE ChildDies
    BY <1>1, <1>5 DEF ChildDies, RunInv, AtMostOne
  <1>6. CASE UNCHANGED vars
    BY <1>1, <1>6 DEF vars, RunInv
  <1> QED BY <1>1, <1>2, <1>3, <1>4, <1>5, <1>6 DEF RunNext

\* Every handler keeps the promises of Chain.
LEMMA ChainStep == RunInv /\ [RunNext]_vars => [TheChain!Next]_<<ctl.head, ctl.blog>>
  <1>1. SUFFICES ASSUME RunInv, [RunNext]_vars PROVE [TheChain!Next]_<<ctl.head, ctl.blog>>
    OBVIOUS
  <1>2. TheChain!Anc = Anc
    BY DEF TheChain!Anc, Anc, TheChain!PrevClosed, PrevClosed
  <1>3. CASE \E b \in Block : ReceiveBlock(b)
    <2>1. Follows(ctl', ctl)
      BY <1>1, <1>3, ReceiveBlockOK
    <2>2. PICK r : r = ctl'
      OBVIOUS
    <2>3. Sound(r) /\ ~FirstPreferred(ctl.head, r.head) /\ ctl.blog \in Anc[r.blog]
      BY <2>1, <2>2 DEF Follows, ControllerOK
    <2>4. /\ r.head \in Block /\ r.blog \in Block /\ r.blog \in Anc[r.head]
          /\ r.head \in r.fdb.valid \cup {r.fdb.root}
      BY <2>3, SoundFacts DEF Sound
    <2>5. Anc[r.head] \cap Bad = {}
      BY <2>3, <2>4, NoBadBranch
    <2>6. TheChain!Adopt(r.head, r.blog)
      BY <1>2, <2>2, <2>3, <2>4, <2>5
         DEF TheChain!Adopt, TheChain!FirstPreferred, FirstPreferred
    <2> QED BY <2>4, <2>6 DEF TheChain!Next
  <1>4. CASE \E mode \in Modes : Start(mode)
    BY <1>1, <1>4, StartOK
  <1>5. CASE ChildDone
    BY <1>5 DEF ChildDone
  <1>6. CASE ChildDies
    BY <1>6 DEF ChildDies
  <1>7. CASE UNCHANGED vars
    BY <1>7 DEF vars
  <1> QED BY <1>1, <1>3, <1>4, <1>5, <1>6, <1>7 DEF RunNext

-----------------------------------------------------------------------------
(* What the invariant implies *)

\* A node that has not been started.
LEMMA DownFacts ==
    ASSUME RunInv, ~up
    PROVE  ctl \in Controllers /\ ctl.outcome = "ok"
  <1>1. PICK mode \in {"speculative", "irreversible"} :
             ctl = NewController(mode, ResetTo(Genesis), Genesis, Genesis)
    BY DEF RunInv
  <1>2. PICK fd : fd = ResetTo(Genesis)
    OBVIOUS
  <1>3. fd \in ForkDb /\ Genesis \in Block /\ Num[Genesis] \in Nat
    BY <1>2, GenesisIsGood, Numbers, ResetOK DEF FdbOK
  <1> QED BY <1>1, <1>2, <1>3 DEF NewController, Controllers, Outcomes

\* A set of at most one snapshot, as the type invariant says it.
LEMMA AtMostOneIs ==
    ASSUME NEW S, AtMostOne(S)
    PROVE  S \subseteq Snapshots /\ Cardinality(S) <= 1
  <1>1. CASE S = {}
    <2>1. Cardinality({}) = 0
      BY FS_EmptySet
    <2> QED BY <1>1, <2>1
  <1>2. CASE \E s \in Snapshots : S = {s}
    <2>1. PICK s \in Snapshots : S = {s}
      BY <1>2
    <2>2. Cardinality({s}) = 1
      BY FS_Singleton
    <2> QED BY <2>1, <2>2
  <1> QED BY <1>1, <1>2 DEF AtMostOne

\* The invariant is strong enough for Consistent.
LEMMA RunInvConsistent == RunInv => Consistent
  <1>1. SUFFICES ASSUME RunInv PROVE Consistent
    OBVIOUS
  <1>2. ctl \in Controllers
    BY <1>1, DownFacts, SoundFacts DEF RunInv, ControllerOK
  <1>3. TypeOK
    BY <1>1, <1>2, AtMostOneIs DEF TypeOK, RunInv
  <1>4. StateMatchesHead
    BY <1>1 DEF StateMatchesHead, RunInv, ControllerOK, Sound, Synced
  <1>5. ForkDbWellFormed
    BY <1>1 DEF ForkDbWellFormed, RunInv, ControllerOK, Sound, FdbOK
  <1> QED BY <1>3, <1>4, <1>5 DEF Consistent

\* push_block of a block that makes a good branch the best one, the log having room.
LEMMA RunInvResumes == RunInv => ResumesAfterFailure
  <1>1. SUFFICES ASSUME RunInv, up, ~Irreversible(ctl), NEW b \in Block, Deliverable(b),
                        Anc[PendingHead(Add(ctl.fdb, b))] \cap Bad = {}
                 PROVE  PushBlock(ctl, b, Bad, MaxNum).outcome = "ok"
    BY DEF ResumesAfterFailure
  <1>2. ControllerOK(ctl) /\ CanAdd(ctl.fdb, b) /\ MaxNum \in Nat
    BY <1>1, MaxNumIs DEF RunInv, Deliverable
  <1>3. EndsWell(PushBlock(ctl, b, Bad, MaxNum), PendingHead(Add(ctl.fdb, b)), MaxNum)
    BY <1>1, <1>2, PushBlockOK
  <1> QED BY <1>1, <1>3 DEF EndsWell

-----------------------------------------------------------------------------
(* Theorems *)

\* The node's inductive invariant: head, state, fork database and block log fit together
\* after every handler.
THEOREM RunInvariant == RunSpec => []RunInv
  BY InitRunInv, RunInvStep, PTL DEF RunSpec

\* Whatever fails in a handler, head, state database and fork database fit together.
THEOREM NodeConsistent == RunSpec => []Consistent
  BY RunInvariant, RunInvConsistent, PTL

\* No known block is ever preferred over the head of a speculative node (maybe_switch_forks,
\* after ties, failed blocks and failed switches).
THEOREM NodeHeadIsBest == RunSpec => []HeadIsBestKnown
  <1>1. RunInv => HeadIsBestKnown
    BY DEF RunInv, HeadIsBestKnown, ControllerOK, Best
  <1> QED BY <1>1, RunInvariant, PTL

\* The assertions of log_irreversible, advance_root and remove_fork never fail, and a failed
\* switch finds the branch to restore.
THEOREM NodeAssertionsHold == RunSpec => []AssertionsHold
  <1>1. RunInv => AssertionsHold
    BY DownFacts DEF RunInv, AssertionsHold, ControllerOK
  <1> QED BY <1>1, RunInvariant, PTL

\* Once the block log has room again a speculative node goes on, whatever failed before.
THEOREM NodeResumes == RunSpec => []ResumesAfterFailure
  BY RunInvariant, RunInvResumes, PTL

\* The node implements Chain: no bad block on its chain, never a move to a worse branch,
\* irreversible blocks stay.
THEOREM NodeImplementsChain == RunSpec => ImplementsChain
  <1>1. Init => TheChain!Init
    BY DEF Init, TheChain!Init, NewController
  <1> QED BY <1>1, RunInvariant, ChainStep, PTL DEF RunSpec, ImplementsChain, TheChain!Spec

-----------------------------------------------------------------------------
(* The controller whatever its state database holds *)

\* c is a record with the fields of a controller.
Shape(c) ==
    c \in [mode : {c.mode}, fdb : {c.fdb}, head : {c.head}, sparse : {c.sparse},
           db : {c.db}, rev : {c.rev}, base : {c.base}, blog : {c.blog}, outcome : {c.outcome}]

\* The fork database is a tree above its root, and the root is not ahead of the block log.
Safe(c) ==
    /\ Shape(c)
    /\ FdbWell(c.fdb)
    /\ c.head \in Block /\ c.blog \in Block
    /\ Num[c.fdb.root] <= Num[c.blog]

\* The head is not behind the root.
RootBelow(c) == Num[c.fdb.root] <= Num[c.head]

\* The head was loaded with its state from a snapshot, or has lost to the root.
Parked(c) == c.db \in {c.head, Mixed} /\ (c.sparse \/ Num[c.head] <= Num[c.fdb.root])

\* Where the best validated block is the root, it is the head or the head is parked.
Fits(c) == c.fdb.head = c.fdb.root => c.head = c.fdb.root \/ Parked(c)

\* And where it is the head, no other block is known: startup, which applies the best branch
\* in that case, finds none.
Settled(c) ==
    ~Irreversible(c) /\ c.fdb.head = c.fdb.root =>
        IF c.head = c.fdb.root THEN c.fdb.index = {} ELSE Parked(c)

\* Head and state are as before.
SameState(r, c) == r.head = c.head /\ r.db = c.db /\ r.sparse = c.sparse

\* A switch to block t changed nothing but what is known; on top of the head, t was forgotten.
Stays(r, c, t) ==
    /\ SameState(r, c)
    /\ r.fdb.root = c.fdb.root /\ r.fdb.head = c.fdb.head /\ r.fdb.index \subseteq c.fdb.index
    /\ t # c.head => r.outcome # "ok"
    /\ t # c.head /\ t # Genesis /\ Prev[t] = c.head /\ c.fdb.head = c.fdb.root =>
          t \notin r.fdb.index

\* The outcomes of a switch to block t.
Settles(r, c, t) == Settled(r) \/ r.outcome = "empty_back" \/ Stays(r, c, t)

\* The fork database and the log are as before.
SameStore(r, c) == r.fdb = c.fdb /\ r.blog = c.blog /\ r.mode = c.mode

\* A change of the outcome.
LEMMA EndedSafe ==
    ASSUME NEW c, Safe(c), NEW how
    PROVE  LET r == Ended(c, how)
           IN  Safe(r) /\ SameStore(r, c) /\ SameState(r, c) /\ r.head = c.head /\ r.outcome = how
  <1>1. PICK r : r = Ended(c, how)
    OBVIOUS
  <1>2. Shape(r) /\ SameStore(r, c) /\ SameState(r, c) /\ r.head = c.head /\ r.outcome = how
    BY <1>1, Zenon DEF Safe, Ended, Shape, SameStore, SameState
  <1> QED BY <1>1, <1>2 DEF Safe, SameStore

\* pop_block, any number of times.
LEMMA PopToSafe ==
    ASSUME NEW c, Safe(c), NEW a \in Block
    PROVE  LET r == PopTo(c, a)
           IN  Safe(r) /\ SameStore(r, c) /\ r.head = a /\ r.outcome = c.outcome
  <1>1. CASE a = c.head
    BY <1>1 DEF PopTo, SameStore
  <1>2. CASE a # c.head
    <2>1. PICK u : u = Undo(c, Num[c.head] - Num[a])
      OBVIOUS
    <2>2. PICK k, d : u = [c EXCEPT !.rev = k, !.db = d]
      BY <2>1, Zenon DEF Undo
    <2>3. Shape(u) /\ SameStore(u, c) /\ u.outcome = c.outcome
      BY <2>2, Zenon DEF Safe, Shape, SameStore
    <2>4. PICK r : r = [u EXCEPT !.head = a, !.sparse = FALSE]
      OBVIOUS
    <2>5. Shape(r) /\ SameStore(r, u) /\ r.head = a /\ r.outcome = u.outcome
      BY <2>3, <2>4, Zenon DEF Shape, SameStore
    <2>6. PopTo(c, a) = r
      BY <1>2, <2>1, <2>4, Zenon DEF PopTo
    <2> QED BY <2>3, <2>5, <2>6 DEF Safe, SameStore
  <1> QED BY <1>1, <1>2

\* apply_block of some blocks.
LEMMA MovedToSafe ==
    ASSUME NEW c, Safe(c), NEW S \in SUBSET Block
    PROVE  LET r == MovedTo(c, S)
           IN  /\ Safe(r) /\ SameStore(r, c) /\ r.outcome = c.outcome
               /\ r.head = IF S = {} THEN c.head ELSE Newest(S)
               /\ S # {} => r.db \in {Newest(S), Mixed}
  <1>1. CASE S = {}
    BY <1>1 DEF MovedTo, SameStore
  <1>2. CASE S # {}
    <2>1. PICK n : n = Newest(S) /\ n \in Block
      BY <1>2, NewestIs
    <2>2. PICK r : r = MovedTo(c, S)
      OBVIOUS
    <2>3. PICK k, d : /\ r = [c EXCEPT !.head = n, !.sparse = FALSE, !.rev = k, !.db = d]
                      /\ d = n \/ d = Mixed
      BY <1>2, <2>1, <2>2, Zenon DEF MovedTo
    <2>4. Shape(r) /\ SameStore(r, c) /\ r.head = n /\ r.outcome = c.outcome /\ r.db = d
      BY <2>3, Zenon DEF Safe, Shape, SameStore
    <2> QED BY <1>2, <2>1, <2>2, <2>3, <2>4 DEF Safe, SameStore
  <1> QED BY <1>1, <1>2

\* The blocks of a branch that are applied are its first ones, and stand on the head.
LEMMA AppliedPrefix ==
    ASSUME NEW c, NEW n \in Block, NEW a \in Anc[n], NEW fails
    PROVE  \E g \in Anc[n] :
              /\ a \in Anc[g] /\ Applied(c, Above(a, n), fails) = Above(a, g)
              /\ a # g => a = c.head
  <1>1. PICK B : B = Above(a, n)
    OBVIOUS
  <1>2. PICK P : P = Applied(c, B, fails)
    OBVIOUS
  <1>3. B \in SUBSET Block /\ \A x \in B : Num[x] \in Nat
    BY <1>1, AncBasic, Numbers DEF Above
  <1>4. Prefix(P, a, n)
    <2>1. CASE ~Linked(c, B)
      BY <1>2, <2>1 DEF Applied, Prefix
    <2>2. CASE Linked(c, B)
      <3>1. P = {b \in B : \A x \in B : Num[x] <= Num[b] => x \notin fails}
        BY <1>2, <2>2 DEF Applied
      <3>2. ASSUME NEW x \in P, NEW y \in B, Num[y] <= Num[x] PROVE y \in P
        <4>1. \A z \in B : Num[z] <= Num[y] => Num[z] <= Num[x]
          BY <1>3, <3>1, <3>2
        <4> QED BY <3>1, <4>1
      <3> QED BY <1>1, <3>1, <3>2 DEF Prefix
    <2> QED BY <2>1, <2>2
  <1>5. PICK g \in Anc[n] : a \in Anc[g] /\ P = Above(a, g)
    BY <1>4, PrefixTop
  <1>6. ASSUME a # g PROVE a = c.head
    <2>1. g \in Block /\ P # {}
      BY <1>5, <1>6, AncBasic, AboveIs
    <2>2. Linked(c, B)
      BY <1>2, <2>1 DEF Applied
    <2>3. a # n
      BY <1>1, <2>2 DEF Linked, Above
    <2>4. Prev[Oldest(B)] = a
      BY <1>1, <2>3, AboveIs
    <2> QED BY <2>2, <2>4 DEF Linked
  <1> QED BY <1>1, <1>2, <1>5, <1>6

\* Marking a block of the branch of the head leaves the head.
LEMMA MarkValidKeepsHead ==
    ASSUME NEW fd, FdbWell(fd), NEW b \in fd.index, b \in Anc[fd.head]
    PROVE  MarkValid(fd, b).head = fd.head
  <1> DEFINE valid == fd.valid \cup {b}
             first == FirstInIndex(valid)
  <1>1. fd \in ForkDb /\ valid \in SUBSET Block /\ valid # {} /\ fd.head \in Block
    BY DEF FdbWell, ForkDb
  <1>2. first \in valid
    <2> HIDE DEF valid
    <2> QED BY <1>1, FirstInIndexIsFirst
  <1>3. ~FirstPreferred(b, fd.head)
    BY <1>1, AncNumbers, FirstPreferredOrder
  <1>4. ~FirstPreferred(first, fd.head)
    BY <1>2, <1>3 DEF FdbWell, BestHead
  <1>5. MarkValid(fd, b) = fd \/ MarkValid(fd, b) = [fd EXCEPT !.valid = valid, !.head = fd.head]
    BY <1>4, Zenon DEF MarkValid
  <1> HIDE DEF valid, first
  <1> QED BY <1>1, <1>5, Zenon DEF ForkDb

\* What marking some blocks makes of fd.
StillWell(new, fd) == FdbWell(new) /\ new.root = fd.root /\ new.index = fd.index

\* Marking the blocks of a branch.
LEMMA MarkAllWell ==
    ASSUME NEW fd, FdbWell(fd), NEW n \in Block, NEW a \in Anc[n],
           Above(a, n) \subseteq fd.index
    PROVE  LET new == MarkAllValid(fd, Above(a, n))
           IN  /\ StillWell(new, fd)
               /\ Above(a, n) \subseteq Anc[fd.head] => new.head = fd.head
               /\ IF a = n THEN new = fd ELSE n \in new.valid
  <1> DEFINE S == Above(a, n)
             Fine(new, k) == /\ StillWell(new, fd)
                             /\ S \subseteq Anc[fd.head] => new.head = fd.head
                             /\ k = Num[n] => n \in new.valid
  <1>1. CASE a = n
    <2>1. Above(a, n) = {}
      BY <1>1 DEF Above
    <2>2. MarkAllValid(fd, Above(a, n)) = fd
      BY <2>1 DEF MarkAllValid
    <2> QED BY <1>1, <2>2 DEF StillWell
  <1>2. CASE a # n
    <2>1. a \in Block /\ Num \in [Block -> Nat]
      BY AncBasic, BlockTreeAssumption
    <2>2. /\ S # {} /\ S \in SUBSET Block /\ Oldest(S) \in S /\ Prev[Oldest(S)] = a
          /\ Oldest(S) \in Block \ {Genesis}
          /\ Newest(S) = n
      BY <1>2, AboveIs, OldestIs
    <2>3. PICK from : from = Num[Oldest(S)]
      OBVIOUS
    <2>4. from = Num[a] + 1 /\ from \in Nat \ {0} /\ from - 1 = Num[a]
      <3>1. Num[Oldest(S)] = Num[Prev[Oldest(S)]] + 1
        BY <2>2, BlockTreeAssumption
      <3>2. Num[a] \in Nat /\ from = Num[a] + 1
        BY <2>1, <2>2, <2>3, <3>1
      <3> QED BY <3>2
    <2>5. MaxNum \in Nat /\ Num[a] <= MaxNum /\ Num[n] <= MaxNum /\ Num[a] < Num[n]
      BY <1>2, <2>1, MaxNumIs, AncNumbers
    <2>6. PICK f : /\ IsMarking(f, fd, from, MaxNum, S)
                   /\ MarkAllValid(fd, S) = f[Num[n]]
      <3> HIDE DEF S
      <3> QED BY <2>2, <2>3, <2>4, <2>5, MarkAllValidSteps
    <2> DEFINE Fails == {k \in Nat : Num[a] <= k /\ k <= Num[n] /\ ~Fine(f[k], k)}
    <2>7. SUFFICES ASSUME Num[n] \in Fails PROVE FALSE
      BY <1>2, <2>1, <2>5, <2>6
    <2>8. PICK k \in Fails : \A m \in Fails : k <= m
      <3> HIDE DEF Fails
      <3>1. Fails \in SUBSET Nat
        BY DEF Fails
      <3> QED BY <2>7, <3>1, LeastNatural
    <2>9. k \in Nat /\ Num[a] <= k /\ k <= Num[n] /\ k \in from - 1 .. MaxNum /\ ~Fine(f[k], k)
      BY <2>1, <2>4, <2>5, <2>8
    <2>10. CASE k < from
      <3>1. f[k] = fd
        <4> HIDE DEF S
        <4> QED BY <2>6, <2>9, <2>10 DEF IsMarking
      <3>2. k # Num[n]
        BY <2>1, <2>4, <2>5, <2>9, <2>10
      <3> QED BY <2>9, <3>1, <3>2 DEF StillWell
    <2>11. CASE ~(k < from)
      <3>1. PICK j \in Nat : j = k - 1 /\ k = j + 1 /\ j \in from - 1 .. Num[n] /\ j \notin Fails
        BY <2>1, <2>4, <2>8, <2>9, <2>11
      <3>2. PICK b : b = CHOOSE x \in S : Num[x] = k
        OBVIOUS
      <3>3. f[k] = MarkValid(f[j], b)
        <4> HIDE DEF S
        <4> QED BY <2>6, <2>9, <2>11, <3>1, <3>2 DEF IsMarking
      <3>4. Fine(f[j], j)
        BY <2>4, <3>1
      <3>5. b \in S /\ Num[b] = k
        <4>1. Num[a] < k /\ k <= Num[n] /\ Num[a] \in Nat
          BY <2>1, <2>4, <2>9, <2>11
        <4>2. PICK x \in Anc[n] : Num[x] = k
          BY <4>1, <2>9, NumberOnBranch
        <4>3. x \in S
          BY <2>1, <4>1, <4>2, AncNumbers DEF Above
        <4> QED BY <4>2, <4>3, <3>2
      <3>6. PICK g : g = f[j]
        OBVIOUS
      <3>7. FdbWell(g) /\ b \in g.index /\ StillWell(g, fd)
        BY <3>4, <3>5, <3>6 DEF StillWell
      <3>8. StillWell(MarkValid(g, b), fd) /\ b \in MarkValid(g, b).valid
        BY <3>7, MarkValidWell DEF StillWell
      <3>9. ASSUME S \subseteq Anc[fd.head] PROVE MarkValid(g, b).head = fd.head
        BY <3>4, <3>5, <3>6, <3>7, <3>9, MarkValidKeepsHead
      <3>10. Fine(f[k], k)
        <4>1. ASSUME k = Num[n] PROVE b = n
          <5>1. b \in Anc[n] /\ Num[b] = Num[n] /\ Num[n] \in Nat
            BY <2>1, <3>5, <4>1 DEF Above
          <5> QED BY <5>1, AncNumbers
        <4> HIDE DEF S
        <4> QED BY <3>3, <3>6, <3>8, <3>9, <4>1
      <3> QED BY <3>10, <2>9
    <2> QED BY <2>10, <2>11
  <1> QED BY <1>1, <1>2

\* apply_block and mark_valid of known blocks.
LEMMA ApplyBlocksSafe ==
    ASSUME NEW c, Safe(c), NEW n \in Block, NEW a \in Anc[n], Above(a, n) \subseteq c.fdb.index
    PROVE  LET r == ApplyBlocks(c, Above(a, n))
           IN  /\ Safe(r) /\ StillWell(r.fdb, c.fdb)
               /\ r.blog = c.blog /\ r.mode = c.mode /\ r.outcome = c.outcome
               /\ r.head = IF a = n THEN c.head ELSE n
               /\ Above(a, n) \subseteq Anc[c.fdb.head] => r.fdb.head = c.fdb.head
               /\ IF a = n THEN r = c ELSE n \in r.fdb.valid /\ r.db \in {n, Mixed}
  <1>1. PICK fd : fd = c.fdb
    OBVIOUS
  <1>2. PICK S : S = Above(a, n)
    OBVIOUS
  <1>3. PICK new : new = MarkAllValid(fd, S)
    OBVIOUS
  <1>4. /\ StillWell(new, fd) /\ (S \subseteq Anc[fd.head] => new.head = fd.head)
        /\ IF a = n THEN new = fd ELSE n \in new.valid
    BY <1>1, <1>2, <1>3, MarkAllWell DEF Safe
  <1>5. S \in SUBSET Block /\ (S = {} <=> a = n) /\ (a # n => Newest(S) = n)
    BY <1>2, AncBasic, AboveIs DEF Above
  <1>6. PICK m : m = MovedTo(c, S)
    OBVIOUS
  <1>7. /\ Safe(m) /\ SameStore(m, c) /\ m.outcome = c.outcome
        /\ m.head = IF a = n THEN c.head ELSE n
        /\ a # n => m.db \in {n, Mixed}
    BY <1>5, <1>6, MovedToSafe
  <1>8. PICK r : r = ApplyBlocks(c, S)
    OBVIOUS
  <1>9. r = [m EXCEPT !.fdb = new]
    BY <1>1, <1>3, <1>6, <1>7, <1>8 DEF ApplyBlocks, SameStore
  <1>10. /\ Shape(r) /\ r.fdb = new /\ r.blog = m.blog /\ r.mode = m.mode
         /\ r.outcome = m.outcome /\ r.head = m.head /\ r.db = m.db
    BY <1>7, <1>9, Zenon DEF Safe, Shape
  <1>11. Safe(r)
    BY <1>1, <1>4, <1>7, <1>10 DEF Safe, StillWell, SameStore
  <1>12. ASSUME a = n PROVE r = c
    <2>1. m = c
      BY <1>5, <1>6, <1>12 DEF MovedTo
    <2> QED BY <1>1, <1>4, <1>9, <1>12, <2>1 DEF Safe, Shape
  <1> QED BY <1>1, <1>2, <1>4, <1>7, <1>8, <1>10, <1>11, <1>12 DEF SameStore

-----------------------------------------------------------------------------
\* The block log only grows.
Grown(r, c) == Safe(r) /\ r.mode = c.mode /\ c.blog \in Anc[r.blog]

\* Facts about a safe controller in the form the steps below need them.
LEMMA SafeFacts ==
    ASSUME NEW c, Safe(c)
    PROVE  /\ FdbWell(c.fdb) /\ c.fdb \in ForkDb /\ Rooted(c.fdb)
           /\ c.head \in Block /\ c.blog \in Block
           /\ c.fdb.root \in Block /\ c.fdb.head \in Block /\ c.fdb.index \in SUBSET Block
           /\ c.fdb.head \in c.fdb.index \cup {c.fdb.root}
           /\ c.blog \in Anc[c.blog]
  BY AncBasic DEF Safe, FdbWell, ForkDb, BestHead

\* Log and root move to block n, or the assertion of advance_root fails.
LEMMA RootMovedSafe ==
    ASSUME NEW c, Safe(c), c.fdb.root = c.blog, NEW n \in c.fdb.index
    PROVE  LET r == RootMoved(c, n)
           IN  /\ Grown(r, c) /\ r.head = c.head /\ r.fdb.head = c.fdb.head
               /\ Num[r.fdb.root] <= Num[n]
               /\ r.db = c.db /\ r.fdb.index \subseteq c.fdb.index
  <1>1. PICK fd : fd = c.fdb
    OBVIOUS
  <1>2. /\ FdbWell(fd) /\ fd \in ForkDb /\ Rooted(fd) /\ n \in fd.index /\ n \in Block
        /\ fd.root = c.blog /\ fd.root \in Block
    BY <1>1, SafeFacts
  <1>3. fd.root \in Anc[n] /\ Num[fd.root] < Num[n] /\ Num[n] \in Nat /\ Num[fd.root] \in Nat
    BY <1>2, IndexAboveRoot, Numbers DEF Rooted
  <1>4. PICK k : k = Commit(c, Num[n])
    OBVIOUS
  <1>5. PICK x : k = [c EXCEPT !.base = x]
    BY <1>4, Zenon DEF Commit
  <1>6. Shape(k) /\ SameStore(k, c) /\ k.head = c.head /\ k.db = c.db
    BY <1>5, Zenon DEF Safe, Shape, SameStore
  <1>7. PICK r : r = RootMoved(c, n)
    OBVIOUS
  <1>8. CASE CanAdvanceRoot(fd, n)
    <2>1. PICK new : new = AdvanceRoot(fd, n)
      OBVIOUS
    <2>2. FdbWell(new) /\ new.root = n /\ new.head = fd.head /\ new.index \subseteq fd.index
      <3>1. FdbWell(new) /\ new.root = n /\ new.head = fd.head
        BY <1>2, <1>8, <2>1, AdvanceRootWell
      <3>2. new.index = fd.index \ RemovedByAdvance(fd, n)
        BY <1>2, <2>1 DEF AdvanceRoot, ForkDb
      <3> QED BY <3>1, <3>2
    <2>3. r = [k EXCEPT !.blog = n, !.fdb = new]
      <3>1. r = [k EXCEPT !.blog = n, !.fdb = AdvanceRoot(k.fdb, n)]
        BY <1>1, <1>4, <1>7, <1>8, Zenon DEF RootMoved
      <3>2. k.fdb = fd
        BY <1>1, <1>6 DEF SameStore
      <3> QED BY <3>1, <3>2, <2>1, Zenon
    <2>4. /\ Shape(r) /\ r.blog = n /\ r.fdb = new /\ r.head = k.head /\ r.mode = k.mode
          /\ r.db = k.db
      BY <1>6, <2>3, Zenon DEF Shape
    <2> QED BY <1>1, <1>2, <1>3, <1>6, <1>7, <2>2, <2>4 DEF Grown, Safe, SameStore
  <1>9. CASE ~CanAdvanceRoot(fd, n)
    <2>1. PICK m : m = [k EXCEPT !.blog = n]
      OBVIOUS
    <2>2. /\ Shape(m) /\ m.blog = n /\ m.fdb = k.fdb /\ m.head = k.head /\ m.mode = k.mode
          /\ m.db = k.db
      BY <1>6, <2>1, Zenon DEF Shape
    <2>3. Safe(m)
      BY <1>1, <1>2, <1>3, <1>6, <2>2 DEF Safe, SameStore
    <2>4. r = Ended(m, "assert")
      BY <1>1, <1>4, <1>7, <1>9, <2>1 DEF RootMoved
    <2>5. Safe(r) /\ SameStore(r, m) /\ SameState(r, m)
      BY <2>3, <2>4, EndedSafe
    <2> QED BY <1>1, <1>2, <1>3, <1>6, <1>7, <2>2, <2>5 DEF Grown, SameStore, SameState
  <1> QED BY <1>8, <1>9

\* The end of log_irreversible.
LEMMA EndedLoggingSafe ==
    ASSUME NEW c, Safe(c), NEW done
    PROVE  LET r == EndedLogging(c, done)
           IN  Safe(r) /\ SameStore(r, c) /\ SameState(r, c) /\ r.head = c.head
  BY EndedSafe DEF EndedLogging, SameStore, SameState

\* log_irreversible, in either mode.
LEMMA LogSafe ==
    ASSUME NEW c, Safe(c), NEW fails, NEW room \in Nat
    PROVE  LET r == LogIrreversible(c, fails, room)
           IN  /\ Grown(r, c)
               /\ RootBelow(c) /\ (Irreversible(c) \/ Lib[c.fdb.head] <= Num[c.head]) => RootBelow(r)
               /\ ~Irreversible(c) => /\ r.head = c.head /\ r.fdb.head = c.fdb.head
                                      /\ r.db = c.db /\ r.fdb.index \subseteq c.fdb.index
  <1>1. PICK fd : fd = c.fdb
    OBVIOUS
  <1>2. PICK top : top = ForkHead(c)
    OBVIOUS
  <1>3. PICK r : r = LogIrreversible(c, fails, room)
    OBVIOUS
  <1>4. /\ FdbWell(fd) /\ fd \in ForkDb /\ Rooted(fd) /\ fd.index \in SUBSET Block
        /\ fd.root \in Block /\ c.blog \in Block /\ c.blog \in Anc[c.blog]
        /\ fd.head \in fd.index \cup {fd.root} /\ c.head \in Block
    BY <1>1, SafeFacts
  <1>5. /\ top \in fd.index \cup {fd.root} /\ top \in Block /\ fd.root \in Anc[top]
        /\ ~Irreversible(c) => top = fd.head
    BY <1>1, <1>2, <1>4, PendingHeadIs, KnownDescends DEF ForkHead
  <1>6. CASE fd.root # c.blog
    <2>1. r = Ended(c, "assert")
      BY <1>1, <1>3, <1>6 DEF LogIrreversible, LogUpTo
    <2>2. Safe(r) /\ SameStore(r, c) /\ SameState(r, c)
      BY <2>1, EndedSafe
    <2> QED BY <1>3, <1>4, <2>2 DEF Grown, SameStore, SameState, RootBelow
  <1>7. CASE fd.root = c.blog /\ Lib[top] <= Num[c.blog]
    <2>1. r = c
      BY <1>1, <1>2, <1>3, <1>7 DEF LogIrreversible, LogUpTo
    <2> QED BY <1>3, <1>4, <2>1 DEF Grown
  <1>8. CASE fd.root = c.blog /\ ~(Lib[top] <= Num[c.blog])
    <2>1. PICK branch : branch = FetchBranch(fd, top, Lib[top])
      OBVIOUS
    <2>2. r = LogBranch(c, branch, fails, room)
      BY <1>1, <1>2, <1>3, <1>8, <2>1 DEF LogIrreversible, LogUpTo
    <2>3. CASE ~Irreversible(c)
      <3>1. PICK done : done = Logged(branch, room)
        OBVIOUS
      <3>2. PICK m : m = RootFollows(c, done)
        OBVIOUS
      <3>3. r = EndedLogging(m, done = branch)
        BY <2>2, <2>3, <3>1, <3>2 DEF LogBranch, LogBlocks
      <3>4. /\ Grown(m, c) /\ m.head = c.head /\ m.fdb.head = c.fdb.head
            /\ m.db = c.db /\ m.fdb.index \subseteq c.fdb.index
            /\ RootBelow(c) /\ Lib[c.fdb.head] <= Num[c.head] => RootBelow(m)
        <4>1. CASE done = {}
          BY <1>4, <3>2, <4>1 DEF RootFollows, Grown
        <4>2. CASE done # {}
          <5>1. done \in SUBSET Block /\ done \subseteq fd.index
            BY <1>4, <2>1, <3>1 DEF Logged, FetchBranch
          <5>2. PICK n : n = Newest(done)
            OBVIOUS
          <5>3. n \in done /\ n \in Block /\ n \in fd.index
            BY <4>2, <5>1, <5>2, NewestIs
          <5>4. Num[n] <= Lib[fd.head] /\ Num[n] \in Nat /\ Lib[fd.head] \in Nat
            BY <1>5, <2>1, <2>3, <3>1, <5>3, Numbers DEF Logged, FetchBranch
          <5>5. m = RootMoved(c, n)
            BY <3>2, <4>2, <5>2 DEF RootFollows
          <5>6. /\ Grown(m, c) /\ m.head = c.head /\ m.fdb.head = c.fdb.head
                /\ Num[m.fdb.root] <= Num[n] /\ m.fdb.root \in Block
                /\ m.db = c.db /\ m.fdb.index \subseteq c.fdb.index
            BY <1>1, <1>8, <5>3, <5>5, RootMovedSafe, SafeFacts DEF Grown
          <5>7. Num[m.fdb.root] \in Nat /\ Num[c.head] \in Nat
            BY <5>6, <1>4, Numbers
          <5> QED BY <1>1, <5>4, <5>6, <5>7 DEF RootBelow
        <4> QED BY <4>1, <4>2
      <3>5. Safe(r) /\ SameStore(r, m) /\ SameState(r, m)
        BY <3>3, <3>4, EndedLoggingSafe DEF Grown
      <3> QED BY <1>3, <2>3, <3>4, <3>5 DEF Grown, SameStore, SameState, RootBelow
    <2>4. CASE Irreversible(c)
      <3>1. PICK y \in Anc[top] : fd.root \in Anc[y] /\ branch = Above(fd.root, y)
        <4>1. Prefix(branch, fd.root, top)
          BY <1>4, <1>5, <2>1, FetchBranchPrefix, Numbers
        <4> QED BY <1>5, <4>1, PrefixTop
      <3>2. PICK E : E = Applied(c, branch, fails)
        OBVIOUS
      <3>3. PICK g \in Anc[y] : fd.root \in Anc[g] /\ E = Above(fd.root, g)
        BY <1>5, <3>1, <3>2, AncBasic, AppliedPrefix
      <3>4. g \in Block /\ g \in Anc[top] /\ y \in Block
        BY <1>5, <3>1, <3>3, AncBasic, AncTransitive
      <3>5. PICK u \in Anc[g], l \in Anc[g] :
                /\ fd.root \in Anc[l] /\ l \in Anc[u]
                /\ Tried(E, room) = Above(fd.root, u)
                /\ Logged(E, room) = Above(fd.root, l)
        BY <1>4, <3>3, <3>4, TriedIs
      <3>6. /\ u \in Block /\ l \in Block /\ u \in Anc[top] /\ fd.root \in Anc[u]
            /\ Num[l] <= Num[u] /\ Num[u] \in Nat /\ Num[l] \in Nat
        BY <1>5, <3>4, <3>5, AncBasic, AncTransitive, AncNumbers, Numbers
      <3>7. Above(fd.root, u) \subseteq fd.index /\ Above(fd.root, l) \subseteq Above(fd.root, u)
        <4>1. Above(fd.root, top) \subseteq fd.index
          BY <1>4, <1>5, AncBasic, AboveInIndex
        <4>2. Anc[u] \subseteq Anc[top] /\ Anc[l] \subseteq Anc[u]
          BY <1>5, <3>5, <3>6, AncTransitive
        <4> QED BY <4>1, <4>2 DEF Above
      <3>8. PICK m : m = ApplyBlocks(c, Above(fd.root, u))
        OBVIOUS
      <3>9. /\ Safe(m) /\ StillWell(m.fdb, fd) /\ m.blog = c.blog /\ m.mode = c.mode
            /\ m.head = IF fd.root = u THEN c.head ELSE u
        BY <1>1, <3>6, <3>7, <3>8, ApplyBlocksSafe
      <3>10. PICK k : k = RootFollows(m, Above(fd.root, l))
        OBVIOUS
      <3>11. r = EndedLogging(k, Logged(E, room) = branch)
        BY <2>2, <2>4, <3>2, <3>5, <3>8, <3>10 DEF LogBranch, LogBlocks
      <3>12. Grown(k, c) /\ (RootBelow(c) => RootBelow(k))
        <4>1. CASE l = fd.root
          <5>1. k = m
            BY <3>10, <4>1 DEF RootFollows, Above
          <5>2. RootBelow(c) => RootBelow(m)
            <6>1. m.fdb.root = fd.root /\ Num[fd.root] <= Num[u]
              BY <3>6, <3>9, <4>1 DEF StillWell
            <6> QED BY <1>1, <3>9, <6>1 DEF RootBelow
          <5> QED BY <1>4, <3>9, <5>1, <5>2 DEF Grown
        <4>2. CASE l # fd.root
          <5>1. /\ Above(fd.root, l) # {} /\ Newest(Above(fd.root, l)) = l /\ l \in Above(fd.root, l)
            BY <3>5, <3>6, <4>2, AboveIs, NewestIs
          <5>2. k = RootMoved(m, l)
            BY <3>10, <5>1 DEF RootFollows
          <5>3. l \in m.fdb.index /\ m.fdb.root = m.blog
            BY <1>8, <3>7, <3>9, <5>1 DEF StillWell
          <5>4. Grown(k, m) /\ k.head = m.head /\ Num[k.fdb.root] <= Num[l]
            BY <3>9, <5>2, <5>3, RootMovedSafe
          <5>5. fd.root # u
            BY <1>4, <3>5, <3>6, <4>2, AncNumbers, Numbers
          <5>6. k.fdb.root \in Block /\ Num[k.fdb.root] \in Nat
            BY <5>4, SafeFacts, Numbers DEF Grown
          <5>7. RootBelow(k)
            BY <3>6, <3>9, <5>4, <5>5, <5>6 DEF RootBelow
          <5> QED BY <3>9, <5>4, <5>7 DEF Grown
        <4> QED BY <4>1, <4>2
      <3>13. Safe(r) /\ SameStore(r, k) /\ r.head = k.head
        BY <3>11, <3>12, EndedLoggingSafe DEF Grown
      <3> QED BY <1>3, <2>4, <3>12, <3>13 DEF Grown, SameStore, RootBelow
    <2> QED BY <2>3, <2>4
  <1> QED BY <1>6, <1>7, <1>8

-----------------------------------------------------------------------------
\* The forgotten fork is not the log's.
LEMMA ForgetForkSafe ==
    ASSUME NEW c, Safe(c), NEW b \in c.fdb.index
    PROVE  LET r == ForgetFork(c, b)
           IN  /\ Safe(r) /\ r.mode = c.mode /\ r.blog = c.blog /\ r.head = c.head
               /\ r.fdb.root = c.fdb.root /\ r.outcome # "ok"
               /\ SameState(r, c) /\ r.fdb.head = c.fdb.head /\ r.fdb.index \subseteq c.fdb.index
               /\ c.fdb.head = c.fdb.root => b \notin r.fdb.index
  <1>1. PICK fd : fd = c.fdb
    OBVIOUS
  <1>2. /\ FdbWell(fd) /\ fd \in ForkDb /\ Rooted(fd) /\ b \in fd.index /\ b \in Block
        /\ fd.root \in Block
    BY <1>1, SafeFacts
  <1>3. PICK r : r = ForgetFork(c, b)
    OBVIOUS
  <1>4. CASE ~CanRemoveFork(fd, b)
    <2>1. r = Ended(c, "assert")
      BY <1>1, <1>3, <1>4 DEF ForgetFork
    <2>2. Safe(r) /\ SameStore(r, c) /\ SameState(r, c) /\ r.outcome = "assert"
      BY <2>1, EndedSafe
    <2>3. fd.head # fd.root
      <3>1. b \notin Anc[fd.root]
        BY <1>2, IndexAboveRoot, AncNumbers, Numbers
      <3>2. b \in Anc[fd.head]
        BY <1>4 DEF CanRemoveFork, DescendantsIn
      <3> QED BY <3>1, <3>2
    <2> QED BY <1>1, <1>3, <2>2, <2>3 DEF SameStore, SameState
  <1>5. CASE CanRemoveFork(fd, b)
    <2>1. PICK new : new = RemoveFork(fd, b)
      OBVIOUS
    <2>2. /\ FdbWell(new) /\ new.root = fd.root /\ new.head = fd.head
          /\ new.index \subseteq fd.index /\ b \notin new.index
      <3>1. FdbWell(new) /\ new.root = fd.root /\ new.index = {x \in fd.index : b \notin Anc[x]}
        BY <1>2, <1>5, <2>1, RemoveForkWell
      <3>2. new.head = fd.head
        BY <1>2, <2>1 DEF RemoveFork, ForkDb
      <3> QED BY <1>2, <3>1, <3>2, AncBasic
    <2>3. PICK m : m = [c EXCEPT !.fdb = new]
      OBVIOUS
    <2>4. /\ Shape(m) /\ m.fdb = new /\ m.blog = c.blog /\ m.head = c.head /\ m.mode = c.mode
          /\ m.db = c.db /\ m.sparse = c.sparse
      BY <2>3, Zenon DEF Safe, Shape
    <2>5. Safe(m)
      BY <1>1, <2>2, <2>4 DEF Safe
    <2>6. r = Ended(m, "threw")
      BY <1>1, <1>3, <1>5, <2>1, <2>3 DEF ForgetFork
    <2>7. Safe(r) /\ SameStore(r, m) /\ SameState(r, m) /\ r.outcome = "threw"
      BY <2>5, <2>6, EndedSafe
    <2> QED BY <1>1, <1>3, <2>2, <2>4, <2>7 DEF SameStore, SameState
  <1> QED BY <1>4, <1>5

\* No known block is preferred over t.
Top(t, fd) == \A x \in fd.index : ~FirstPreferred(x, t)

\* When the best block known is the head, what becomes irreversible is not above it.
LEMMA TopIsHead ==
    ASSUME NEW c, Safe(c), NEW t \in Block, Top(t, c.fdb), c.head = t, RootBelow(c)
    PROVE  Lib[c.fdb.head] <= Num[c.head]
  <1>1. PICK h : h = c.fdb.head
    OBVIOUS
  <1>2. h \in Block /\ h \in c.fdb.index \cup {c.fdb.root} /\ c.fdb.root \in Block
    BY <1>1, SafeFacts
  <1>3. /\ Num[h] \in Nat /\ Lib[h] \in Nat /\ Num[t] \in Nat /\ Lib[t] \in Nat
        /\ Lib[h] <= Num[h] /\ Lib[t] <= Num[t]
    BY <1>2, Numbers, BlockTreeAssumption
  <1>4. CASE h \in c.fdb.index
    <2>1. ~FirstPreferred(h, t)
      BY <1>4 DEF Top
    <2>2. Lib[h] <= Lib[t]
      BY <1>3, <2>1 DEF FirstPreferred
    <2> QED BY <1>1, <1>3, <2>2
  <1>5. CASE h = c.fdb.root
    <2>1. Num[h] <= Num[t]
      BY <1>5 DEF RootBelow
    <2> QED BY <1>1, <1>3, <2>1
  <1> QED BY <1>2, <1>4, <1>5

\* What is irreversible is logged once the best block known is the head and validated: if the
\* root reaches the best validated block, nothing else is known.
LEMMA LogSettles ==
    ASSUME NEW c, Safe(c), ~Irreversible(c), NEW t \in c.fdb.valid, c.head = t, Top(t, c.fdb),
           c.db \in {t, Mixed}, NEW fails, NEW room \in Nat
    PROVE  Settled(LogIrreversible(c, fails, room))
  <1>1. PICK r : r = LogIrreversible(c, fails, room)
    OBVIOUS
  <1>2. /\ Safe(r) /\ r.head = t /\ r.fdb.head = c.fdb.head /\ r.db = c.db
        /\ r.fdb.index \subseteq c.fdb.index
    BY <1>1, LogSafe DEF Grown
  <1>3. PICK H \in Block : H = c.fdb.head
    BY SafeFacts
  <1>4. SUFFICES ASSUME r.fdb.root = H
                 PROVE  IF t = H THEN r.fdb.index = {} ELSE Num[t] <= Num[H]
    BY <1>1, <1>2, <1>3 DEF Settled, Parked
  <1>5. t \in c.fdb.index /\ t \in Block /\ ~FirstPreferred(t, H) /\ H \in c.fdb.index
    <2>1. FdbWell(c.fdb) /\ c.fdb \in ForkDb /\ Rooted(c.fdb) /\ t \in c.fdb.index
      BY SafeFacts DEF FdbWell, BestHead
    <2>2. ~FirstPreferred(t, H)
      BY <1>3, <2>1 DEF FdbWell, BestHead
    <2>3. H # c.fdb.root
      BY <2>1, <2>2, IndexAboveRoot
    <2> QED BY <1>3, <2>1, <2>2, <2>3, SafeFacts
  <1>6. Num[t] <= Num[H]
    <2>1. ~FirstPreferred(H, t)
      BY <1>5 DEF Top
    <2>2. Num[t] \in Nat /\ Num[H] \in Nat /\ Lib[t] \in Nat /\ Lib[H] \in Nat
      BY <1>5, Numbers
    <2> QED BY <1>5, <2>1, <2>2 DEF FirstPreferred
  <1>7. ASSUME NEW x \in r.fdb.index PROVE FALSE
    <2>1. FirstPreferred(x, H) /\ x \in Block
      BY <1>2, <1>4, SafeFacts, IndexAboveRoot
    <2>2. ~FirstPreferred(x, t)
      BY <1>2, <1>7 DEF Top
    <2> QED BY <1>5, <2>1, <2>2, FirstPreferredOrder
  <1> QED BY <1>6, <1>7

\* A known block on top of the head.
LEMMA ExtendHeadSafe ==
    ASSUME NEW c, Safe(c), ~Irreversible(c), NEW b \in c.fdb.index, Prev[b] = c.head,
           NEW fails, NEW room \in Nat
    PROVE  LET r == ExtendHead(c, b, fails, room)
           IN  /\ Grown(r, c)
               /\ RootBelow(c) /\ Top(b, c.fdb) => RootBelow(r)
               /\ r.outcome = "ok" => r.head = b
               /\ r.outcome = "ok" /\ b \in Anc[c.fdb.head] => r.fdb.head = c.fdb.head
               /\ Top(b, c.fdb) => Settles(r, c, b)
  <1>1. PICK r : r = ExtendHead(c, b, fails, room)
    OBVIOUS
  <1>2. /\ b \in Block \ {Genesis} /\ c.head \in Block /\ c.fdb.root \in Block
        /\ c.blog \in Anc[c.blog]
    BY SafeFacts, IndexAboveRoot
  <1>3. c.head \in Anc[b] /\ c.head # b /\ Num[c.head] <= Num[b] /\ Above(c.head, b) = {b}
    <2>1. Anc[b] = {b} \cup Anc[c.head] /\ b \in Anc[b] /\ c.head \in Anc[c.head]
      BY <1>2, AncStep, AncBasic
    <2>2. Num[b] = Num[c.head] + 1 /\ Num[c.head] \in Nat
      BY <1>2, BlockTreeAssumption
    <2>3. b \notin Anc[c.head]
      BY <1>2, <2>2, AncNumbers
    <2> QED BY <2>1, <2>2, <2>3 DEF Above
  <1>4. CASE Applied(c, {b}, fails) # {b}
    <2>1. r = ForgetFork(c, b)
      BY <1>1, <1>4 DEF ExtendHead
    <2>2. /\ Safe(r) /\ r.mode = c.mode /\ r.blog = c.blog /\ r.head = c.head
          /\ r.fdb.root = c.fdb.root /\ r.outcome # "ok"
          /\ SameState(r, c) /\ r.fdb.head = c.fdb.head /\ r.fdb.index \subseteq c.fdb.index
          /\ c.fdb.head = c.fdb.root => b \notin r.fdb.index
      BY <2>1, ForgetForkSafe
    <2>3. Settles(r, c, b)
      BY <2>2 DEF Settles, Stays
    <2> QED BY <1>1, <1>2, <2>2, <2>3 DEF Grown, RootBelow
  <1>5. CASE Applied(c, {b}, fails) = {b}
    <2>1. PICK m : m = ApplyBlocks(c, {b})
      OBVIOUS
    <2>2. r = LogIrreversible(m, fails, room)
      BY <1>1, <1>5, <2>1 DEF ExtendHead
    <2>3. PICK fd : fd = c.fdb
      OBVIOUS
    <2>4. /\ Safe(m) /\ StillWell(m.fdb, fd)
          /\ m.blog = c.blog /\ m.mode = c.mode /\ m.head = b
          /\ b \in Anc[fd.head] => m.fdb.head = fd.head
          /\ b \in m.fdb.valid /\ m.db \in {b, Mixed}
      <3>1. PICK a \in Anc[b] : a = c.head
        BY <1>3
      <3>2. m = ApplyBlocks(c, Above(a, b)) /\ Above(a, b) \subseteq c.fdb.index /\ a # b
        BY <1>3, <2>1, <3>1
      <3>3. b \in Block
        BY <1>2
      <3>4. /\ Safe(m) /\ StillWell(m.fdb, c.fdb)
            /\ m.blog = c.blog /\ m.mode = c.mode /\ m.head = b
            /\ Above(a, b) \subseteq Anc[c.fdb.head] => m.fdb.head = c.fdb.head
            /\ b \in m.fdb.valid /\ m.db \in {b, Mixed}
        BY <3>2, <3>3, ApplyBlocksSafe
      <3> QED BY <1>3, <2>3, <3>1, <3>4
    <2>5. /\ Grown(r, m) /\ r.head = m.head /\ r.fdb.head = m.fdb.head
          /\ RootBelow(m) /\ Lib[m.fdb.head] <= Num[m.head] => RootBelow(r)
      BY <2>2, <2>4, LogSafe DEF Irreversible
    <2>6. ASSUME RootBelow(c), Top(b, c.fdb) PROVE RootBelow(r)
      <3>1. RootBelow(m)
        <4>1. Num[fd.root] \in Nat /\ Num[c.head] \in Nat /\ Num[b] \in Nat
          BY <1>2, <2>3, Numbers
        <4>2. Num[fd.root] <= Num[b]
          BY <1>3, <2>3, <2>6, <4>1 DEF RootBelow
        <4> QED BY <2>4, <4>2 DEF RootBelow, StillWell
      <3>2. Top(b, m.fdb)
        BY <2>3, <2>4, <2>6 DEF Top, StillWell
      <3> QED BY <1>2, <2>4, <2>5, <3>1, <3>2, TopIsHead
    <2>7. ASSUME Top(b, c.fdb) PROVE Settles(r, c, b)
      <3>1. Top(b, m.fdb) /\ ~Irreversible(m)
        BY <2>3, <2>4, <2>7 DEF Top, StillWell, Irreversible
      <3>2. Settled(r)
        BY <2>2, <2>4, <3>1, LogSettles
      <3> QED BY <3>2 DEF Settles
    <2> QED BY <1>1, <2>3, <2>4, <2>5, <2>6, <2>7 DEF Grown
  <1> QED BY <1>4, <1>5

\* A switch to the branch of a best known block, whether it succeeds or not.
LEMMA SwitchForksSafe ==
    ASSUME NEW c, Safe(c), RootBelow(c), ~Irreversible(c), NEW t \in c.fdb.index \cup {c.fdb.root},
           Top(t, c.fdb), NEW fails, NEW room \in Nat
    PROVE  LET r == SwitchForks(c, t, fails, room)
           IN  /\ Grown(r, c) /\ RootBelow(r)
               /\ t # c.head /\ (t = Genesis \/ Prev[t] # c.head) /\ Fits(c) => Settles(r, c, t)
  <1>1. PICK r : r = SwitchForks(c, t, fails, room)
    OBVIOUS
  <1>2. PICK fd : fd = c.fdb
    OBVIOUS
  <1>3. /\ FdbWell(fd) /\ fd.root \in Block /\ c.head \in Block /\ t \in Block
        /\ fd.root \in Anc[t] /\ c.blog \in Anc[c.blog]
    BY <1>2, SafeFacts, KnownDescends
  <1>4. CASE ~Known(fd, c.head) \/ (c.sparse /\ c.head \notin Anc[t])
    <2>1. r = Ended(c, "threw")
      BY <1>1, <1>2, <1>4 DEF SwitchForks
    <2>2. Safe(r) /\ SameStore(r, c) /\ SameState(r, c) /\ r.head = c.head /\ r.outcome = "threw"
      BY <2>1, EndedSafe
    <2>3. t = Genesis \/ Prev[t] # c.head => Settles(r, c, t)
      BY <2>2 DEF Settles, Stays, SameStore
    <2> QED BY <1>1, <1>3, <2>2, <2>3 DEF Grown, RootBelow, SameStore
  <1>5. CASE ~(~Known(fd, c.head) \/ (c.sparse /\ c.head \notin Anc[t]))
    <2>1. c.head \in fd.index \cup {fd.root}
      BY <1>5 DEF Known
    <2>2. fd.root \in Anc[c.head]
      BY <1>3, <2>1, KnownDescends
    <2>3. PICK a : a = CommonAncestor(t, c.head)
      OBVIOUS
    <2>4. /\ a \in Anc[t] /\ a \in Anc[c.head] /\ Anc[a] = Anc[t] \cap Anc[c.head]
          /\ a \in Block /\ fd.root \in Anc[a]
      <3>1. a \in Anc[t] \cap Anc[c.head] /\ Anc[a] = Anc[t] \cap Anc[c.head]
        BY <1>3, <2>3, CommonAncestorIs
      <3>2. a \in Block
        BY <1>3, <3>1, AncBasic
      <3> QED BY <1>3, <2>2, <3>1, <3>2
    <2>5. /\ Anc[t] \ Anc[c.head] = Above(a, t) /\ Anc[c.head] \ Anc[t] = Above(a, c.head)
          /\ Above(a, t) \subseteq fd.index
      <3>1. Above(a, t) \subseteq fd.index
        BY <1>2, <1>3, <2>4, AboveInIndex
      <3> QED BY <2>4, <3>1 DEF Above
    <2>6. PICK p : p = PopTo(c, a)
      OBVIOUS
    <2>7. Safe(p) /\ SameStore(p, c) /\ p.head = a
      BY <2>4, <2>6, PopToSafe
    <2>8. PICK g \in Anc[t] : a \in Anc[g] /\ Applied(p, Above(a, t), fails) = Above(a, g)
      BY <1>3, <2>4, AppliedPrefix
    <2>9. g \in Block /\ Anc[g] \subseteq Anc[t]
      BY <1>3, <2>8, AncTransitive
    <2>10. r = TryBranch(p, Above(a, t), Above(a, g), Above(a, c.head), fails, room)
      BY <1>1, <1>2, <1>5, <2>3, <2>5, <2>6, <2>8 DEF SwitchForks, ApplyNewBranch
    <2>11. CASE Above(a, g) = Above(a, t)
      <3>1. PICK m : m = ApplyBlocks(p, Above(a, t))
        OBVIOUS
      <3>2. r = LogIrreversible(m, fails, room)
        BY <2>10, <2>11, <3>1 DEF TryBranch
      <3>3. p.fdb = fd
        BY <1>2, <2>7 DEF SameStore
      <3>4. /\ Safe(m) /\ StillWell(m.fdb, fd) /\ m.blog = p.blog /\ m.mode = p.mode
            /\ m.head = t /\ (a # t => t \in m.fdb.valid /\ m.db \in {t, Mixed})
        BY <1>3, <2>4, <2>5, <2>7, <3>1, <3>3, ApplyBlocksSafe
      <3>5. RootBelow(m)
        BY <1>3, <3>4, AncNumbers DEF RootBelow, StillWell
      <3>6. Top(t, m.fdb)
        BY <1>2, <3>4 DEF Top, StillWell
      <3>7. Lib[m.fdb.head] <= Num[m.head]
        BY <1>3, <3>4, <3>5, <3>6, TopIsHead
      <3>8. Grown(r, m) /\ RootBelow(r)
        BY <3>2, <3>4, <3>5, <3>7, LogSafe
      <3>9. ASSUME t # c.head PROVE Settles(r, c, t)
        <4>1. a # t
          <5>1. SUFFICES ASSUME t \in Anc[c.head] PROVE FALSE
            BY <2>4
          <5>2. FirstPreferred(c.head, t) /\ Num[t] < Num[c.head]
            BY <1>3, <3>9, <5>1, AncNumbers
          <5>3. c.head \notin fd.index
            BY <1>2, <5>2 DEF Top
          <5>4. Num[c.head] <= Num[t] /\ Num[t] \in Nat /\ Num[c.head] \in Nat
            BY <1>3, <2>1, <5>3, AncNumbers, Numbers
          <5> QED BY <5>2, <5>4
        <4>2. ~Irreversible(m)
          BY <2>7, <3>4 DEF SameStore, Irreversible
        <4>3. Settled(r)
          BY <3>2, <3>4, <3>6, <4>1, <4>2, LogSettles
        <4> QED BY <4>3 DEF Settles
      <3> QED BY <1>1, <2>7, <3>4, <3>8, <3>9 DEF Grown, SameStore
    <2>12. CASE Above(a, g) # Above(a, t)
      <3>1. PICK D : D = Above(a, t) \ Above(a, g)
        OBVIOUS
      <3>2. D \in SUBSET Block /\ D # {} /\ D \subseteq fd.index
        <4>1. Above(a, g) \subseteq Above(a, t)
          BY <2>9 DEF Above
        <4> QED BY <1>3, <2>5, <2>12, <3>1, <4>1, AncBasic DEF Above
      <3>3. PICK f : f = Oldest(D) /\ f \in fd.index
        BY <3>2, OldestIs
      <3>4. PICK m : m = ApplyBlocks(p, Above(a, g))
        OBVIOUS
      <3>5. p.fdb = fd /\ Above(a, g) \subseteq p.fdb.index
        BY <1>2, <2>5, <2>7, <2>9 DEF SameStore, Above
      <3>6. /\ Safe(m) /\ StillWell(m.fdb, fd) /\ m.blog = p.blog /\ m.mode = p.mode
            /\ m.head = IF a = g THEN p.head ELSE g
            /\ IF a = g THEN m = p ELSE g \in m.fdb.valid
        BY <2>7, <2>8, <2>9, <3>4, <3>5, ApplyBlocksSafe
      <3>7. PICK w : w = ForgetFork(m, f)
        OBVIOUS
      <3>8. /\ Safe(w) /\ w.mode = m.mode /\ w.blog = m.blog /\ w.head = m.head
            /\ w.fdb.root = m.fdb.root /\ w.fdb.head = m.fdb.head /\ w.outcome # "ok"
            /\ SameState(w, m) /\ w.fdb.index \subseteq m.fdb.index
        <4>1. f \in m.fdb.index
          BY <3>3, <3>6 DEF StillWell
        <4> QED BY <3>6, <3>7, <4>1, ForgetForkSafe
      <3>9. w.fdb.root = fd.root /\ w.blog = c.blog /\ w.mode = c.mode
        BY <2>7, <3>6, <3>8 DEF SameStore, StillWell
      <3>10. r = RestoreBranch(w, a, Above(a, c.head), fails)
        BY <2>7, <2>10, <2>12, <3>1, <3>3, <3>4, <3>7 DEF TryBranch
      <3>11. ASSUME NEW x \in Block, a \in Anc[x] PROVE Num[fd.root] <= Num[x]
        <4>1. fd.root \in Anc[x]
          BY <2>4, <3>11, AncTransitive
        <4> QED BY <3>11, <4>1, AncNumbers
      <3>12. PICK q : q = PopTo(w, a)
        OBVIOUS
      <3>13. Safe(q) /\ SameStore(q, w) /\ q.head = a
        BY <2>4, <3>8, <3>12, PopToSafe
      <3>14. ASSUME Fits(c), m.fdb.head = fd.root
             PROVE  m = c /\ Above(a, c.head) = {}
        <4>1. a = g /\ m = p
          <5>1. SUFFICES ASSUME g \in m.fdb.valid PROVE FALSE
            BY <3>6
          <5>2. FdbWell(m.fdb) /\ m.fdb.root = fd.root
            BY <3>6 DEF StillWell
          <5>3. g \in m.fdb.index /\ ~FirstPreferred(g, m.fdb.head)
            BY <5>1, <5>2 DEF FdbWell, BestHead
          <5> QED BY <3>14, <5>2, <5>3, IndexAboveRoot DEF FdbWell
        <4>2. c.head = fd.root \/ Parked(c)
          BY <1>2, <2>7, <3>14, <4>1 DEF Fits, SameStore
        <4>3. c.head \in Anc[t]
          <5>1. CASE c.head = fd.root
            BY <1>3, <5>1
          <5>2. CASE c.head # fd.root
            <6>1. Num[fd.root] < Num[c.head] /\ Num[fd.root] \in Nat /\ Num[c.head] \in Nat
              BY <1>3, <2>1, <5>2, IndexAboveRoot, Numbers DEF FdbWell
            <6>2. c.sparse
              BY <1>2, <4>2, <5>2, <6>1 DEF Parked
            <6> QED BY <1>5, <6>2
          <5> QED BY <5>1, <5>2
        <4>4. a = c.head
          <5>1. c.head \in Anc[a]
            BY <1>3, <2>4, <4>3, AncBasic
          <5>2. Num[c.head] <= Num[a] /\ Num[a] \in Nat /\ Num[c.head] \in Nat
            BY <1>3, <2>4, <5>1, AncNumbers, Numbers
          <5> QED BY <1>3, <2>4, <5>2, AncNumbers
        <4> QED BY <2>6, <4>1, <4>4 DEF PopTo, Above
      <3>15. ASSUME r.fdb = w.fdb, m.fdb.head # fd.root PROVE Settles(r, c, t)
        BY <3>6, <3>8, <3>15 DEF Settles, Settled, StillWell
      <3>16. CASE w.outcome = "assert"
        <4>1. r = w
          BY <3>10, <3>16 DEF RestoreBranch
        <4>2. Num[fd.root] <= Num[w.head]
          BY <2>4, <2>7, <2>8, <2>9, <3>6, <3>8, <3>11, AncBasic
        <4>3. ASSUME t = Genesis \/ Prev[t] # c.head, Fits(c) PROVE Settles(r, c, t)
          <5>1. CASE m.fdb.head = fd.root
            <6>1. m = c
              BY <3>14, <4>3, <5>1
            <6>2. Stays(r, c, t)
              BY <3>8, <4>1, <4>3, <6>1 DEF Stays
            <6> QED BY <6>2 DEF Settles
          <5> QED BY <3>15, <4>1, <5>1
        <4> QED BY <1>1, <1>3, <3>8, <3>9, <4>1, <4>2, <4>3 DEF Grown, RootBelow
      <3>17. CASE w.outcome # "assert" /\ Above(a, c.head) = {}
        <4>1. r = Ended(q, "empty_back")
          BY <3>10, <3>12, <3>17 DEF RestoreBranch
        <4>2. Safe(r) /\ SameStore(r, q) /\ r.head = q.head /\ r.outcome = "empty_back"
          BY <3>13, <4>1, EndedSafe
        <4>3. Num[fd.root] <= Num[a]
          BY <2>4, <3>11, AncBasic
        <4>4. Settles(r, c, t)
          BY <4>2 DEF Settles
        <4> QED BY <1>1, <1>3, <3>9, <3>13, <4>2, <4>3, <4>4 DEF Grown, RootBelow, SameStore
      <3>18. CASE w.outcome # "assert" /\ Above(a, c.head) # {}
        <4>1. r = MovedTo(q, Applied(q, Above(a, c.head), fails))
          BY <3>10, <3>12, <3>18 DEF RestoreBranch, Reapply
        <4>2. PICK v \in Anc[c.head] :
                 a \in Anc[v] /\ Applied(q, Above(a, c.head), fails) = Above(a, v)
          BY <1>3, <2>4, AppliedPrefix
        <4>3. /\ v \in Block /\ Above(a, v) \in SUBSET Block
              /\ a # v => Above(a, v) # {} /\ Newest(Above(a, v)) = v
              /\ a = v => Above(a, v) = {}
          BY <1>3, <4>2, AncBasic, AboveIs DEF Above
        <4>4. Safe(r) /\ SameStore(r, q) /\ r.head = v
          BY <3>13, <4>1, <4>2, <4>3, MovedToSafe
        <4>5. Num[fd.root] <= Num[v]
          BY <3>11, <4>2, <4>3
        <4>6. ASSUME Fits(c) PROVE Settles(r, c, t)
          BY <3>13, <3>14, <3>15, <3>18, <4>4, <4>6 DEF SameStore
        <4> QED BY <1>1, <1>3, <3>9, <3>13, <4>4, <4>5, <4>6 DEF Grown, RootBelow, SameStore
      <3> QED BY <3>16, <3>17, <3>18
    <2> QED BY <2>11, <2>12
  <1> QED BY <1>4, <1>5

\* maybe_switch_forks to a best known block.
LEMMA MaybeSwitchForksSafe ==
    ASSUME NEW c, Safe(c), RootBelow(c), ~Irreversible(c), NEW t \in c.fdb.index \cup {c.fdb.root},
           Top(t, c.fdb), NEW fails, NEW room \in Nat
    PROVE  LET r == MaybeSwitchForks(c, t, fails, room)
           IN  /\ Grown(r, c) /\ RootBelow(r)
               /\ Fits(c) => Settles(r, c, t)
  <1>1. /\ c.head \in Block /\ c.fdb.root \in Block /\ t \in Block
        /\ c.blog \in Anc[c.blog]
    BY SafeFacts
  <1>2. CASE t = c.head
    <2>1. Settles(c, c, t)
      BY <1>2 DEF Settles, Stays, SameState
    <2> QED BY <1>1, <1>2, <2>1 DEF MaybeSwitchForks, Grown
  <1>3. CASE t # c.head /\ t # Genesis /\ Prev[t] = c.head
    <2>1. t # c.fdb.root
      <3>1. Num[t] = Num[c.head] + 1 /\ Num[c.head] \in Nat /\ Num[c.fdb.root] \in Nat
        BY <1>1, <1>3, BlockTreeAssumption
      <3> QED BY <3>1 DEF RootBelow
    <2>2. PICK r : r = ExtendHead(c, t, fails, room)
      OBVIOUS
    <2>3. Grown(r, c) /\ RootBelow(r) /\ Settles(r, c, t)
      BY <1>3, <2>1, <2>2, ExtendHeadSafe
    <2> QED BY <1>3, <2>2, <2>3 DEF MaybeSwitchForks
  <1>4. CASE t # c.head /\ ~(t # Genesis /\ Prev[t] = c.head)
    <2>1. PICK r : r = SwitchForks(c, t, fails, room)
      OBVIOUS
    <2>2. Grown(r, c) /\ RootBelow(r) /\ (Fits(c) => Settles(r, c, t))
      BY <1>4, <2>1, SwitchForksSafe
    <2> QED BY <1>4, <2>1, <2>2 DEF MaybeSwitchForks
  <1> QED BY <1>2, <1>3, <1>4

\* push_block, whatever the state database holds and whichever blocks fail on it.
LEMMA PushBlockSafe ==
    ASSUME NEW c, Safe(c), RootBelow(c), NEW b \in Block, CanAdd(c.fdb, b),
           NEW fails, NEW room \in Nat
    PROVE  LET r == PushBlock(c, b, fails, room)
           IN  /\ Grown(r, c) /\ RootBelow(r)
               /\ Settled(c) /\ r.outcome # "empty_back" => Settled(r)
  <1>1. PICK new : new = Add(c.fdb, b)
    OBVIOUS
  <1>2. /\ FdbWell(new) /\ new.root = c.fdb.root /\ new.index = c.fdb.index \cup {b}
        /\ new.valid = c.fdb.valid
    BY <1>1, SafeFacts, AddWell
  <1>3. PICK m : m = [c EXCEPT !.fdb = new, !.outcome = "ok"]
    OBVIOUS
  <1>4. /\ Shape(m) /\ m.fdb = new /\ m.blog = c.blog /\ m.head = c.head /\ m.mode = c.mode
        /\ SameState(m, c)
    BY <1>3, Zenon DEF Safe, Shape, SameState
  <1>5. Safe(m) /\ RootBelow(m)
    BY <1>2, <1>4 DEF Safe, RootBelow
  <1>6. PICK r : r = FollowPendingHead(m, fails, room)
    OBVIOUS
  <1>7. PushBlock(c, b, fails, room) = r
    <2>1. m = [c EXCEPT !.fdb = Add(c.fdb, b), !.outcome = "ok"]
      BY <1>1, <1>3, Zenon
    <2> QED BY <1>6, <2>1, Zenon DEF PushBlock
  <1>8. CASE Irreversible(m)
    <2>1. r = LogIrreversible(m, fails, room)
      BY <1>6, <1>8 DEF FollowPendingHead
    <2>2. Grown(r, m) /\ RootBelow(r)
      BY <1>5, <1>8, <2>1, LogSafe
    <2>3. Settled(r)
      BY <1>8, <2>2 DEF Grown, Settled, Irreversible
    <2> QED BY <1>4, <1>7, <2>2, <2>3 DEF Grown
  <1>9. CASE ~Irreversible(m)
    <2>1. PICK t : t = PendingHead(m.fdb)
      OBVIOUS
    <2>2. r = MaybeSwitchForks(m, t, fails, room)
      BY <1>6, <1>9, <2>1 DEF FollowPendingHead
    <2>3. t \in m.fdb.index \cup {m.fdb.root} /\ Top(t, m.fdb)
      BY <1>2, <1>4, <2>1, PendingHeadIs, PendingHeadBest DEF Top
    <2>4. Grown(r, m) /\ RootBelow(r) /\ (Fits(m) => Settles(r, m, t))
      BY <1>5, <1>9, <2>2, <2>3, MaybeSwitchForksSafe
    <2>5. ASSUME m.fdb.head = m.fdb.root PROVE c.fdb.head = c.fdb.root
      BY <1>2, <1>4, <2>5, SafeFacts, RootHeadMeansNoneValid DEF FdbWell, BestHead
    <2>6. ASSUME Settled(c), r.outcome # "empty_back" PROVE Settled(r)
      <3>1. m.fdb.head = m.fdb.root =>
               IF m.head = m.fdb.root THEN c.fdb.index = {} ELSE Parked(m)
        BY <1>2, <1>4, <1>9, <2>5, <2>6 DEF Settled, Parked, SameState, Irreversible
      <3>2. Settled(r) \/ Stays(r, m, t)
        BY <2>4, <2>6, <3>1 DEF Fits, Settles
      <3>3. SUFFICES ASSUME Stays(r, m, t), m.fdb.head = m.fdb.root
                     PROVE  IF r.head = m.fdb.root THEN r.fdb.index = {} ELSE Parked(r)
        BY <3>2 DEF Settled, Stays
      <3>4. CASE m.head # m.fdb.root
        BY <3>1, <3>3, <3>4 DEF Stays, SameState, Parked
      <3>5. CASE m.head = m.fdb.root
        <4>1. m.fdb.index = {b} /\ b # Genesis /\ Prev[b] = m.head
          BY <1>2, <1>4, <3>1, <3>3, <3>5 DEF CanAdd, Known
        <4>2. FirstPreferred(b, m.fdb.root) /\ b # m.head
          BY <1>2, <1>4, <3>5, <4>1, IndexAboveRoot DEF FdbWell
        <4>3. t = b
          BY <2>3, <4>1, <4>2 DEF Top
        <4> QED BY <3>3, <3>5, <4>1, <4>2, <4>3 DEF Stays, SameState
      <3> QED BY <3>4, <3>5
    <2> QED BY <1>4, <1>7, <2>4, <2>6 DEF Grown
  <1> QED BY <1>8, <1>9

-----------------------------------------------------------------------------
(* Starting *)

\* The root of the fork database read from its file follows the replayed log.
LEMMA CatchUpSafe ==
    ASSUME NEW c, Safe(c), c.head = c.blog, NEW opened
    PROVE  LET r == CaughtUp(c, opened)
           IN  /\ Safe(r) /\ r.blog = c.blog /\ r.mode = c.mode /\ r.head = c.head
               /\ SameState(r, c)
               /\ opened /\ r.outcome = "ok" => Num[r.fdb.root] = Num[r.head]
  <1>1. PICK r : r = CaughtUp(c, opened)
    OBVIOUS
  <1>2. PICK fd : fd = c.fdb
    OBVIOUS
  <1>3. PICK h \in Block : h = c.head /\ h = c.blog
    BY SafeFacts
  <1>4. FdbWell(fd) /\ fd \in ForkDb /\ Rooted(fd) /\ fd.root \in Block
    BY <1>2, SafeFacts
  <1>5. PICK top : top = PendingHead(fd)
    OBVIOUS
  <1>6. top \in fd.index \cup {fd.root} /\ top \in Block /\ fd.root \in Anc[top]
    BY <1>4, <1>5, PendingHeadIs, KnownDescends
  <1>7. Num[top] \in Nat /\ Num[h] \in Nat /\ Num[fd.root] \in Nat
    BY <1>3, <1>4, <1>6, Numbers
  <1>8. CASE r = c /\ (~opened \/ Num[h] = Num[fd.root])
    BY <1>1, <1>2, <1>3, <1>8 DEF SameState
  <1>9. ASSUME NEW new, FdbWell(new), Num[new.root] = Num[h], r = [c EXCEPT !.fdb = new]
        PROVE  /\ Safe(r) /\ r.blog = c.blog /\ r.mode = c.mode /\ r.head = c.head
               /\ SameState(r, c) /\ Num[r.fdb.root] = Num[r.head]
    <2>1. /\ Shape(r) /\ r.fdb = new /\ r.blog = c.blog /\ r.head = c.head /\ r.mode = c.mode
          /\ SameState(r, c)
      BY <1>9, Zenon DEF Safe, Shape, SameState
    <2> QED BY <1>3, <1>7, <1>9, <2>1 DEF Safe
  <1>10. CASE opened /\ (Num[top] < Num[h] \/ Num[h] < Num[fd.root])
    <2>1. r = [c EXCEPT !.fdb = ResetTo(h)]
      BY <1>1, <1>2, <1>3, <1>5, <1>10 DEF CaughtUp, CatchUpRoot
    <2>2. FdbWell(ResetTo(h)) /\ ResetTo(h).root = h
      BY <1>3, ResetOK, OKIsWell DEF ResetTo
    <2> QED BY <1>1, <1>7, <1>9, <2>1, <2>2
  <1>11. CASE opened /\ ~(Num[top] < Num[h] \/ Num[h] < Num[fd.root]) /\ Num[h] # Num[fd.root]
    <2>1. PICK b : b = OnBranch(top, Num[h])
      OBVIOUS
    <2>2. PICK new : new = MarkValid(fd, b)
      OBVIOUS
    <2>3. r = AdvanceTo(c, new, b)
      BY <1>1, <1>2, <1>3, <1>5, <1>11, <2>1, <2>2 DEF CaughtUp, CatchUpRoot
    <2>4. PICK x \in Anc[top] : Num[x] = Num[h] /\ fd.root \in Anc[x]
      BY <1>6, <1>7, <1>11, NumberOnBranch
    <2>5. b = x /\ x \in Block
      BY <1>6, <2>1, <2>4, OnBranchIs, AncBasic
    <2>6. b \in fd.index
      <3>1. x # fd.root
        BY <1>11, <2>4
      <3>2. top # fd.root
        BY <1>6, <1>7, <1>11, <2>4, <3>1, AncNumbers
      <3> QED BY <1>4, <1>6, <2>4, <2>5, <3>1, <3>2, BranchInIndex
    <2>7. FdbWell(new) /\ new.root = fd.root /\ new.index = fd.index
      BY <1>4, <2>2, <2>6, MarkValidWell
    <2>8. CASE CanAdvanceRoot(new, b)
      <3>1. PICK adv : adv = AdvanceRoot(new, b)
        OBVIOUS
      <3>2. FdbWell(adv) /\ adv.root = b
        BY <2>6, <2>7, <2>8, <3>1, AdvanceRootWell
      <3>3. r = [c EXCEPT !.fdb = adv] /\ Num[adv.root] = Num[h]
        BY <1>7, <2>3, <2>4, <2>5, <2>8, <3>1, <3>2 DEF AdvanceTo
      <3> QED BY <1>1, <1>9, <3>2, <3>3
    <2>9. CASE ~CanAdvanceRoot(new, b)
      <3>1. PICK m : m = [c EXCEPT !.fdb = new]
        OBVIOUS
      <3>2. /\ Shape(m) /\ m.fdb = new /\ m.blog = c.blog /\ m.head = c.head /\ m.mode = c.mode
            /\ SameState(m, c)
        BY <3>1, Zenon DEF Safe, Shape, SameState
      <3>3. Safe(m)
        BY <1>2, <2>7, <3>2 DEF Safe
      <3>4. r = Ended(m, "threw")
        BY <2>3, <2>9, <3>1 DEF AdvanceTo
      <3>5. Safe(r) /\ SameStore(r, m) /\ SameState(r, m) /\ r.outcome = "threw"
        BY <3>3, <3>4, EndedSafe
      <3> QED BY <1>1, <3>2, <3>5 DEF SameStore, SameState
    <2> QED BY <2>8, <2>9
  <1>12. CASE ~opened \/ Num[h] = Num[fd.root]
    <2>1. CASE r # c
      <3>1. opened /\ Num[h] = Num[fd.root]
        BY <1>1, <1>12, <2>1 DEF CaughtUp
      <3>2. CASE Num[top] < Num[h]
        BY <3>1, <3>2, <1>10
      <3>3. CASE ~(Num[top] < Num[h])
        BY <1>1, <1>2, <1>3, <1>5, <1>7, <2>1, <3>1, <3>3 DEF CaughtUp, CatchUpRoot
      <3> QED BY <3>2, <3>3
    <2> QED BY <1>8, <1>12, <2>1
  <1> QED BY <1>10, <1>11, <1>12

\* replay, first part.
LEMMA ReplayLogSafe ==
    ASSUME NEW c, Safe(c), NEW opened, NEW fails
    PROVE  LET r == ReplayLog(c, opened, fails)
           IN  /\ Safe(r) /\ r.blog = c.blog /\ r.mode = c.mode
               /\ r.outcome = "ok" => Num[r.blog] <= Num[r.head]
               /\ Num[c.head] <= Num[c.blog] => Num[r.head] <= Num[r.blog]
               /\ opened /\ r.outcome = "ok" /\ Fits(c) /\ c.db \in {c.head, Mixed} => Fits(r)
  <1>1. PICK r : r = ReplayLog(c, opened, fails)
    OBVIOUS
  <1>2. c.head \in Block /\ c.blog \in Block /\ Num[c.head] \in Nat /\ Num[c.blog] \in Nat
    BY SafeFacts, Numbers
  <1>3. CASE Num[c.head] >= Num[c.blog]
    <2>1. r = c
      BY <1>1, <1>3, Zenon DEF ReplayLog
    <2> QED BY <1>1, <1>2, <1>3, <2>1
  <1>4. CASE /\ ~(Num[c.head] >= Num[c.blog])
             /\ c.head \notin Anc[c.blog] \/ (Anc[c.blog] \ Anc[c.head]) \cap fails # {}
    <2>1. r = Ended(c, "threw")
      BY <1>1, <1>4, Zenon DEF ReplayLog
    <2>2. Safe(r) /\ SameStore(r, c) /\ r.head = c.head /\ r.outcome = "threw"
      BY <2>1, EndedSafe
    <2> QED BY <1>1, <2>2 DEF SameStore
  <1>5. CASE /\ ~(Num[c.head] >= Num[c.blog])
             /\ ~(c.head \notin Anc[c.blog] \/ (Anc[c.blog] \ Anc[c.head]) \cap fails # {})
    <2>1. PICK S : S = Anc[c.blog] \ Anc[c.head]
      OBVIOUS
    <2>2. S \in SUBSET Block /\ S # {} /\ Newest(S) = c.blog
      <3>1. S = Above(c.head, c.blog) /\ c.head \in Anc[c.blog] /\ c.head # c.blog
        BY <1>2, <1>5, <2>1 DEF Above
      <3> QED BY <1>2, <3>1, AboveIs
    <2>3. PICK m : m = MovedTo(c, S)
      OBVIOUS
    <2>4. Safe(m) /\ SameStore(m, c) /\ m.head = c.blog /\ m.db \in {c.blog, Mixed}
      BY <2>2, <2>3, MovedToSafe
    <2>5. PICK k : k = [m EXCEPT !.rev = Num[c.blog], !.base = Num[c.blog]]
      OBVIOUS
    <2>6. Shape(k) /\ SameStore(k, m) /\ k.head = m.head /\ k.db = m.db
      BY <2>4, <2>5, Zenon DEF Safe, Shape, SameStore
    <2>7. Safe(k) /\ k.head = k.blog /\ k.blog = c.blog /\ k.mode = c.mode
      BY <2>4, <2>6 DEF Safe, SameStore
    <2>8. r = CaughtUp(k, opened)
      BY <1>1, <1>5, <2>1, <2>3, <2>5, Zenon DEF ReplayLog
    <2>9. /\ Safe(r) /\ r.blog = k.blog /\ r.mode = k.mode /\ r.head = k.head
          /\ SameState(r, k) /\ (opened /\ r.outcome = "ok" => Num[r.fdb.root] = Num[r.head])
      BY <2>7, <2>8, CatchUpSafe
    <2>10. ASSUME opened, r.outcome = "ok" PROVE Fits(r)
      <3>1. r.db \in {r.head, Mixed}
        BY <2>4, <2>6, <2>7, <2>9 DEF SameState
      <3>2. Num[r.head] <= Num[r.fdb.root]
        BY <1>2, <2>7, <2>9, <2>10
      <3> QED BY <3>1, <3>2 DEF Fits, Parked
    <2> QED BY <1>1, <1>2, <2>7, <2>9, <2>10
  <1> QED BY <1>3, <1>4, <1>5

\* f is the recursive function of ReplayReversible, up to hi.
IsReplay(f, c, fails, room, hi) ==
    f = [n \in Num[c.head] .. hi |->
            IF n = Num[c.head] \/ f[n - 1].outcome # "ok"
            THEN IF n = Num[c.head] THEN c ELSE f[n - 1]
            ELSE ReplayPushBlock(f[n - 1], OnBranch(c.fdb.head, n), fails, room)]

\* What one more block makes of g.
Replayed(g, c, n, fails, room) ==
    IF g.outcome # "ok" THEN g ELSE ReplayPushBlock(g, OnBranch(c.fdb.head, n), fails, room)

\* There is such a function.
LEMMA ReplayExists ==
    ASSUME NEW c, Num[c.head] \in Nat, NEW fails, NEW room, NEW hi \in Nat, Num[c.head] <= hi
    PROVE  \E f : IsReplay(f, c, fails, room, hi)
  <1>1. PICK from \in Nat : from = Num[c.head]
    OBVIOUS
  <1> DEFINE Fails == {m \in Nat : from <= m /\ ~\E f : IsReplay(f, c, fails, room, m)}
             Step(g, n) == Replayed(g, c, n, fails, room)
  <1>2. SUFFICES ASSUME hi \in Fails PROVE FALSE
    BY <1>1
  <1>3. PICK m \in Fails : \A x \in Fails : m <= x
    <2> HIDE DEF Fails
    <2>1. Fails \in SUBSET Nat
      BY DEF Fails
    <2> QED BY <1>2, <2>1, LeastNatural
  <1>4. m \in Nat /\ from <= m /\ ~\E f : IsReplay(f, c, fails, room, m)
    BY <1>3
  <1>5. ASSUME NEW f, f = [n \in from .. m |-> IF n = from THEN c ELSE Step(f[n - 1], n)]
        PROVE  IsReplay(f, c, fails, room, m)
    <2>1. \A n \in from .. m :
             (IF n = from THEN c ELSE Step(f[n - 1], n))
             = (IF n = from \/ f[n - 1].outcome # "ok"
                THEN IF n = from THEN c ELSE f[n - 1]
                ELSE ReplayPushBlock(f[n - 1], OnBranch(c.fdb.head, n), fails, room))
      BY DEF Replayed
    <2> HIDE DEF Step
    <2> QED BY <1>1, <1>5, <2>1 DEF IsReplay
  <1> HIDE DEF Step
  <1>6. CASE m = from
    <2>1. PICK f : f = [n \in from .. m |-> c]
      OBVIOUS
    <2>2. \A n \in from .. m : n = from
      BY <1>6
    <2>3. f = [n \in from .. m |-> IF n = from THEN c ELSE Step(f[n - 1], n)]
      BY <2>1, <2>2
    <2> QED BY <1>4, <1>5, <2>3
  <1>7. CASE m # from
    <2>1. m - 1 \in Nat /\ from <= m - 1 /\ m - 1 \notin Fails
      BY <1>3, <1>4, <1>7
    <2>2. PICK g : IsReplay(g, c, fails, room, m - 1)
      BY <2>1
    <2>3. \A n \in from .. m - 1 : g[n] = IF n = from THEN c ELSE Step(g[n - 1], n)
      BY <1>1, <2>2 DEF IsReplay, Step, Replayed
    <2>4. PICK f : f = [n \in from .. m |-> IF n <= m - 1 THEN g[n] ELSE Step(g[m - 1], m)]
      OBVIOUS
    <2>5. ASSUME NEW n \in from .. m
          PROVE  f[n] = IF n = from THEN c ELSE Step(f[n - 1], n)
      <3>1. CASE n <= m - 1
        <4>1. n \in from .. m - 1 /\ f[n] = g[n]
          BY <3>1, <2>4
        <4>2. n # from => f[n - 1] = g[n - 1]
          BY <3>1, <4>1, <2>4
        <4> QED BY <4>1, <4>2, <2>3
      <3>2. CASE ~(n <= m - 1)
        <4>1. n = m /\ n # from /\ m - 1 \in from .. m /\ m - 1 <= m - 1
          BY <3>2, <2>1, <1>4
        <4>2. f[n] = Step(g[m - 1], m) /\ f[m - 1] = g[m - 1]
          BY <3>2, <4>1, <2>4
        <4> QED BY <4>1, <4>2
      <3> QED BY <3>1, <3>2
    <2>6. f = [n \in from .. m |-> IF n = from THEN c ELSE Step(f[n - 1], n)]
      BY <2>4, <2>5
    <2> QED BY <1>4, <1>5, <2>6
  <1> QED BY <1>6, <1>7

\* One reversible block of the branch of the fork database's head is replayed.
LEMMA ReplayPushSafe ==
    ASSUME NEW g, Safe(g), NEW n \in Nat, Num[Genesis] < n, n <= Num[g.fdb.head],
           NEW fails, NEW room \in Nat
    PROVE  LET b == OnBranch(g.fdb.head, n)
               r == ReplayPushBlock(g, b, fails, room)
           IN  /\ Grown(r, g)
               /\ r.outcome = "ok" => r.fdb.head = g.fdb.head /\ r.head = b
  <1>1. PICK b : b = OnBranch(g.fdb.head, n)
    OBVIOUS
  <1>2. PICK r : r = ReplayPushBlock(g, b, fails, room)
    OBVIOUS
  <1>3. PICK H \in Block : H = g.fdb.head
    BY SafeFacts
  <1>4. PICK fd : fd = g.fdb
    OBVIOUS
  <1>5. /\ FdbWell(fd) /\ fd \in ForkDb /\ Rooted(fd) /\ fd.root \in Block
        /\ H \in fd.index \cup {fd.root} /\ g.blog \in Anc[g.blog]
    BY <1>3, <1>4, SafeFacts
  <1>6. CASE Prev[b] # g.head \/ ~Known(fd, Prev[b]) \/ Irreversible(g)
    <2>1. r = Ended(g, "threw")
      BY <1>2, <1>4, <1>6 DEF ReplayPushBlock
    <2>2. Safe(r) /\ SameStore(r, g) /\ r.outcome = "threw"
      BY <2>1, EndedSafe
    <2> QED BY <1>1, <1>2, <1>5, <2>2 DEF Grown, SameStore
  <1>7. CASE ~(Prev[b] # g.head \/ ~Known(fd, Prev[b]) \/ Irreversible(g))
    <2>1. Genesis \in Anc[H] /\ Num[Genesis] \in Nat
      BY GenesisFirst, Numbers, BlockTreeAssumption
    <2>2. PICK x \in Anc[H] : Num[x] = n
      BY <1>3, <2>1, NumberOnBranch
    <2>3. b = x /\ b \in Block \ {Genesis} /\ b \in Anc[H]
      BY <1>1, <1>3, <2>1, <2>2, OnBranchIs, AncBasic
    <2>4. Prev[b] \in fd.index \cup {fd.root} /\ fd.root \in Anc[Prev[b]]
      <3>1. Prev[b] \in fd.index \cup {fd.root}
        BY <1>7 DEF Known
      <3> QED BY <1>5, <3>1, KnownDescends
    <2>5. fd.root \in Anc[b] /\ b # fd.root
      <3>1. Anc[b] = {b} \cup Anc[Prev[b]] /\ Prev[b] \in Block
        BY <2>3, AncStep
      <3>2. Num[b] = Num[Prev[b]] + 1 /\ Num[Prev[b]] \in Nat
        BY <2>3, <3>1, BlockTreeAssumption
      <3>3. Num[fd.root] <= Num[Prev[b]] /\ Num[fd.root] \in Nat
        BY <1>5, <2>4, <3>1, AncNumbers, Numbers
      <3> QED BY <2>4, <3>1, <3>2, <3>3
    <2>6. b \in fd.index
      <3>1. H # fd.root
        <4>1. SUFFICES ASSUME H = fd.root PROVE FALSE
          OBVIOUS
        <4>2. Num[b] < Num[fd.root] /\ Num[fd.root] < Num[b] /\ Num[b] \in Nat /\ Num[fd.root] \in Nat
          BY <1>5, <2>3, <2>5, <4>1, AncNumbers, Numbers
        <4> QED BY <4>2
      <3> QED BY <1>5, <2>3, <2>5, <3>1, BranchInIndex
    <2>7. r = ExtendHead(g, b, fails, room)
      BY <1>2, <1>4, <1>7 DEF ReplayPushBlock
    <2>8. b \in g.fdb.index /\ Prev[b] = g.head /\ ~Irreversible(g) /\ b \in Anc[g.fdb.head]
      BY <1>3, <1>4, <1>7, <2>3, <2>6
    <2>9. Grown(r, g) /\ (r.outcome = "ok" => r.fdb.head = g.fdb.head /\ r.head = b)
      BY <2>7, <2>8, ExtendHeadSafe
    <2> QED BY <1>1, <1>2, <2>9
  <1> QED BY <1>6, <1>7

\* What grows twice has grown.
LEMMA GrownTransitive ==
    ASSUME NEW a, NEW b, NEW c, Grown(b, a), Grown(c, b)
    PROVE  Grown(c, a)
  BY AncTransitive DEF Grown, Safe

\* replay, second part: the root may run ahead of the head while the branch is replayed,
\* but not at its end.
LEMMA ReplayReversibleSafe ==
    ASSUME NEW c, Safe(c), RootBelow(c), NEW fails, NEW room \in Nat
    PROVE  LET r == ReplayReversible(c, fails, room)
           IN  /\ Grown(r, c) /\ (r.outcome = "ok" => RootBelow(r))
               /\ r.outcome = "ok" => r = c \/ r.head = r.fdb.head
               /\ Num[c.fdb.head] <= Num[c.head] => r = c
  <1>1. PICK H \in Block : H = c.fdb.head
    BY SafeFacts
  <1>2. PICK from \in Nat : from = Num[c.head] /\ Num[Genesis] <= from /\ from <= MaxNum
    <2>1. c.head \in Block
      BY SafeFacts
    <2>2. Num[Genesis] <= Num[c.head]
      BY <2>1, GenesisFirst, AncNumbers
    <2> QED BY <2>1, <2>2, Numbers, MaxNumIs
  <1>3. Num[H] \in Nat /\ Num[H] <= MaxNum /\ MaxNum \in Nat /\ Num[Genesis] \in Nat
    BY <1>1, Numbers, MaxNumIs, BlockTreeAssumption
  <1>4. PICK r : r = ReplayReversible(c, fails, room)
    OBVIOUS
  <1>5. PICK f : IsReplay(f, c, fails, room, MaxNum) /\ r = f[AtLeast(from, Num[H])]
    <2>1. r = (CHOOSE f : IsReplay(f, c, fails, room, MaxNum))[AtLeast(Num[c.head], Num[c.fdb.head])]
      BY <1>4 DEF ReplayReversible, IsReplay
    <2>2. \E f : IsReplay(f, c, fails, room, MaxNum)
      BY <1>2, <1>3, ReplayExists
    <2> QED BY <1>1, <1>2, <2>1, <2>2
  <1>6. ASSUME NEW n \in from .. MaxNum
        PROVE  f[n] = IF n = from THEN c ELSE Replayed(f[n - 1], c, n, fails, room)
    BY <1>2, <1>5 DEF IsReplay, Replayed
  <1> DEFINE Fine(g, n) ==
                /\ Grown(g, c)
                /\ g.outcome = "ok" => g.fdb.head = H /\ (n # from => g.head = OnBranch(H, n))
             Fails == {k \in Nat : from <= k /\ k <= Num[H] /\ ~Fine(f[k], k)}
  <1>7. Fails = {}
    <2>1. SUFFICES ASSUME Fails # {} PROVE FALSE
      OBVIOUS
    <2>2. PICK k \in Fails : \A m \in Fails : k <= m
      <3> HIDE DEF Fails
      <3>1. Fails \in SUBSET Nat
        BY DEF Fails
      <3> QED BY <2>1, <3>1, LeastNatural
    <2>3. k \in Nat /\ from <= k /\ k <= Num[H] /\ k \in from .. MaxNum /\ ~Fine(f[k], k)
      BY <1>3, <2>2
    <2>4. CASE k = from
      <3>1. f[k] = c
        BY <1>6, <2>3, <2>4
      <3>2. Grown(c, c)
        BY SafeFacts DEF Grown
      <3> QED BY <1>1, <2>3, <2>4, <3>1, <3>2
    <2>5. CASE k # from
      <3>1. PICK j \in Nat : j = k - 1 /\ from <= j /\ j <= Num[H] /\ j \notin Fails
        BY <1>3, <2>2, <2>3, <2>5
      <3>2. PICK g : g = f[j]
        OBVIOUS
      <3>3. Fine(g, j) /\ f[k] = Replayed(g, c, k, fails, room)
        BY <1>6, <2>3, <2>5, <3>1, <3>2
      <3>4. CASE g.outcome # "ok"
        <4>1. f[k] = g
          BY <3>3, <3>4 DEF Replayed
        <4> QED BY <2>3, <3>3, <3>4, <4>1
      <3>5. CASE g.outcome = "ok"
        <4>1. f[k] = ReplayPushBlock(g, OnBranch(H, k), fails, room)
          BY <1>1, <3>3, <3>5 DEF Replayed
        <4>2. g.fdb.head = H /\ Safe(g) /\ Grown(g, c)
          BY <3>3, <3>5 DEF Grown
        <4>3. Num[Genesis] < k /\ k <= Num[g.fdb.head]
          BY <1>2, <1>3, <2>3, <2>5, <4>2
        <4>4. PICK q : q = f[k]
          OBVIOUS
        <4>5. q = ReplayPushBlock(g, OnBranch(g.fdb.head, k), fails, room)
          BY <4>1, <4>2, <4>4
        <4>6. Grown(q, g) /\ (q.outcome = "ok" => q.fdb.head = g.fdb.head /\ q.head = OnBranch(g.fdb.head, k))
          BY <2>3, <4>2, <4>3, <4>5, ReplayPushSafe
        <4>7. Grown(q, c)
          BY <4>2, <4>6, GrownTransitive
        <4>8. Fine(q, k)
          BY <4>2, <4>6, <4>7
        <4> QED BY <2>3, <4>4, <4>8
      <3> QED BY <3>4, <3>5
    <2> QED BY <2>4, <2>5
  <1>8. CASE Num[H] <= from
    <2>1. AtLeast(from, Num[H]) = from
      BY <1>3, <1>8 DEF AtLeast
    <2>2. r = c
      BY <1>2, <1>3, <1>5, <1>6, <2>1
    <2> QED BY <1>4, <2>2, SafeFacts DEF Grown
  <1>9. CASE ~(Num[H] <= from)
    <2>1. AtLeast(from, Num[H]) = Num[H] /\ from <= Num[H] /\ Num[H] # from
      BY <1>3, <1>9 DEF AtLeast
    <2>2. Fine(r, Num[H])
      BY <1>3, <1>5, <1>7, <2>1
    <2>3. OnBranch(H, Num[H]) = H
      BY OnBranchIs, AncBasic
    <2>4. Grown(r, c) /\ (r.outcome = "ok" => r.fdb.head = H /\ r.head = H)
      BY <2>1, <2>2, <2>3
    <2>5. ASSUME r.outcome = "ok" PROVE RootBelow(r)
      <3>1. r.fdb.head \in r.fdb.index \cup {r.fdb.root} /\ FdbWell(r.fdb)
        BY <2>4, SafeFacts DEF Grown
      <3>2. r.fdb.root \in Anc[H] /\ r.head = H
        BY <2>4, <2>5, <3>1, KnownDescends
      <3> QED BY <3>2, AncNumbers DEF RootBelow
    <2> QED BY <1>1, <1>2, <1>4, <1>9, <2>4, <2>5
  <1> QED BY <1>3, <1>8, <1>9

\* init, with any state in the state database.
LEMMA InitControllerSafe ==
    ASSUME NEW c, Safe(c), NEW opened \in BOOLEAN, opened \/ Num[c.head] <= Num[c.blog],
           NEW fails, NEW room \in Nat
    PROVE  LET r == InitController(c, opened, fails, room)
           IN  /\ Grown(r, c) /\ (r.outcome = "ok" => RootBelow(r))
               /\ r.outcome = "ok" /\ Fits(c) /\ c.db \in {c.head, Mixed} => Settled(r)
  <1>1. PICK l : l = ReplayLog(c, opened, fails)
    OBVIOUS
  <1>2. /\ Safe(l) /\ l.blog = c.blog /\ l.mode = c.mode
        /\ l.outcome = "ok" => Num[l.blog] <= Num[l.head]
        /\ Num[c.head] <= Num[c.blog] => Num[l.head] <= Num[l.blog]
        /\ opened /\ l.outcome = "ok" /\ Fits(c) /\ c.db \in {c.head, Mixed} => Fits(l)
    BY <1>1, ReplayLogSafe
  <1>3. /\ l.head \in Block /\ l.blog \in Block /\ l.fdb.root \in Block /\ l.blog \in Anc[l.blog]
        /\ Num[l.head] \in Nat /\ Num[l.blog] \in Nat /\ Num[l.fdb.root] \in Nat
    BY <1>2, SafeFacts, Numbers
  <1>4. PICK k : k = ReplayForkDb(l, opened, fails, room)
    OBVIOUS
  <1>5. /\ Grown(k, l) /\ (k.outcome = "ok" => RootBelow(k))
        /\ k.outcome = "ok" /\ Fits(c) /\ c.db \in {c.head, Mixed} => Fits(k)
    <2>1. CASE l.outcome # "ok"
      <3>1. k = l
        BY <1>4, <2>1 DEF ReplayForkDb
      <3> QED BY <1>2, <1>3, <2>1, <3>1 DEF Grown
    <2>2. CASE l.outcome = "ok" /\ opened
      <3>1. k = ReplayReversible(l, fails, room)
        BY <1>4, <2>2 DEF ReplayForkDb
      <3>2. RootBelow(l)
        BY <1>2, <1>3, <2>2 DEF Safe, RootBelow
      <3>3. /\ Grown(k, l) /\ (k.outcome = "ok" => RootBelow(k))
            /\ k.outcome = "ok" => k = l \/ k.head = k.fdb.head
        BY <1>2, <3>1, <3>2, ReplayReversibleSafe
      <3>4. k.outcome = "ok" /\ Fits(c) /\ c.db \in {c.head, Mixed} => Fits(k)
        BY <1>2, <2>2, <3>3 DEF Fits
      <3> QED BY <3>3, <3>4
    <2>3. CASE l.outcome = "ok" /\ ~opened
      <3>1. PICK fd : fd = ResetTo(l.head)
        OBVIOUS
      <3>2. FdbWell(fd) /\ fd.root = l.head
        BY <1>3, <3>1, ResetOK, OKIsWell DEF ResetTo
      <3>3. k = [l EXCEPT !.fdb = fd]
        BY <1>4, <2>3, <3>1 DEF ReplayForkDb
      <3>4. Shape(k) /\ k.fdb = fd /\ k.blog = l.blog /\ k.head = l.head /\ k.mode = l.mode
        BY <1>2, <3>3, Zenon DEF Safe, Shape
      <3>5. Fits(k)
        BY <3>2, <3>4 DEF Fits
      <3> QED BY <1>2, <1>3, <2>3, <3>2, <3>4, <3>5 DEF Grown, Safe, RootBelow
    <2> QED BY <2>1, <2>2, <2>3
  <1>6. PICK r : r = ReadyToRun(k, fails, room)
    OBVIOUS
  <1>7. InitController(c, opened, fails, room) = r
    BY <1>1, <1>4, <1>6 DEF InitController
  <1>8. /\ Grown(r, k) /\ (r.outcome = "ok" => RootBelow(r))
        /\ r.outcome = "ok" /\ Fits(c) /\ c.db \in {c.head, Mixed} => Settled(r)
    <2>1. PICK t : t = PendingHead(k.fdb)
      OBVIOUS
    <2>2. t \in k.fdb.index \cup {k.fdb.root} /\ Top(t, k.fdb)
      BY <1>5, <2>1, SafeFacts, PendingHeadIs, PendingHeadBest DEF Top, Grown
    <2>3. CASE ~(k.outcome = "ok" /\ ~Irreversible(k) /\ t # k.fdb.head /\ k.fdb.head = k.fdb.root)
      <3>1. r = k
        BY <1>6, <2>1, <2>3 DEF ReadyToRun, ApplyBestBranch
      <3>2. ASSUME k.outcome = "ok", Fits(k) PROVE Settled(k)
        <4>1. SUFFICES ASSUME k.fdb.head = k.fdb.root, t = k.fdb.root, k.head = k.fdb.root
                       PROVE  k.fdb.index = {}
          BY <2>3, <3>2 DEF Settled, Fits
        <4>2. \A x \in k.fdb.index : FirstPreferred(x, t)
          BY <1>5, <4>1, SafeFacts, IndexAboveRoot DEF Grown
        <4> QED BY <2>2, <4>2 DEF Top
      <3> QED BY <1>5, <3>1, <3>2, SafeFacts DEF Grown
    <2>4. CASE k.outcome = "ok" /\ ~Irreversible(k) /\ t # k.fdb.head /\ k.fdb.head = k.fdb.root
      <3>1. r = MaybeSwitchForks(k, t, fails, room)
        BY <1>6, <2>1, <2>4 DEF ReadyToRun, ApplyBestBranch
      <3>2. Grown(r, k) /\ RootBelow(r) /\ (Fits(k) => Settles(r, k, t))
        BY <1>5, <2>2, <2>4, <3>1, MaybeSwitchForksSafe DEF Grown
      <3>3. ASSUME r.outcome = "ok", Fits(k) PROVE Settled(r)
        <4>1. SUFFICES ASSUME Stays(r, k, t) PROVE Settled(r)
          BY <3>2, <3>3 DEF Settles
        <4>2. k.head # k.fdb.root
          BY <2>4, <3>3, <4>1 DEF Stays
        <4> QED BY <2>4, <3>3, <4>1, <4>2 DEF Stays, SameState, Settled, Fits, Parked
      <3> QED BY <1>5, <2>4, <3>2, <3>3
    <2> QED BY <2>3, <2>4
  <1>9. Grown(k, c)
    BY <1>2, <1>5 DEF Grown
  <1> QED BY <1>7, <1>8, <1>9, GrownTransitive

\* A controller about to be initialised.
LEMMA NewControllerSafe ==
    ASSUME NEW mode, NEW fd, FdbWell(fd), NEW blog \in Block, Num[fd.root] <= Num[blog],
           NEW b \in Block
    PROVE  LET n == NewController(mode, fd, blog, b)
           IN  /\ Safe(n) /\ n.fdb = fd /\ n.blog = blog /\ n.head = b /\ n.db = b
               /\ n.mode = mode /\ n.outcome = "ok" /\ n.sparse
  <1>1. PICK n : n = NewController(mode, fd, blog, b)
    OBVIOUS
  <1>2. /\ n.fdb = fd /\ n.blog = blog /\ n.head = b /\ n.db = b
        /\ n.mode = mode /\ n.outcome = "ok" /\ n.sparse
    BY <1>1 DEF NewController
  <1>3. Shape(n)
    BY <1>1 DEF NewController, Shape
  <1> QED BY <1>1, <1>2, <1>3 DEF Safe

\* startup from a snapshot, of whichever block and state it is.
LEMMA StartFromSnapshotSafe ==
    ASSUME NEW c, Safe(c), NEW s, s.head \in Block, NEW opened \in BOOLEAN, NEW mode,
           NEW fails, NEW room \in Nat
    PROVE  LET r == StartFromSnapshot(c, s, opened, mode, fails, room)
           IN  /\ Safe(r) /\ c.blog \in Anc[r.blog]
               /\ r.outcome = "ok" => RootBelow(r) /\ Settled(r)
  <1>1. PICK n : n = NewController(mode, c.fdb, c.blog, s.head)
    OBVIOUS
  <1>2. Safe(n) /\ n.blog = c.blog /\ n.head = s.head /\ n.db = s.head /\ n.sparse
    BY <1>1, NewControllerSafe, SafeFacts DEF Safe
  <1>3. PICK known : known = IF opened THEN AtLeast(Num[c.blog], Num[c.fdb.head]) ELSE Num[c.blog]
    OBVIOUS
  <1>4. PICK r : r = StartFromSnapshot(c, s, opened, mode, fails, room)
    OBVIOUS
  <1>5. CASE Num[s.head] > known
    <2>1. r = Ended(c, "threw")
      BY <1>3, <1>4, <1>5 DEF StartFromSnapshot
    <2>2. Safe(r) /\ SameStore(r, c) /\ r.outcome = "threw"
      BY <2>1, EndedSafe
    <2> QED BY <1>4, <2>2, SafeFacts DEF SameStore
  <1>6. CASE ~(Num[s.head] > known)
    <2>1. PICK d : d = IF s.state = s.head THEN n.db ELSE Mixed
      OBVIOUS
    <2>2. PICK k : k = [n EXCEPT !.db = d]
      OBVIOUS
    <2>3. Shape(k) /\ SameStore(k, n) /\ k.head = n.head /\ k.db = d /\ k.sparse = n.sparse
      BY <1>2, <2>2, Zenon DEF Safe, Shape, SameStore
    <2>4. Safe(k)
      BY <1>2, <2>3 DEF Safe, SameStore
    <2>5. r = InitController(k, opened, fails, room)
      BY <1>1, <1>3, <1>4, <1>6, <2>1, <2>2 DEF StartFromSnapshot
    <2>6. opened \/ Num[k.head] <= Num[k.blog]
      <3>1. Num[s.head] \in Nat /\ Num[c.blog] \in Nat
        BY SafeFacts, Numbers
      <3> QED BY <1>2, <1>3, <1>6, <2>3, <3>1 DEF SameStore
    <2>7. Fits(k) /\ k.db \in {k.head, Mixed}
      BY <1>2, <2>1, <2>3 DEF Fits, Parked
    <2>8. Grown(r, k) /\ (r.outcome = "ok" => RootBelow(r) /\ Settled(r))
      BY <2>4, <2>5, <2>6, <2>7, InitControllerSafe
    <2> QED BY <1>2, <1>4, <2>3, <2>8 DEF Grown, SameStore
  <1> QED BY <1>5, <1>6

\* The controller that startup from the genesis state initialises.
LEMMA GenesisController ==
    ASSUME NEW c, Safe(c), NEW opened, NEW mode, NEW fails, NEW room
    PROVE  \E n : /\ StartFromGenesis(c, opened, mode, fails, room)
                       = InitController(n, opened, fails, room)
                  /\ Safe(n) /\ n.blog = c.blog /\ n.head = Genesis /\ n.db = Genesis
                  /\ n.outcome = "ok"
  <1>1. PICK fd : fd = IF mode = "irreversible" /\ c.fdb.head # c.fdb.root
                       THEN RollbackHeadToRoot(c.fdb) ELSE c.fdb
    OBVIOUS
  <1>2. FdbWell(fd) /\ fd.root = c.fdb.root
    BY <1>1, RollbackWell, SafeFacts
  <1>3. PICK m : m = NewController(mode, fd, c.blog, Genesis)
    OBVIOUS
  <1>4. /\ Safe(m) /\ m.fdb = fd /\ m.blog = c.blog /\ m.head = Genesis /\ m.db = Genesis
        /\ m.outcome = "ok"
    <2>1. Genesis \in Block /\ c.blog \in Block /\ Num[fd.root] <= Num[c.blog]
      BY <1>2, BlockTreeAssumption DEF Safe
    <2> QED BY <1>2, <1>3, <2>1, NewControllerSafe
  <1>5. PICK n : n = [m EXCEPT !.sparse = FALSE]
    OBVIOUS
  <1>6. Shape(n) /\ SameStore(n, m) /\ n.head = m.head /\ n.db = m.db /\ n.outcome = m.outcome
    BY <1>4, <1>5, Zenon DEF Safe, Shape, SameStore
  <1>7. Safe(n)
    BY <1>4, <1>6 DEF Safe, SameStore
  <1>8. StartFromGenesis(c, opened, mode, fails, room) = InitController(n, opened, fails, room)
    BY <1>1, <1>3, <1>5 DEF StartFromGenesis
  <1> QED BY <1>4, <1>6, <1>7, <1>8 DEF SameStore

\* startup from the genesis state.
LEMMA StartFromGenesisSafe ==
    ASSUME NEW c, Safe(c), NEW opened \in BOOLEAN, NEW mode, NEW fails, NEW room \in Nat
    PROVE  LET r == StartFromGenesis(c, opened, mode, fails, room)
           IN  /\ Safe(r) /\ c.blog \in Anc[r.blog]
               /\ r.outcome = "ok" => RootBelow(r) /\ Settled(r)
  <1>1. PICK n : /\ StartFromGenesis(c, opened, mode, fails, room)
                       = InitController(n, opened, fails, room)
                 /\ Safe(n) /\ n.blog = c.blog /\ n.head = Genesis /\ n.db = Genesis
                 /\ n.outcome = "ok"
    BY GenesisController
  <1>2. Num[n.head] <= Num[n.blog] /\ Num[n.head] <= Num[n.fdb.root]
    BY <1>1, SafeFacts, GenesisFirst, AncNumbers
  <1>3. Fits(n) /\ n.db \in {n.head, Mixed}
    BY <1>1, <1>2 DEF Fits, Parked
  <1> QED BY <1>1, <1>2, <1>3, InitControllerSafe DEF Grown

\* The replay of a block log without failing blocks, with no fork database.
LEMMA ReplayFromGenesis ==
    ASSUME NEW c, Safe(c), NEW opened, ~opened, NEW mode, NEW fails, NEW room,
           Anc[c.blog] \cap fails = {}
    PROVE  LET r == StartFromGenesis(c, opened, mode, fails, room)
           IN  r.outcome = "ok" /\ r.head = c.blog /\ r.db = c.blog
  <1>1. PICK n : /\ StartFromGenesis(c, opened, mode, fails, room)
                       = InitController(n, opened, fails, room)
                 /\ Safe(n) /\ n.blog = c.blog /\ n.head = Genesis /\ n.db = Genesis
                 /\ n.outcome = "ok"
    BY GenesisController
  <1>2. PICK b \in Block : b = c.blog /\ b = n.blog
    BY <1>1, SafeFacts
  <1>3. Genesis \in Anc[b] /\ Num[b] \in Nat /\ Num[Genesis] \in Nat /\ (Genesis = b \/ Num[Genesis] < Num[b])
    BY GenesisFirst, AncNumbers, Numbers, BlockTreeAssumption
  <1>4. PICK l : l = ReplayLog(n, opened, fails)
    OBVIOUS
  <1>5. Shape(l) /\ l.head = b /\ l.db = b /\ l.outcome = "ok"
    <2>1. CASE Genesis = b
      <3>1. Num[n.head] >= Num[n.blog]
        BY <1>1, <1>2, <1>3, <2>1
      <3>2. l = n
        BY <1>4, <3>1, Zenon DEF ReplayLog
      <3> QED BY <1>1, <2>1, <3>2 DEF Safe
    <2>2. CASE Genesis # b
      <3>1. ~(Num[n.head] >= Num[n.blog])
        BY <1>1, <1>2, <1>3, <2>2
      <3>2. PICK S : S = Anc[n.blog] \ Anc[n.head]
        OBVIOUS
      <3>3. S # {} /\ Newest(S) = b /\ S \cap fails = {} /\ n.head \in Anc[n.blog]
        <4>1. S = Above(Genesis, b)
          BY <1>1, <1>2, <3>2 DEF Above
        <4> QED BY <1>1, <1>2, <1>3, <2>2, <4>1, AboveIs DEF Above
      <3>4. PICK m : m = MovedTo(n, S)
        OBVIOUS
      <3>5. PICK k : m = [n EXCEPT !.head = b, !.sparse = FALSE, !.rev = k, !.db = b]
        BY <1>1, <3>3, <3>4, Zenon DEF MovedTo
      <3>6. Shape(m) /\ m.head = b /\ m.db = b /\ m.outcome = n.outcome
        BY <1>1, <3>5, Zenon DEF Safe, Shape
      <3>7. l = [m EXCEPT !.rev = Num[n.blog], !.base = Num[n.blog]]
        BY <1>4, <3>1, <3>2, <3>3, <3>4, Zenon DEF ReplayLog, CaughtUp
      <3> QED BY <1>1, <3>6, <3>7, Zenon DEF Shape
    <2> QED BY <2>1, <2>2
  <1>6. PICK fd : fd = ResetTo(b)
    OBVIOUS
  <1>7. fd.head = b /\ PendingHead(fd) = b
    BY <1>6 DEF ResetTo, PendingHead
  <1>8. PICK k : k = ReplayForkDb(l, opened, fails, room)
    OBVIOUS
  <1>9. k = [l EXCEPT !.fdb = fd]
    BY <1>5, <1>6, <1>8 DEF ReplayForkDb
  <1>10. k.fdb = fd /\ k.head = b /\ k.db = b /\ k.outcome = "ok"
    BY <1>5, <1>9, Zenon DEF Shape
  <1>11. ReadyToRun(k, fails, room) = k
    BY <1>7, <1>10 DEF ReadyToRun, ApplyBestBranch
  <1>12. StartFromGenesis(c, opened, mode, fails, room) = k
    BY <1>1, <1>4, <1>8, <1>11 DEF InitController
  <1> QED BY <1>2, <1>10, <1>12

-----------------------------------------------------------------------------
(* The node *)

\* A snapshot of a block, of whatever state.
IsSnapshot(s) == \E h \in Block : \E d, who : s = [head |-> h, state |-> d, by |-> who]

\* The inductive invariant.
RestartInv ==
    /\ up \in BOOLEAN /\ saved \in BOOLEAN
    /\ Safe(ctl)
    /\ up => RootBelow(ctl) /\ Settled(ctl)
    /\ \A s \in snap \cup child : IsSnapshot(s)

\* A snapshot, and what becomes of it when its process ends.
LEMMA SnapshotHead ==
    ASSUME NEW s, IsSnapshot(s)
    PROVE  s.head \in Block /\ IsSnapshot([s EXCEPT !.by = "orphan"])
  <1>1. PICK h \in Block : \E d, who : s = [head |-> h, state |-> d, by |-> who]
    BY DEF IsSnapshot
  <1>2. PICK d, who : s = [head |-> h, state |-> d, by |-> who]
    BY <1>1
  <1>3. [s EXCEPT !.by = "orphan"] = [head |-> h, state |-> d, by |-> "orphan"]
    BY <1>2
  <1> QED BY <1>2, <1>3 DEF IsSnapshot

\* A snapshot that is written.
LEMMA WrittenIsSnapshot ==
    ASSUME NEW c, Safe(c), NEW who
    PROVE  IsSnapshot(WrittenBy(who, c))
  <1>1. c.fdb.head \in Block
    BY SafeFacts
  <1>2. WrittenBy(who, c) = [head |-> c.fdb.head, state |-> c.db, by |-> who]
    BY DEF WrittenBy, Snapshot
  <1> QED BY <1>1, <1>2 DEF IsSnapshot

\* What the process leaves on disk.
LEMMA OnDiskSafe ==
    ASSUME NEW c, Safe(c), NEW has
    PROVE  LET d == OnDisk(c, has)
           IN  /\ Safe(d) /\ d.blog = c.blog /\ d.mode = c.mode /\ d.outcome = c.outcome
               /\ has => d.fdb = c.fdb
  <1>1. PICK fd : fd = IF has THEN c.fdb ELSE ResetTo(c.blog)
    OBVIOUS
  <1>2. FdbWell(fd) /\ Num[fd.root] <= Num[c.blog] /\ c.blog \in Block
    <2>1. c.blog \in Block /\ Num[c.blog] \in Nat
      BY SafeFacts, Numbers
    <2>2. FdbWell(ResetTo(c.blog)) /\ ResetTo(c.blog).root = c.blog
      BY <2>1, ResetOK, OKIsWell DEF ResetTo
    <2> QED BY <1>1, <2>1, <2>2 DEF Safe
  <1>3. PICK n : n = NewController(c.mode, fd, c.blog, c.blog)
    OBVIOUS
  <1>4. Safe(n) /\ n.blog = c.blog /\ n.mode = c.mode /\ n.fdb = fd
    BY <1>2, <1>3, NewControllerSafe
  <1>5. OnDisk(c, has) = Ended(n, c.outcome)
    BY <1>1, <1>3 DEF OnDisk, Ended
  <1> QED BY <1>1, <1>4, <1>5, EndedSafe DEF SameStore

\* The block log takes blocks up to some number.
LEMMA RoomsAreNumbers ==
    ASSUME Safe(ctl)
    PROVE  Rooms \subseteq Nat
  BY SafeFacts, Numbers, MaxNumIs DEF Rooms

\* A node that was never started.
LEMMA InitRestartInv == Init => RestartInv
  <1>1. SUFFICES ASSUME Init PROVE RestartInv
    OBVIOUS
  <1>2. PICK fd : fd = ResetTo(Genesis)
    OBVIOUS
  <1>3. Genesis \in Block /\ FdbWell(fd) /\ fd.root = Genesis /\ Num[Genesis] \in Nat
    BY <1>2, BlockTreeAssumption, Numbers, ResetOK, OKIsWell DEF ResetTo
  <1>4. PICK mode \in Modes : ctl = NewController(mode, fd, Genesis, Genesis)
    BY <1>1, <1>2 DEF Init
  <1>5. Safe(ctl)
    BY <1>3, <1>4, NewControllerSafe
  <1> QED BY <1>1, <1>5 DEF Init, RestartInv

\* on_incoming_block
LEMMA ReceiveBlockSafe ==
    ASSUME RestartInv, NEW b \in Block, ReceiveBlock(b)
    PROVE  RestartInv' /\ ctl.blog \in Anc[ctl'.blog]
  <1>1. up /\ Safe(ctl) /\ RootBelow(ctl) /\ Settled(ctl) /\ CanAdd(ctl.fdb, b)
    BY DEF ReceiveBlock, Deliverable, RestartInv
  <1>2. PICK room \in Rooms : \E fails : Pushed(PushBlock(ctl, b, fails, room))
    BY DEF ReceiveBlock
  <1>3. PICK fails : Pushed(PushBlock(ctl, b, fails, room))
    BY <1>2
  <1>4. room \in Nat
    BY <1>1, <1>2, RoomsAreNumbers
  <1>5. PICK r : r = PushBlock(ctl, b, fails, room)
    OBVIOUS
  <1>6. /\ Safe(r) /\ ctl.blog \in Anc[r.blog] /\ RootBelow(r)
        /\ r.outcome # "empty_back" => Settled(r)
    BY <1>1, <1>4, <1>5, PushBlockSafe DEF Grown
  <1>7. saved' = saved /\ snap' = snap
    BY DEF ReceiveBlock
  <1>8. CASE r.outcome = "empty_back"
    <2>1. up' = FALSE /\ ctl' = OnDisk(r, FALSE) /\ Orphaned
      BY <1>3, <1>5, <1>8 DEF Pushed
    <2>2. Safe(ctl') /\ ctl'.blog = r.blog
      BY <1>6, <2>1, OnDiskSafe
    <2>3. \A s \in snap' \cup child' : IsSnapshot(s)
      BY <1>7, <2>1, SnapshotHead DEF Orphaned, RestartInv
    <2> QED BY <1>6, <1>7, <2>1, <2>2, <2>3 DEF RestartInv
  <1>9. CASE r.outcome # "empty_back"
    <2>1. up' = TRUE /\ ctl' = r /\ BackgroundSnapshot(r)
      BY <1>3, <1>5, <1>9 DEF Pushed
    <2>2. \A s \in snap' \cup child' : IsSnapshot(s)
      BY <1>6, <1>7, <2>1, WrittenIsSnapshot DEF BackgroundSnapshot, RestartInv
    <2> QED BY <1>6, <1>7, <1>9, <2>1, <2>2 DEF RestartInv
  <1> QED BY <1>8, <1>9

\* startup
LEMMA StartSafe ==
    ASSUME RestartInv, NEW mode \in Modes, Start(mode)
    PROVE  RestartInv' /\ ctl.blog \in Anc[ctl'.blog]
  <1>1. Safe(ctl) /\ saved \in BOOLEAN /\ snap' = snap /\ child' = child
    BY DEF Start, RestartInv
  <1>2. PICK r : /\ Started(r)
                 /\ Safe(r) /\ ctl.blog \in Anc[r.blog]
                 /\ r.outcome = "ok" => RootBelow(r) /\ Settled(r)
    <2>1. PICK room \in Rooms :
             \/ \E s \in snap :
                \E fails \in FailSets(ctl.fdb.index \cup Anc[ctl.blog], s.state, s.head) :
                   Started(StartFromSnapshot(ctl, s, saved, mode, fails, room))
             \/ snap = {} /\ Started(StartFromGenesis(ctl, saved, mode, Bad, room))
      BY DEF Start
    <2>2. room \in Nat
      BY <1>1, <2>1, RoomsAreNumbers
    <2>3. CASE \E s \in snap :
               \E fails \in FailSets(ctl.fdb.index \cup Anc[ctl.blog], s.state, s.head) :
                   Started(StartFromSnapshot(ctl, s, saved, mode, fails, room))
      <3>1. PICK s \in snap : \E fails : Started(StartFromSnapshot(ctl, s, saved, mode, fails, room))
        BY <2>3
      <3>2. PICK fails : Started(StartFromSnapshot(ctl, s, saved, mode, fails, room))
        BY <3>1
      <3>3. s.head \in Block
        BY <3>1, SnapshotHead DEF RestartInv
      <3> QED BY <1>1, <2>2, <3>3, <3>2, StartFromSnapshotSafe
    <2>4. CASE snap = {} /\ Started(StartFromGenesis(ctl, saved, mode, Bad, room))
      BY <1>1, <2>2, <2>4, StartFromGenesisSafe
    <2> QED BY <2>1, <2>3, <2>4
  <1>3. CASE r.outcome = "ok"
    BY <1>1, <1>2, <1>3 DEF Started, RestartInv
  <1>4. CASE r.outcome # "ok"
    <2>1. PICK kept \in BOOLEAN : up' = FALSE /\ ctl' = OnDisk(r, kept) /\ saved' = kept
      BY <1>1, <1>2, <1>4 DEF Started
    <2>2. Safe(ctl') /\ ctl'.blog = r.blog
      BY <1>2, <2>1, OnDiskSafe
    <2> QED BY <1>1, <1>2, <2>1, <2>2 DEF RestartInv
  <1> QED BY <1>3, <1>4

\* Shutdown and crash, at any point.
LEMMA StopSafe ==
    ASSUME RestartInv, Shutdown \/ Crash
    PROVE  RestartInv' /\ ctl.blog \in Anc[ctl'.blog]
  <1>1. PICK has \in BOOLEAN : ctl' = OnDisk(ctl, has) \/ ctl' = Ended(OnDisk(ctl, has), "ok")
    BY DEF Shutdown, Crash
  <1>2. Safe(ctl') /\ ctl'.blog = ctl.blog /\ ctl.blog \in Anc[ctl.blog]
    BY <1>1, OnDiskSafe, EndedSafe, SafeFacts DEF RestartInv, SameStore
  <1>3. up' = FALSE /\ saved' \in BOOLEAN
    BY DEF Shutdown, Crash, RestartInv
  <1>4. \A s \in child' : IsSnapshot(s)
    <2>1. child' = {[s EXCEPT !.by = "orphan"] : s \in child}
      BY DEF Shutdown, Crash, Orphaned
    <2> QED BY <2>1, SnapshotHead DEF RestartInv
  <1>5. \A s \in snap' : IsSnapshot(s)
    <2>1. snap' = snap \/ snap' = {WrittenBy("shutdown", ctl)}
      BY DEF Shutdown, Crash
    <2>2. IsSnapshot(WrittenBy("shutdown", ctl))
      BY WrittenIsSnapshot DEF RestartInv
    <2> QED BY <2>1, <2>2 DEF RestartInv
  <1> QED BY <1>2, <1>3, <1>4, <1>5 DEF RestartInv

\* Every step of the node.
LEMMA RestartStep ==
    ASSUME RestartInv, [Next]_vars
    PROVE  RestartInv' /\ ctl.blog \in Anc[ctl'.blog]
  <1>1. ctl.blog \in Anc[ctl.blog]
    BY SafeFacts DEF RestartInv
  <1>2. CASE \E b \in Block : ReceiveBlock(b)
    BY <1>2, ReceiveBlockSafe
  <1>3. CASE \E mode \in Modes : Start(mode)
    BY <1>3, StartSafe
  <1>4. CASE Shutdown \/ Crash
    BY <1>4, StopSafe
  <1>5. CASE ChildDone
    BY <1>1, <1>5 DEF ChildDone, RestartInv
  <1>6. CASE ChildDies
    BY <1>1, <1>6 DEF ChildDies, RestartInv
  <1>7. CASE RemoveState
    BY <1>1, <1>7 DEF RemoveState, RestartInv
  <1>8. CASE UNCHANGED vars
    BY <1>1, <1>8 DEF vars, RestartInv
  <1> QED BY <1>2, <1>3, <1>4, <1>5, <1>6, <1>7, <1>8 DEF Next

-----------------------------------------------------------------------------
(* Theorems *)

\* The invariant of a node that is stopped, crashes and is started in any read mode from any
\* snapshot: the fork database is a tree above a root that is not ahead of the block log.
THEOREM RestartInvariant == Spec => []RestartInv
  <1>1. RestartInv /\ [Next]_vars => RestartInv'
    BY RestartStep
  <1> QED BY <1>1, InitRestartInv, PTL DEF Spec

\* log_irreversible only ever appends descendants of what is in the log, across every crash
\* and restart and whatever state the blocks are executed on.
THEOREM LogNeverForksHolds == Spec => LogNeverForks
  <1>1. RestartInv /\ [Next]_vars => [ctl.blog \in Anc[ctl'.blog]]_vars
    BY RestartStep
  <1> QED BY <1>1, RestartInvariant, PTL DEF Spec, LogNeverForks

\* With the state directory and the fork database file gone, startup replays the block log
\* and ends at its last block with the state of that block.
THEOREM ReplayRecovers == Spec => RecoversByReplay
  <1>1. ASSUME RestartInv, NEW mode \in Modes, ~up, snap = {}, ~saved,
               Anc[ctl.blog] \cap Bad = {}, Start(mode)
        PROVE  up' /\ ctl'.head = ctl.blog /\ ctl'.db = ctl.blog
    <2>1. PICK room \in Rooms : Started(StartFromGenesis(ctl, saved, mode, Bad, room))
      BY <1>1 DEF Start
    <2>2. PICK r : r = StartFromGenesis(ctl, saved, mode, Bad, room)
      OBVIOUS
    <2>3. r.outcome = "ok" /\ r.head = ctl.blog /\ r.db = ctl.blog
      BY <1>1, <2>2, ReplayFromGenesis DEF RestartInv
    <2> QED BY <2>1, <2>2, <2>3 DEF Started
  <1>2. RestartInv /\ [Next]_vars =>
           [\A mode \in Modes :
               ~up /\ snap = {} /\ ~saved /\ Anc[ctl.blog] \cap Bad = {} /\ Start(mode)
               => up' /\ ctl'.head = ctl.blog /\ ctl'.db = ctl.blog]_vars
    BY <1>1
  <1> QED BY <1>2, RestartInvariant, PTL DEF Spec, RecoversByReplay

-----------------------------------------------------------------------------
(* A node that is shut down *)

\* At most one element.
Single(S) == \A s \in S : \A x \in S : s = x

\* The snapshot of an orderly stop names the best validated block of the fork database file;
\* if that is the root, whose state it holds, a speculative node knew no other block.
CleanStop ==
    saved /\ ctl.outcome = "ok" =>
        \A s \in snap : s.by = "shutdown" =>
            /\ s.head = ctl.fdb.head
            /\ s.state = s.head /\ ~Irreversible(ctl) /\ ctl.fdb.head = ctl.fdb.root
                  => ctl.fdb.index = {}

\* The inductive invariant of the files of an orderly stop, together with RestartInv.
StopInv ==
    /\ up => ~saved
    /\ Single(snap) /\ Single(child)
    /\ \A s \in child : s.by # "shutdown"
    /\ CleanStop

\* What becomes of the child when its process ends.
LEMMA OrphanedStop ==
    ASSUME RestartInv, Single(child), Orphaned
    PROVE  Single(child') /\ \A s \in child' : s.by # "shutdown"
  <1>1. child' = {[s EXCEPT !.by = "orphan"] : s \in child}
    BY DEF Orphaned
  <1>2. ASSUME NEW s \in child PROVE [s EXCEPT !.by = "orphan"].by = "orphan"
    <2>1. PICK h \in Block : \E d, who : s = [head |-> h, state |-> d, by |-> who]
      BY DEF RestartInv, IsSnapshot
    <2> QED BY <2>1
  <1> QED BY <1>1, <1>2 DEF Single

\* on_incoming_block
LEMMA ReceiveBlockStop ==
    ASSUME RestartInv, StopInv, NEW b \in Block, ReceiveBlock(b)
    PROVE  StopInv'
  <1>1. ~saved /\ saved' = saved /\ snap' = snap
    BY DEF ReceiveBlock, Deliverable, StopInv
  <1>2. PICK r : Pushed(r)
    BY DEF ReceiveBlock
  <1>3. Orphaned \/ BackgroundSnapshot(r)
    BY <1>2 DEF Pushed
  <1>4. Single(child') /\ \A s \in child' : s.by # "shutdown"
    <2>1. CASE Orphaned
      BY <2>1, OrphanedStop DEF StopInv
    <2>2. CASE BackgroundSnapshot(r)
      <3>1. child' = child \/ child' = {WrittenBy("child", r)}
        BY <2>2 DEF BackgroundSnapshot
      <3>2. WrittenBy("child", r).by = "child"
        BY DEF WrittenBy
      <3> QED BY <3>1, <3>2 DEF StopInv, Single
    <2> QED BY <1>3, <2>1, <2>2
  <1> QED BY <1>1, <1>4 DEF StopInv, CleanStop, Single

\* A start that succeeds removes the file of the fork database, one that fails is remembered.
LEMMA StartStop ==
    ASSUME RestartInv, StopInv, NEW mode \in Modes, Start(mode)
    PROVE  StopInv'
  <1>1. snap' = snap /\ child' = child
    BY DEF Start
  <1>2. PICK r : Started(r)
    BY DEF Start
  <1>3. CASE r.outcome = "ok"
    <2>1. up' = TRUE /\ saved' = FALSE
      BY <1>2, <1>3 DEF Started
    <2> QED BY <1>1, <2>1 DEF StopInv, CleanStop, Single
  <1>4. CASE r.outcome # "ok"
    <2>1. PICK kept : up' = FALSE /\ ctl' = OnDisk(r, kept)
      BY <1>2, <1>4 DEF Started
    <2>2. ctl'.outcome = r.outcome
      BY <2>1 DEF OnDisk, NewController
    <2> QED BY <1>1, <1>4, <2>1, <2>2 DEF StopInv, CleanStop, Single
  <1> QED BY <1>3, <1>4

\* plugin_shutdown
LEMMA ShutdownStop ==
    ASSUME RestartInv, StopInv, Shutdown
    PROVE  StopInv'
  <1>1. /\ up /\ up' = FALSE /\ Orphaned /\ snap' = {WrittenBy("shutdown", ctl)}
        /\ ctl' = Ended(OnDisk(ctl, TRUE), "ok")
    BY DEF Shutdown
  <1>2. Safe(ctl) /\ Settled(ctl)
    BY <1>1 DEF RestartInv
  <1>3. ctl'.fdb = ctl.fdb /\ ctl'.mode = ctl.mode
    <2>1. PICK has : has = TRUE
      OBVIOUS
    <2>2. PICK c : c = ctl
      OBVIOUS
    <2>3. PICK d : d = OnDisk(c, has)
      OBVIOUS
    <2>4. Safe(d) /\ d.fdb = c.fdb /\ d.mode = c.mode
      BY <1>2, <2>1, <2>2, <2>3, OnDiskSafe
    <2>5. PICK how : how = "ok"
      OBVIOUS
    <2>6. PICK e : e = Ended(d, how)
      OBVIOUS
    <2>7. SameStore(e, d)
      BY <2>4, <2>6, EndedSafe
    <2>8. ctl' = e
      BY <1>1, <2>1, <2>2, <2>3, <2>5, <2>6
    <2> QED BY <2>2, <2>4, <2>7, <2>8 DEF SameStore
  <1>4. PICK s : s = WrittenBy("shutdown", ctl)
    OBVIOUS
  <1>5. s.head = ctl.fdb.head /\ s.state = ctl.db
    BY <1>4 DEF WrittenBy, Snapshot
  <1>6. ASSUME ctl.db = ctl.fdb.head, ~Irreversible(ctl), ctl.fdb.head = ctl.fdb.root
        PROVE  ctl.fdb.index = {}
    <2>1. ctl.fdb.root \in Block /\ ctl.fdb.root # Mixed
      BY <1>2, SafeFacts, BlockTreeAssumption DEF Mixed
    <2> QED BY <1>2, <1>6, <2>1 DEF Settled, Parked
  <1>7. CleanStop'
    BY <1>1, <1>3, <1>4, <1>5, <1>6 DEF CleanStop, Irreversible
  <1>8. Single(child') /\ \A x \in child' : x.by # "shutdown"
    BY <1>1, OrphanedStop DEF StopInv
  <1> QED BY <1>1, <1>7, <1>8 DEF StopInv, Single

\* Every step of the node.
LEMMA StopStep ==
    ASSUME RestartInv, StopInv, [Next]_vars
    PROVE  StopInv'
  <1>1. CASE \E b \in Block : ReceiveBlock(b)
    BY <1>1, ReceiveBlockStop
  <1>2. CASE \E mode \in Modes : Start(mode)
    BY <1>2, StartStop
  <1>3. CASE Shutdown
    BY <1>3, ShutdownStop
  <1>4. CASE Crash
    <2>1. up' = FALSE /\ ~saved /\ saved' = saved /\ Orphaned /\ Single(snap')
      BY <1>4 DEF Crash, StopInv, Single
    <2>2. Single(child') /\ \A s \in child' : s.by # "shutdown"
      BY <2>1, OrphanedStop DEF StopInv
    <2> QED BY <2>1, <2>2 DEF StopInv, CleanStop, Single
  <1>5. CASE ChildDone
    BY <1>5 DEF ChildDone, StopInv, CleanStop, Single
  <1>6. CASE ChildDies
    BY <1>6 DEF ChildDies, StopInv, CleanStop, Single
  <1>7. CASE RemoveState
    BY <1>7 DEF RemoveState, StopInv, CleanStop, Single
  <1>8. CASE UNCHANGED vars
    BY <1>8 DEF vars, StopInv, CleanStop, Single
  <1> QED BY <1>1, <1>2, <1>3, <1>4, <1>5, <1>6, <1>7, <1>8 DEF Next

\* The invariant of the files of an orderly stop: only a shutdown and no later start lets the
\* file of the fork database and the snapshot be of one controller.
THEOREM StopInvariant == Spec => []StopInv
  <1>1. Init => StopInv
    BY DEF Init, StopInv, CleanStop, Single
  <1>2. RestartInv /\ StopInv /\ [Next]_vars => StopInv'
    BY StopStep
  <1> QED BY <1>1, <1>2, RestartInvariant, PTL DEF Spec

\* A start with the files and the snapshot of an orderly stop, and a log that is not ahead.
AtSnapshot(c, s, opened, mode) ==
    /\ opened
    /\ s.head = c.fdb.head /\ s.state = s.head
    /\ Num[c.blog] <= Num[s.head]
    /\ mode # "irreversible" /\ c.fdb.head = c.fdb.root => c.fdb.index = {}

\* startup from the snapshot of the best validated block of the fork database: nothing is
\* replayed and, where the root is that block, nothing is known that would be applied.
LEMMA StartAtSnapshot ==
    ASSUME NEW c, Safe(c), NEW s, NEW opened, NEW mode, AtSnapshot(c, s, opened, mode),
           NEW fails, NEW room \in Nat
    PROVE  LET r == StartFromSnapshot(c, s, opened, mode, fails, room)
           IN  r.outcome = "ok" /\ r.head = s.head /\ r.db = s.head
  <1> USE DEF AtSnapshot
  <1>1. PICK h \in Block : h = s.head /\ h = c.fdb.head
    BY SafeFacts
  <1>2. Num[h] \in Nat /\ Num[c.blog] \in Nat /\ c.blog \in Block
    BY SafeFacts, Numbers
  <1>3. PICK n : n = NewController(mode, c.fdb, c.blog, h)
    OBVIOUS
  <1>4. /\ Safe(n) /\ n.fdb = c.fdb /\ n.blog = c.blog /\ n.head = h /\ n.db = h
        /\ n.mode = mode /\ n.outcome = "ok"
    BY <1>2, <1>3, NewControllerSafe DEF Safe
  <1>5. [n EXCEPT !.db = n.db] = n
    BY <1>4 DEF Safe, Shape
  <1>6. StartFromSnapshot(c, s, opened, mode, fails, room) = InitController(n, opened, fails, room)
    <2>1. ~(Num[h] > AtLeast(Num[c.blog], Num[c.fdb.head]))
      BY <1>1, <1>2 DEF AtLeast
    <2> QED BY <1>1, <1>3, <1>5, <2>1 DEF StartFromSnapshot
  <1>7. ReplayLog(n, opened, fails) = n
    <2>1. Num[n.head] >= Num[n.blog]
      BY <1>1, <1>2, <1>4
    <2> QED BY <2>1, Zenon DEF ReplayLog
  <1>8. ReplayForkDb(n, opened, fails, room) = n
    <2>1. RootBelow(n) /\ Num[n.fdb.head] <= Num[n.head]
      <3>1. c.fdb.root \in Anc[h]
        BY <1>1, SafeFacts, KnownDescends
      <3> QED BY <1>1, <1>2, <1>4, <3>1, AncNumbers DEF RootBelow
    <2>2. ReplayReversible(n, fails, room) = n
      BY <1>4, <2>1, ReplayReversibleSafe
    <2> QED BY <1>4, <2>2 DEF ReplayForkDb
  <1>9. ReadyToRun(n, fails, room) = n
    <2>1. CASE Irreversible(n)
      BY <2>1 DEF ReadyToRun, ApplyBestBranch
    <2>2. CASE ~Irreversible(n) /\ n.fdb.head = n.fdb.root
      <3>1. PendingHead(n.fdb) = n.fdb.head
        <4>1. n.fdb.index = {}
          BY <1>4, <2>2 DEF Irreversible
        <4> QED BY <4>1 DEF PendingHead
      <3> QED BY <3>1 DEF ReadyToRun, ApplyBestBranch
    <2>3. CASE n.fdb.head # n.fdb.root
      BY <2>3 DEF ReadyToRun, ApplyBestBranch
    <2> QED BY <2>1, <2>2, <2>3
  <1>10. StartFromSnapshot(c, s, opened, mode, fails, room) = n
    BY <1>6, <1>7, <1>8, <1>9 DEF InitController
  <1> QED BY <1>1, <1>4, <1>10

\* A node that was shut down and whose starts did not fail since is started in the same read
\* mode with the head and the state it had.
THEOREM RestartsCleanly == Spec => CleanRestart
  <1>1. ASSUME RestartInv, StopInv, NEW s \in snap, ~up, saved, ctl.outcome = "ok",
               Num[ctl.blog] <= Num[s.head], s.by = "shutdown", s.state = s.head,
               Start(ctl.mode)
        PROVE  up' /\ ctl'.head = s.head /\ ctl'.db = s.head
    <2>1. PICK room \in Rooms :
             \E x \in snap :
             \E fails : Started(StartFromSnapshot(ctl, x, saved, ctl.mode, fails, room))
      BY <1>1 DEF Start
    <2>2. PICK x \in snap :
             \E fails : Started(StartFromSnapshot(ctl, x, saved, ctl.mode, fails, room))
      BY <2>1
    <2>3. PICK fails : Started(StartFromSnapshot(ctl, x, saved, ctl.mode, fails, room))
      BY <2>2
    <2>4. x = s
      BY <1>1, <2>2 DEF StopInv, Single
    <2>5. /\ s.head = ctl.fdb.head
          /\ ctl.mode # "irreversible" /\ ctl.fdb.head = ctl.fdb.root => ctl.fdb.index = {}
      BY <1>1 DEF StopInv, CleanStop, Irreversible
    <2>6. Safe(ctl) /\ room \in Nat
      BY <1>1, <2>1, RoomsAreNumbers DEF RestartInv
    <2>7. PICK c, opened, mode : c = ctl /\ opened = saved /\ mode = ctl.mode
      OBVIOUS
    <2>8. PICK r : r = StartFromSnapshot(c, s, opened, mode, fails, room)
      OBVIOUS
    <2>9. r.outcome = "ok" /\ r.head = s.head /\ r.db = s.head
      <3>1. Safe(c) /\ AtSnapshot(c, s, opened, mode)
        BY <1>1, <2>5, <2>6, <2>7 DEF AtSnapshot
      <3> QED BY <2>6, <2>8, <3>1, StartAtSnapshot
    <2>10. Started(r)
      BY <2>3, <2>4, <2>7, <2>8
    <2> QED BY <2>9, <2>10 DEF Started
  <1>2. RestartInv /\ StopInv /\ [Next]_vars =>
           [\A s \in snap :
               /\ ~up /\ saved /\ ctl.outcome = "ok" /\ Num[ctl.blog] <= Num[s.head]
               /\ s.by = "shutdown" /\ s.state = s.head
               /\ Start(ctl.mode) /\ ctl'.mode = ctl.mode
               => up' /\ ctl'.head = s.head /\ ctl'.db = s.head]_vars
    BY <1>1
  <1> QED BY <1>2, RestartInvariant, StopInvariant, PTL DEF Spec, CleanRestart

-----------------------------------------------------------------------------
(* A node in irreversible mode *)

\* Head, state, root and log are at one block, and no bad block is in the log.
AtLib(c) == ControllerOK(c) /\ Irreversible(c) /\ c.head = c.blog

\* A node that is started in irreversible mode only and whose block log has room.
IrreversibleOnly == Modes = {"irreversible"} /\ LogMayFill = FALSE

\* The inductive invariant of such a node, running or not.
AtLibInv ==
    /\ up \in BOOLEAN /\ saved \in BOOLEAN
    /\ AtMostOne(snap) /\ AtMostOne(child)
    /\ AtLib(ctl)
    /\ \A s \in snap \cup child : s.state = s.head /\ s.head \in Anc[ctl.blog]

\* What AtLib says field by field.
LEMMA AtLibIs ==
    ASSUME NEW c
    PROVE  AtLib(c) <=>
             /\ c \in Controllers /\ Irreversible(c) /\ FdbOK(c.fdb)
             /\ c.fdb.root = c.blog /\ c.fdb.head = c.blog /\ c.fdb.valid = {}
             /\ c.head = c.blog /\ c.db = c.blog
             /\ c.rev = Num[c.blog] /\ c.base = Num[c.blog]
             /\ Anc[c.blog] \cap Bad = {}
             /\ c.outcome \in {"ok", "threw"}
  <1>1. ASSUME AtLib(c)
        PROVE  /\ c \in Controllers /\ Irreversible(c) /\ FdbOK(c.fdb)
               /\ c.fdb.root = c.blog /\ c.fdb.head = c.blog /\ c.fdb.valid = {}
               /\ c.head = c.blog /\ c.db = c.blog
               /\ c.rev = Num[c.blog] /\ c.base = Num[c.blog]
               /\ Anc[c.blog] \cap Bad = {}
               /\ c.outcome \in {"ok", "threw"}
    BY <1>1 DEF AtLib, ControllerOK, Sound, Synced, FdbOK, BestHead
  <1>2. ASSUME /\ c \in Controllers /\ Irreversible(c) /\ FdbOK(c.fdb)
               /\ c.fdb.root = c.blog /\ c.fdb.head = c.blog /\ c.fdb.valid = {}
               /\ c.head = c.blog /\ c.db = c.blog
               /\ c.rev = Num[c.blog] /\ c.base = Num[c.blog]
               /\ Anc[c.blog] \cap Bad = {}
               /\ c.outcome \in {"ok", "threw"}
        PROVE  AtLib(c)
    BY <1>2 DEF AtLib, ControllerOK, Sound, Synced
  <1> QED BY <1>1, <1>2

\* replay of the log from an older block of it.
LEMMA ReplayLogAtLib ==
    ASSUME NEW c \in Controllers, FdbOK(c.fdb), c.fdb.root = c.blog, c.head \in Anc[c.blog],
           c.db = c.head, c.rev = Num[c.head], c.base = Num[c.head],
           Anc[c.blog] \cap Bad = {}, NEW opened
    PROVE  LET l == ReplayLog(c, opened, Bad)
           IN  /\ l \in Controllers /\ l.mode = c.mode /\ l.fdb = c.fdb /\ l.blog = c.blog
               /\ l.head = c.blog /\ l.db = c.blog /\ l.rev = Num[c.blog] /\ l.base = Num[c.blog]
               /\ l.outcome = c.outcome
  <1>1. PICK b : b = c.blog
    OBVIOUS
  <1>2. b \in Block /\ c.head \in Block /\ Num[b] \in Nat /\ Num[c.head] \in Nat
    BY <1>1, Numbers DEF Controllers
  <1>3. c.head = b \/ Num[c.head] < Num[b]
    BY <1>1, <1>2, AncNumbers
  <1>4. PICK l : l = ReplayLog(c, opened, Bad)
    OBVIOUS
  <1>5. CASE c.head = b
    <2>1. Num[c.head] >= Num[c.blog]
      BY <1>1, <1>2, <1>5
    <2>2. l = c
      BY <1>4, <2>1, Zenon DEF ReplayLog
    <2> QED BY <1>1, <1>4, <1>5, <2>2
  <1>6. CASE c.head # b
    <2>1. ~(Num[c.head] >= Num[c.blog])
      BY <1>1, <1>2, <1>3, <1>6
    <2>2. PICK S : S = Anc[c.blog] \ Anc[c.head]
      OBVIOUS
    <2>3. S # {} /\ Newest(S) = b /\ S \cap Bad = {}
      <3>1. PICK a \in Anc[b] : a = c.head
        BY <1>1
      <3>2. S = Above(a, b) /\ a # b
        BY <1>1, <1>6, <2>2, <3>1 DEF Above
      <3>3. S # {} /\ Newest(S) = b
        BY <1>2, <3>2, AboveIs
      <3> QED BY <2>2, <3>3
    <2>4. PICK m : m = MovedTo(c, S)
      OBVIOUS
    <2>5. PICK k : m = [c EXCEPT !.head = b, !.sparse = FALSE, !.rev = k, !.db = b]
      BY <2>3, <2>4, Zenon DEF MovedTo
    <2>6. PICK n : n = [m EXCEPT !.rev = Num[b], !.base = Num[b]]
      OBVIOUS
    <2>7. PICK d : d = [c EXCEPT !.head = b, !.sparse = FALSE, !.rev = Num[b], !.db = b]
      OBVIOUS
    <2>8. /\ d \in Controllers /\ d.mode = c.mode /\ d.fdb = c.fdb /\ d.blog = c.blog
          /\ d.head = b /\ d.db = b /\ d.rev = Num[b] /\ d.outcome = c.outcome
      BY <1>2, <2>7, Zenon DEF Controllers
    <2>9. n = [d EXCEPT !.base = Num[b]]
      BY <2>5, <2>6, <2>7 DEF Controllers
    <2>10. /\ n \in Controllers /\ n.mode = d.mode /\ n.fdb = d.fdb /\ n.blog = d.blog
           /\ n.head = d.head /\ n.db = d.db /\ n.rev = d.rev /\ n.base = Num[b]
           /\ n.outcome = d.outcome
      BY <1>2, <2>8, <2>9, Zenon DEF Controllers
    <2>11. l = CaughtUp(n, opened)
      BY <1>1, <1>4, <2>1, <2>2, <2>3, <2>4, <2>6, Zenon DEF ReplayLog
    <2>12. CaughtUp(n, opened) = n
      <3>1. CASE ~opened
        BY <3>1 DEF CaughtUp
      <3>2. CASE opened
        <4>1. PICK fd : fd = n.fdb
          OBVIOUS
        <4>2. FdbOK(fd) /\ fd.root = b
          BY <1>1, <2>8, <2>10, <4>1
        <4>3. PICK top : top = PendingHead(fd)
          OBVIOUS
        <4>4. top \in Block /\ fd.root \in Anc[top]
          BY <4>2, <4>3, OKIsWell, PendingHeadIs, KnownDescends
        <4>5. Num[b] <= Num[top] /\ Num[top] \in Nat
          BY <4>2, <4>4, AncNumbers, Numbers
        <4>6. ~(Num[top] < Num[n.head] \/ Num[n.head] < Num[n.fdb.root]) /\ Num[n.head] = Num[n.fdb.root]
          BY <1>2, <2>8, <2>10, <4>1, <4>2, <4>5
        <4> QED BY <3>2, <4>1, <4>3, <4>6 DEF CaughtUp, CatchUpRoot
      <3> QED BY <3>1, <3>2
    <2> QED BY <1>1, <1>4, <2>8, <2>10, <2>11, <2>12
  <1> QED BY <1>5, <1>6

\* replay, second part, with nothing to replay.
LEMMA NothingToReplay ==
    ASSUME NEW c, c.head \in Block, c.fdb.head = c.head, NEW fails, NEW room
    PROVE  ReplayReversible(c, fails, room) = c
  <1>1. PICK from \in Nat : from = Num[c.head] /\ from <= MaxNum
    BY Numbers, MaxNumIs
  <1>2. PICK f : IsReplay(f, c, fails, room, MaxNum) /\ ReplayReversible(c, fails, room) = f[from]
    <2>1. ReplayReversible(c, fails, room)
             = (CHOOSE f : IsReplay(f, c, fails, room, MaxNum))[AtLeast(Num[c.head], Num[c.fdb.head])]
      BY DEF ReplayReversible, IsReplay
    <2>2. \E f : IsReplay(f, c, fails, room, MaxNum)
      BY <1>1, MaxNumIs, ReplayExists
    <2>3. AtLeast(Num[c.head], Num[c.fdb.head]) = from
      BY <1>1 DEF AtLeast
    <2> QED BY <2>1, <2>2, <2>3
  <1>3. f[from] = c
    BY <1>1, <1>2, MaxNumIs DEF IsReplay
  <1> QED BY <1>2, <1>3

\* init in irreversible mode ends at the last block of the log.
LEMMA InitAtLib ==
    ASSUME NEW c \in Controllers, Irreversible(c), FdbOK(c.fdb), c.fdb.root = c.blog,
           c.fdb.head = c.blog, c.head \in Anc[c.blog], c.db = c.head,
           c.rev = Num[c.head], c.base = Num[c.head],
           Anc[c.blog] \cap Bad = {}, c.outcome = "ok", NEW opened \in BOOLEAN, NEW room
    PROVE  LET r == InitController(c, opened, Bad, room)
           IN  AtLib(r) /\ r.outcome = "ok" /\ r.blog = c.blog
  <1>1. PICK l : l = ReplayLog(c, opened, Bad)
    OBVIOUS
  <1>2. /\ l \in Controllers /\ l.mode = c.mode /\ l.fdb = c.fdb /\ l.blog = c.blog
        /\ l.head = c.blog /\ l.db = c.blog /\ l.rev = Num[c.blog] /\ l.base = Num[c.blog]
        /\ l.outcome = "ok" /\ c.blog \in Block
    BY <1>1, ReplayLogAtLib DEF Controllers
  <1>3. c.fdb.valid = {}
    BY OKIsWell, RootHeadMeansNoneValid
  <1>4. PICK k : k = ReplayForkDb(l, opened, Bad, room)
    OBVIOUS
  <1>5. AtLib(k) /\ k.outcome = "ok" /\ k.blog = c.blog
    <2>1. CASE opened
      <3>1. k = l
        BY <1>2, <1>4, <2>1, NothingToReplay DEF ReplayForkDb
      <3> QED BY <1>2, <1>3, <3>1, AtLibIs DEF Irreversible
    <2>2. CASE ~opened
      <3>1. PICK fd : fd = ResetTo(c.blog)
        OBVIOUS
      <3>2. FdbOK(fd) /\ fd.root = c.blog /\ fd.head = c.blog /\ fd.valid = {} /\ fd \in ForkDb
        BY <1>2, <3>1, ResetOK DEF ResetTo, FdbOK
      <3>3. k = [l EXCEPT !.fdb = fd]
        BY <1>2, <1>4, <2>2, <3>1 DEF ReplayForkDb
      <3>4. /\ k \in Controllers /\ k.mode = l.mode /\ k.fdb = fd /\ k.blog = l.blog
            /\ k.head = l.head /\ k.db = l.db /\ k.rev = l.rev /\ k.base = l.base
            /\ k.outcome = l.outcome
        BY <1>2, <3>2, <3>3, Zenon DEF Controllers
      <3> QED BY <1>2, <3>2, <3>4, AtLibIs DEF Irreversible
    <2> QED BY <2>1, <2>2
  <1>6. ReadyToRun(k, Bad, room) = k
    BY <1>5 DEF ReadyToRun, ApplyBestBranch, AtLib
  <1> QED BY <1>1, <1>4, <1>5, <1>6 DEF InitController

\* A controller about to be initialised at an older block of the log.
LEMMA NewAtLib ==
    ASSUME NEW c, AtLib(c), NEW b \in Anc[c.blog]
    PROVE  LET n == NewController("irreversible", c.fdb, c.blog, b)
           IN  /\ n \in Controllers /\ Irreversible(n) /\ n.fdb = c.fdb /\ n.blog = c.blog
               /\ n.head = b /\ n.db = b /\ n.rev = Num[b] /\ n.base = Num[b]
               /\ n.outcome = "ok"
  <1>1. c \in Controllers /\ c.blog \in Block /\ c.fdb \in ForkDb
    BY AtLibIs DEF Controllers
  <1>2. b \in Block /\ Num[b] \in Nat
    BY <1>1, AncBasic, Numbers
  <1> QED BY <1>1, <1>2 DEF NewController, Controllers, Outcomes, Irreversible

\* startup in irreversible mode, from a consistent snapshot of a block of the log or from
\* the genesis state.
LEMMA StartAtLib ==
    ASSUME NEW c, AtLib(c), NEW opened \in BOOLEAN, NEW room
    PROVE  /\ LET r == StartFromGenesis(c, opened, "irreversible", Bad, room)
              IN  AtLib(r) /\ r.outcome = "ok" /\ r.blog = c.blog
           /\ \A s : s.state = s.head /\ s.head \in Anc[c.blog] =>
                 LET r == StartFromSnapshot(c, s, opened, "irreversible", Bad, room)
                 IN  AtLib(r) /\ r.outcome = "ok" /\ r.blog = c.blog
  <1>1. /\ c.blog \in Block /\ FdbOK(c.fdb) /\ c.fdb.root = c.blog /\ c.fdb.head = c.blog
        /\ Anc[c.blog] \cap Bad = {} /\ Num[c.blog] \in Nat
    BY AtLibIs, Numbers DEF Controllers
  <1>2. ASSUME NEW b \in Anc[c.blog], NEW n \in Controllers, Irreversible(n), n.fdb = c.fdb,
               n.blog = c.blog, n.head = b, n.db = b, n.rev = Num[b], n.base = Num[b],
               n.outcome = "ok"
        PROVE  LET r == InitController(n, opened, Bad, room)
               IN  AtLib(r) /\ r.outcome = "ok" /\ r.blog = c.blog
    BY <1>1, <1>2, InitAtLib
  <1>3. LET r == StartFromGenesis(c, opened, "irreversible", Bad, room)
        IN  AtLib(r) /\ r.outcome = "ok" /\ r.blog = c.blog
    <2>1. PICK m : m = NewController("irreversible", c.fdb, c.blog, Genesis)
      OBVIOUS
    <2>2. Genesis \in Anc[c.blog]
      BY <1>1, GenesisFirst
    <2>3. /\ m \in Controllers /\ Irreversible(m) /\ m.fdb = c.fdb /\ m.blog = c.blog
          /\ m.head = Genesis /\ m.db = Genesis /\ m.rev = Num[Genesis] /\ m.base = Num[Genesis]
          /\ m.outcome = "ok"
      BY <2>1, <2>2, NewAtLib
    <2>4. PICK n : n = [m EXCEPT !.sparse = FALSE]
      OBVIOUS
    <2>5. /\ n \in Controllers /\ n.mode = m.mode /\ n.fdb = c.fdb /\ n.blog = c.blog
          /\ n.head = Genesis /\ n.db = Genesis /\ n.rev = Num[Genesis] /\ n.base = Num[Genesis]
          /\ n.outcome = "ok"
      BY <2>3, <2>4, Zenon DEF Controllers
    <2>6. Irreversible(n)
      BY <2>3, <2>5 DEF Irreversible
    <2>7. StartFromGenesis(c, opened, "irreversible", Bad, room) = InitController(n, opened, Bad, room)
      BY <1>1, <2>1, <2>4 DEF StartFromGenesis
    <2> QED BY <1>2, <2>2, <2>5, <2>6, <2>7
  <1>4. ASSUME NEW s, s.state = s.head, s.head \in Anc[c.blog]
        PROVE  LET r == StartFromSnapshot(c, s, opened, "irreversible", Bad, room)
               IN  AtLib(r) /\ r.outcome = "ok" /\ r.blog = c.blog
    <2>1. PICK b \in Anc[c.blog] : b = s.head
      BY <1>4
    <2>2. PICK n : n = NewController("irreversible", c.fdb, c.blog, b)
      OBVIOUS
    <2>3. /\ n \in Controllers /\ Irreversible(n) /\ n.fdb = c.fdb /\ n.blog = c.blog
          /\ n.head = b /\ n.db = b /\ n.rev = Num[b] /\ n.base = Num[b]
          /\ n.outcome = "ok"
      BY <2>2, NewAtLib
    <2>4. [n EXCEPT !.db = n.db] = n
      BY <2>3 DEF Controllers
    <2>5. Num[b] \in Nat /\ Num[b] <= Num[c.blog]
      BY <1>1, AncNumbers, Numbers
    <2>6. PICK known : known = IF opened THEN AtLeast(Num[c.blog], Num[c.fdb.head]) ELSE Num[c.blog]
      OBVIOUS
    <2>7. ~(Num[s.head] > known)
      BY <1>1, <2>1, <2>5, <2>6 DEF AtLeast
    <2>8. StartFromSnapshot(c, s, opened, "irreversible", Bad, room)
            = InitController([n EXCEPT !.db = n.db], opened, Bad, room)
      BY <1>4, <2>1, <2>2, <2>6, <2>7 DEF StartFromSnapshot
    <2> QED BY <1>2, <2>3, <2>4, <2>8
  <1> QED BY <1>3, <1>4

\* What the process leaves on disk.
LEMMA OnDiskAtLib ==
    ASSUME NEW c, AtLib(c), NEW has
    PROVE  AtLib(OnDisk(c, has)) /\ OnDisk(c, has).blog = c.blog
  <1>1. PICK b : b = c.blog
    OBVIOUS
  <1>2. /\ b \in Block /\ c.mode = "irreversible" /\ c.outcome \in {"ok", "threw"}
        /\ Anc[b] \cap Bad = {} /\ Num[b] \in Nat
    BY <1>1, AtLibIs, Numbers DEF Controllers, Irreversible
  <1>3. PICK fd : fd = IF has THEN c.fdb ELSE ResetTo(b)
    OBVIOUS
  <1>4. FdbOK(fd) /\ fd.root = b /\ fd.head = b /\ fd.valid = {} /\ fd \in ForkDb
    <2>1. /\ FdbOK(ResetTo(b)) /\ ResetTo(b).root = b /\ ResetTo(b).head = b
          /\ ResetTo(b).valid = {}
      BY <1>2, ResetOK DEF ResetTo
    <2>2. FdbOK(c.fdb) /\ c.fdb.root = b /\ c.fdb.head = b /\ c.fdb.valid = {}
      BY <1>1, AtLibIs
    <2> QED BY <1>3, <2>1, <2>2 DEF FdbOK
  <1>5. PICK n : n = NewController(c.mode, fd, b, b)
    OBVIOUS
  <1>6. PICK r : r = OnDisk(c, has)
    OBVIOUS
  <1>7. r = [n EXCEPT !.outcome = c.outcome]
    BY <1>1, <1>3, <1>5, <1>6 DEF OnDisk
  <1>8. /\ n \in Controllers /\ n.mode = "irreversible" /\ n.fdb = fd /\ n.blog = b
        /\ n.head = b /\ n.db = b /\ n.rev = Num[b] /\ n.base = Num[b]
    BY <1>2, <1>4, <1>5 DEF NewController, Controllers, Outcomes
  <1>9. /\ r \in Controllers /\ r.mode = "irreversible" /\ r.fdb = fd /\ r.blog = b
        /\ r.head = b /\ r.db = b /\ r.rev = Num[b] /\ r.base = Num[b]
        /\ r.outcome \in {"ok", "threw"}
    BY <1>2, <1>7, <1>8, Zenon DEF Controllers, Outcomes
  <1> QED BY <1>1, <1>2, <1>4, <1>6, <1>9, AtLibIs DEF Irreversible

\* A snapshot of the last block of the log.
LEMMA SnapshotAtLib ==
    ASSUME NEW c, AtLib(c), NEW who \in {"shutdown", "child", "orphan"}
    PROVE  LET s == WrittenBy(who, c)
           IN  s \in Snapshots /\ s.state = s.head /\ s.head \in Anc[c.blog]
  <1>1. c.blog \in Block /\ c.fdb.head = c.blog /\ c.db = c.blog
    BY AtLibIs DEF Controllers
  <1> QED BY <1>1, AncBasic DEF WrittenBy, Snapshot, Snapshots

\* The snapshots of a node are of blocks of its log, also when the log has grown.
Faithful(S, b) == \A s \in S : s.state = s.head /\ s.head \in Anc[b]

\* The child of a process that ended.
LEMMA OrphanedFaithful ==
    ASSUME AtMostOne(child), NEW b, Faithful(child, b), Orphaned
    PROVE  AtMostOne(child') /\ Faithful(child', b)
  <1>1. child' = {[s EXCEPT !.by = "orphan"] : s \in child}
    BY DEF Orphaned
  <1>2. CASE child = {}
    BY <1>1, <1>2 DEF AtMostOne, Faithful
  <1>3. CASE \E s \in Snapshots : child = {s}
    <2>1. PICK s \in Snapshots : child = {s}
      BY <1>3
    <2>2. PICK o : o = [s EXCEPT !.by = "orphan"]
      OBVIOUS
    <2>3. o \in Snapshots /\ o.state = s.state /\ o.head = s.head
      BY <2>2, Zenon DEF Snapshots
    <2>4. child' = {o}
      BY <1>1, <2>1, <2>2
    <2> QED BY <2>1, <2>3, <2>4 DEF AtMostOne, Faithful
  <1> QED BY <1>2, <1>3 DEF AtMostOne

\* A node that was never started.
LEMMA InitAtLibInv ==
    ASSUME IrreversibleOnly, Init
    PROVE  AtLibInv
  <1>1. ctl = NewController("irreversible", ResetTo(Genesis), Genesis, Genesis)
    BY DEF IrreversibleOnly, Init
  <1>2. PICK fd : fd = ResetTo(Genesis)
    OBVIOUS
  <1>3. FdbOK(fd) /\ fd.root = Genesis /\ fd.head = Genesis /\ fd.valid = {} /\ fd \in ForkDb
    BY <1>2, GenesisIsGood, ResetOK DEF ResetTo, FdbOK
  <1>4. Num[Genesis] \in Nat
    BY GenesisIsGood, Numbers
  <1>5. PICK n : n = NewController("irreversible", fd, Genesis, Genesis)
    OBVIOUS
  <1>6. /\ n \in Controllers /\ n.mode = "irreversible" /\ n.fdb = fd /\ n.blog = Genesis
        /\ n.head = Genesis /\ n.db = Genesis /\ n.rev = Num[Genesis] /\ n.base = Num[Genesis]
        /\ n.outcome = "ok"
    BY <1>3, <1>4, <1>5, GenesisIsGood DEF NewController, Controllers, Outcomes
  <1>7. AtLib(n)
    BY <1>3, <1>6, GenesisIsGood, AtLibIs DEF Irreversible
  <1> QED BY <1>1, <1>2, <1>5, <1>7 DEF Init, AtLibInv, AtMostOne

\* on_incoming_block
LEMMA ReceiveBlockAtLib ==
    ASSUME IrreversibleOnly, AtLibInv, NEW b \in Block, ReceiveBlock(b)
    PROVE  AtLibInv'
  <1>1. /\ up /\ AtLib(ctl) /\ ControllerOK(ctl) /\ Irreversible(ctl) /\ ctl.head = ctl.blog
        /\ CanAdd(ctl.fdb, b)
    BY DEF ReceiveBlock, Deliverable, AtLibInv, AtLib
  <1>2. ctl.db = ctl.head
    BY <1>1, AtLibIs
  <1>3. Pushed(PushBlock(ctl, b, Bad, MaxNum))
    <2>1. Rooms = {MaxNum}
      BY DEF IrreversibleOnly, Rooms
    <2> QED BY <1>2, <2>1 DEF ReceiveBlock, FailSets
  <1>4. PICK r : r = PushBlock(ctl, b, Bad, MaxNum)
    OBVIOUS
  <1>5. Follows(r, ctl) /\ LogsAll(r, ctl, MaxNum)
    BY <1>1, <1>4, MaxNumIs, PushBlockOK
  <1>6. /\ AtLib(r) /\ r.outcome # "empty_back" /\ ctl.blog \in Anc[r.blog] /\ r.blog \in Block
    <2>1. AtLib(r)
      BY <1>1, <1>5 DEF Follows, LogsAll, AtLib, Irreversible
    <2> QED BY <1>5, <2>1, AtLibIs DEF Follows, ControllerOK, Controllers
  <1>7. up' = TRUE /\ ctl' = r /\ BackgroundSnapshot(r) /\ saved' = saved /\ snap' = snap
    BY <1>3, <1>4, <1>6 DEF Pushed, ReceiveBlock
  <1>8. Anc[ctl.blog] \subseteq Anc[r.blog]
    BY <1>6, AncTransitive
  <1>9. PICK s : s = WrittenBy("child", r)
    OBVIOUS
  <1>10. s \in Snapshots /\ s.state = s.head /\ s.head \in Anc[r.blog]
    BY <1>6, <1>9, SnapshotAtLib
  <1>11. child' = child \/ child' = {s}
    BY <1>7, <1>9 DEF BackgroundSnapshot
  <1>12. AtMostOne(child')
    BY <1>10, <1>11 DEF AtMostOne, AtLibInv
  <1>13. \A x \in snap' \cup child' : x.state = x.head /\ x.head \in Anc[r.blog]
    BY <1>7, <1>8, <1>10, <1>11 DEF AtLibInv
  <1> QED BY <1>6, <1>7, <1>12, <1>13 DEF AtLibInv

\* startup
LEMMA StartKeepsAtLib ==
    ASSUME IrreversibleOnly, AtLibInv, NEW mode \in Modes, Start(mode)
    PROVE  AtLibInv'
  <1>1. /\ AtLib(ctl) /\ saved \in BOOLEAN /\ snap' = snap /\ child' = child
        /\ mode = "irreversible"
    BY DEF Start, AtLibInv, IrreversibleOnly
  <1>2. PICK r : Started(r) /\ AtLib(r) /\ r.outcome = "ok" /\ r.blog = ctl.blog
    <2>1. PICK room \in Rooms :
             \/ \E s \in snap :
                \E fails \in FailSets(ctl.fdb.index \cup Anc[ctl.blog], s.state, s.head) :
                   Started(StartFromSnapshot(ctl, s, saved, mode, fails, room))
             \/ snap = {} /\ Started(StartFromGenesis(ctl, saved, mode, Bad, room))
      BY DEF Start
    <2>2. CASE \E s \in snap :
               \E fails \in FailSets(ctl.fdb.index \cup Anc[ctl.blog], s.state, s.head) :
                   Started(StartFromSnapshot(ctl, s, saved, mode, fails, room))
      <3>1. PICK s \in snap :
               \E fails \in FailSets(ctl.fdb.index \cup Anc[ctl.blog], s.state, s.head) :
                   Started(StartFromSnapshot(ctl, s, saved, mode, fails, room))
        BY <2>2
      <3>2. s.state = s.head /\ s.head \in Anc[ctl.blog]
        BY <3>1 DEF AtLibInv
      <3>3. Started(StartFromSnapshot(ctl, s, saved, "irreversible", Bad, room))
        BY <1>1, <3>1, <3>2 DEF FailSets
      <3>4. PICK r : r = StartFromSnapshot(ctl, s, saved, "irreversible", Bad, room)
        OBVIOUS
      <3>5. AtLib(r) /\ r.outcome = "ok" /\ r.blog = ctl.blog
        BY <1>1, <3>2, <3>4, StartAtLib
      <3> QED BY <3>3, <3>4, <3>5
    <2>3. CASE snap = {} /\ Started(StartFromGenesis(ctl, saved, mode, Bad, room))
      BY <1>1, <2>3, StartAtLib
    <2> QED BY <2>1, <2>2, <2>3
  <1>3. up' = TRUE /\ ctl' = r /\ saved' = FALSE
    BY <1>2 DEF Started
  <1> QED BY <1>1, <1>2, <1>3 DEF AtLibInv

\* A change of the outcome.
LEMMA EndedAtLib ==
    ASSUME NEW c, AtLib(c)
    PROVE  AtLib(Ended(c, "ok")) /\ Ended(c, "ok").blog = c.blog
  <1>1. PICK r : r = Ended(c, "ok")
    OBVIOUS
  <1>2. c \in Controllers
    BY AtLibIs
  <1>3. /\ r \in Controllers /\ r.mode = c.mode /\ r.fdb = c.fdb /\ r.blog = c.blog
        /\ r.head = c.head /\ r.db = c.db /\ r.rev = c.rev /\ r.base = c.base
        /\ r.outcome = "ok"
    BY <1>1, <1>2 DEF Ended, Controllers, Outcomes
  <1> QED BY <1>1, <1>3, AtLibIs DEF Irreversible

\* Shutdown and crash, at any point.
LEMMA StopAtLib ==
    ASSUME AtLibInv, Shutdown \/ Crash
    PROVE  AtLibInv'
  <1>1. PICK has \in BOOLEAN : ctl' = OnDisk(ctl, has) \/ ctl' = Ended(OnDisk(ctl, has), "ok")
    BY DEF Shutdown, Crash
  <1>2. AtLib(ctl') /\ ctl'.blog = ctl.blog
    BY <1>1, OnDiskAtLib, EndedAtLib DEF AtLibInv
  <1>3. up' = FALSE /\ saved' \in BOOLEAN /\ Orphaned
    BY DEF Shutdown, Crash, AtLibInv
  <1>4. AtMostOne(child') /\ Faithful(child', ctl.blog)
    BY <1>3, OrphanedFaithful DEF AtLibInv, Faithful
  <1>5. PICK s : s = WrittenBy("shutdown", ctl)
    OBVIOUS
  <1>6. s \in Snapshots /\ s.state = s.head /\ s.head \in Anc[ctl.blog]
    BY <1>5, SnapshotAtLib DEF AtLibInv
  <1>7. snap' = snap \/ snap' = {s}
    BY <1>5 DEF Shutdown, Crash
  <1>8. AtMostOne(snap') /\ Faithful(snap', ctl.blog)
    BY <1>6, <1>7 DEF AtMostOne, Faithful, AtLibInv
  <1> QED BY <1>2, <1>3, <1>4, <1>8 DEF AtLibInv, Faithful

\* Every step of the node in irreversible mode.
LEMMA AtLibStep ==
    ASSUME IrreversibleOnly, AtLibInv, [Next]_vars
    PROVE  AtLibInv'
  <1>1. CASE \E b \in Block : ReceiveBlock(b)
    BY <1>1, ReceiveBlockAtLib
  <1>2. CASE \E mode \in Modes : Start(mode)
    BY <1>2, StartKeepsAtLib
  <1>3. CASE Shutdown \/ Crash
    BY <1>3, StopAtLib
  <1>4. CASE ChildDone
    BY <1>4 DEF ChildDone, AtLibInv, AtMostOne
  <1>5. CASE ChildDies
    BY <1>5 DEF ChildDies, AtLibInv, AtMostOne
  <1>6. CASE RemoveState
    BY <1>6 DEF RemoveState, AtLibInv, AtMostOne
  <1>7. CASE UNCHANGED vars
    BY <1>7 DEF vars, AtLibInv
  <1> QED BY <1>1, <1>2, <1>3, <1>4, <1>5, <1>6, <1>7 DEF Next

\* The inductive invariant of a node in irreversible mode.
THEOREM AtLibInvariant ==
    ASSUME IrreversibleOnly
    PROVE  Spec => []AtLibInv
  <1>1. Init => AtLibInv
    BY InitAtLibInv
  <1>2. AtLibInv /\ [Next]_vars => AtLibInv'
    BY AtLibStep
  <1> QED BY <1>1, <1>2, PTL DEF Spec

\* In irreversible mode the head is the last irreversible block and the root of the fork
\* database is the head of the block log, through restarts and crashes.
THEOREM HeadIsLib ==
    ASSUME IrreversibleOnly
    PROVE  Spec => []IrreversibleHeadIsLib
  <1>1. AtLibInv => IrreversibleHeadIsLib
    BY AtLibIs DEF AtLibInv, IrreversibleHeadIsLib
  <1> QED BY <1>1, AtLibInvariant, PTL

\* In irreversible mode a snapshot, of a shutdown, of a child or of an orphan, holds the state
\* of the block it names.
THEOREM SnapshotsConsistent ==
    ASSUME IrreversibleOnly
    PROVE  Spec => []SnapshotConsistent
  <1>1. AtLibInv => SnapshotConsistent
    BY DEF AtLibInv, SnapshotConsistent
  <1> QED BY <1>1, AtLibInvariant, PTL

\* In irreversible mode head, state database and fork database fit together through restarts
\* and crashes too.
THEOREM IrreversibleConsistent ==
    ASSUME IrreversibleOnly
    PROVE  Spec => []Consistent
  <1>1. AtLibInv => Consistent
    <2>1. SUFFICES ASSUME AtLibInv PROVE Consistent
      OBVIOUS
    <2>2. ctl \in Controllers /\ ctl.db = ctl.head /\ FdbOK(ctl.fdb)
      BY <2>1, AtLibIs DEF AtLibInv
    <2>3. TypeOK
      BY <2>1, <2>2, AtMostOneIs DEF TypeOK, AtLibInv
    <2> QED BY <2>2, <2>3 DEF Consistent, StateMatchesHead, ForkDbWellFormed, FdbOK
  <1> QED BY <1>1, AtLibInvariant, PTL
=============================================================================
