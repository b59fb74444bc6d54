--------------------------- MODULE RaftStoreProofs ---------------------------
(***************************************************************************)
(* Proofs about RaftStore, for every number of entries, terms and          *)
(* snapshots, with a crash after any write of any operation.               *)
(*                                                                         *)
(* AckedSurvive and HeadNotBehind say what a restart would load from the   *)
(* disk, so each write of an operation has to keep them; none is inductive *)
(* without what the process holds in memory, from which the next write is  *)
(* computed: start and last index (LogInv), head block and commit index    *)
(* (HeadInv), and the snapshot that is saved and not yet applied           *)
(* (SnapshotInv).  A crash forgets the memory and keeps the rest.          *)
(***************************************************************************)
EXTENDS RaftStore, SequenceTheorems, FiniteSetTheorems, WellFoundedInduction, TLAPS

-----------------------------------------------------------------------------
(* The inductive invariant *)

\* The head block b is not behind the entries up to i.
Covers(b, i) == \A j \in (1..i) \ Config : j <= b

\* The process.
Memory ==
    [up : BOOLEAN, start : Nat, last : Nat, head : SUBSET Index, commit : 0..MaxIndex,
     saved : 0..MaxIndex]

\* A process that does not run holds nothing.
MemOK == mem \in Memory /\ (mem.up \/ mem = Down)

\* A key has at most one value.
Single == \A k \in Key : \A v, w \in disk[k] : v = w

\* The log.  While the process runs it holds what a restart would load; nothing is
\* acknowledged before the log is initialised.
LogInv ==
    /\ \A i \in 0..MaxIndex : disk[Log(i)] \subseteq Nat
    /\ disk[StartIdx] \subseteq Nat \ {0}
    /\ disk[LastIdx] \subseteq 0..MaxIndex
    /\ acked \in [Index -> SUBSET (1..MaxTerm)]
    /\ AckedSurvive
    /\ mem.up => /\ disk[Log(0)] # {}
                 /\ disk[StartIdx] = {mem.start}
                 /\ disk[LastIdx] = {mem.last}
    /\ disk[Log(0)] = {} => \A i \in Index : acked[i] = {}

\* What is committed.  The head block in memory is the stored one or none, and covers the
\* index in memory; the stored index is not ahead of that one, except that a process
\* whose store has no block starts again from 0.
HeadInv ==
    /\ disk[HeadBlk] \subseteq Index
    /\ disk[LastCommit] \subseteq Index
    /\ HeadNotBehind
    /\ mem.up =>
         /\ mem.head \subseteq disk[HeadBlk]
         /\ \A j \in (1..mem.commit) \ Config : \E b \in mem.head : j <= b
         /\ \A c \in disk[LastCommit] : c <= mem.commit \/ 1..c \subseteq Config

\* The snapshots.  The one that was saved and is to be applied is of an index whose
\* entry in the map is not one that the next snapshot overwrites.
SnapshotInv ==
    /\ \A i \in Index : disk[SnapshotOf(i)] \subseteq 1..MaxSnapshot
    /\ \A k \in 1..MaxSnapshot : disk[Snapshot(k)] \subseteq Index \X Index
    /\ disk[LastSnapshot] \subseteq 1..MaxSnapshot
    /\ SnapshotReadable
    /\ mem.up /\ mem.saved # 0 =>
         \A k \in disk[SnapshotOf(mem.saved)] :
            /\ \E l \in disk[LastSnapshot] : k <= l
            /\ \A t \in disk[Snapshot(k)] : Covers(t[2], mem.saved)

\* The inductive invariant.
Inv == MemOK /\ Single /\ LogInv /\ HeadInv /\ SnapshotInv

-----------------------------------------------------------------------------
(* The operators *)

\* The head block at an index exists, and no later entry up to it has a block.
LEMMA BlockAtCovers ==
    ASSUME NEW i \in Nat
    PROVE  BlockAt(i) \in 0..i /\ Covers(BlockAt(i), i)
  <1> DEFINE T == {i - b : b \in {c \in 0..i : c \notin Config}}
  <1>1. T \in SUBSET Nat /\ i \in T
    BY RaftStoreAssumption
  <1>2. PICK x \in T : \A y \in T : x <= y
    <2> DEFINE R == {ss \in Nat \X Nat : ss[1] < ss[2]}
    <2>1. IsWellFoundedOn(R, Nat)
      BY NatLessThanWellFounded DEF OpToRel
    <2>2. PICK x \in T : \A y \in T : ~(<<y, x>> \in R)
      <3> HIDE DEF R, T
      <3> QED BY <1>1, <2>1, WFMin
    <2>3. \A y \in T : ~(y < x)
      BY <1>1, <2>2
    <2>4. \A y \in T : x <= y
      <3> HIDE DEF T
      <3> QED BY <1>1, <2>3
    <2> QED BY <2>4
  <1>3. PICK b \in 0..i : b \notin Config /\ x = i - b
    BY <1>2
  <1>4. ASSUME NEW j \in b+1..i PROVE j \in Config
    <2>1. SUFFICES ASSUME j \notin Config PROVE FALSE
      OBVIOUS
    <2>2. j \in 0..i /\ i - j \in T
      BY <2>1, <1>3
    <2>3. x <= i - j
      BY <1>2, <2>2
    <2> QED BY <2>2, <2>3, <1>3, <1>4
  <1>5. \E c \in 0..i : c \notin Config /\ \A j \in c+1..i : j \in Config
    BY <1>3, <1>4
  <1>6. /\ BlockAt(i) \in 0..i /\ BlockAt(i) \notin Config
        /\ \A j \in BlockAt(i)+1..i : j \in Config
    <2> DEFINE P(c) == c \notin Config /\ \A j \in c+1..i : j \in Config
    <2>1. \E c \in 0..i : P(c)
      BY <1>5
    <2>2. BlockAt(i) = CHOOSE c \in 0..i : P(c)
      BY DEF BlockAt
    <2>3. BlockAt(i) \in 0..i /\ P(BlockAt(i))
      <3> HIDE DEF P
      <3> QED BY <2>1, <2>2
    <2> QED BY <2>3
  <1>7. QED BY <1>6 DEF Covers

\* The writes before the n-th of ws have been done, and no others.
Done(ws, n) ==
    /\ \A k \in Key : (\A j \in 1..Len(ws) : ws[j][1] # k) => disk'[k] = disk[k]
    /\ \A j \in 1..Len(ws) : ws[j][1] \in Key =>
          disk'[ws[j][1]] = IF j <= n THEN ws[j][2] ELSE disk[ws[j][1]]

\* The operation completes, or the process crashes.
Completed(m, new) ==
    /\ mem' = m
    /\ acked' = [i \in Index |-> IF i \in DOMAIN new THEN new[i] ELSE acked[i]]
Crashed(new) ==
    /\ mem' = Down
    /\ acked' = [i \in Index |-> IF i \in DOMAIN new THEN {} ELSE acked[i]]

\* An operation whose writes are to different keys either does all of them and
\* completes, or is cut short by a crash after some of them.
LEMMA OperationEffect ==
    ASSUME NEW S, NEW ws \in Seq(S), NEW m, NEW new, Operation(ws, m, new),
           \A j, l \in 1..Len(ws) : ws[j][1] = ws[l][1] => j = l
    PROVE  \E n \in 0..Len(ws) :
              /\ Done(ws, n)
              /\ (n = Len(ws) /\ Completed(m, new)) \/ Crashed(new)
  <1>1. ASSUME NEW n \in 0..Len(ws), NEW w \in Seq(S), Len(w) = n,
               \A j \in 1..n : w[j] = ws[j], disk' = Written(disk, w)
        PROVE  Done(ws, n)
    <2>1. Len(ws) \in Nat /\ DOMAIN w = 1..n
      BY <1>1
    <2>2. ASSUME NEW k \in Key, \A j \in 1..n : ws[j][1] # k
          PROVE  disk'[k] = disk[k]
      <3>1. {j \in DOMAIN w : w[j][1] = k} = {}
        BY <1>1, <2>1, <2>2
      <3> QED BY <1>1, <3>1 DEF Written
    <2>3. ASSUME NEW j \in 1..n, ws[j][1] \in Key
          PROVE  disk'[ws[j][1]] = ws[j][2]
      <3>1. {l \in DOMAIN w : w[l][1] = ws[j][1]} = {j}
        BY <1>1, <2>1, <2>3
      <3>2. (CHOOSE l \in {j} : \A o \in {j} : o <= l) = j
        BY <2>1
      <3> QED BY <1>1, <2>3, <3>1, <3>2 DEF Written
    <2>4. \A k \in Key : (\A j \in 1..Len(ws) : ws[j][1] # k) => disk'[k] = disk[k]
      BY <2>1, <2>2
    <2>5. ASSUME NEW j \in 1..Len(ws), ws[j][1] \in Key, ~(j <= n)
          PROVE  disk'[ws[j][1]] = disk[ws[j][1]]
      <3>1. \A l \in 1..n : ws[l][1] # ws[j][1]
        BY <2>1, <2>5
      <3> QED BY <3>1, <2>5, <2>2
    <2>6. ASSUME NEW j \in 1..Len(ws), ws[j][1] \in Key
          PROVE  disk'[ws[j][1]] = IF j <= n THEN ws[j][2] ELSE disk[ws[j][1]]
      BY <2>1, <2>3, <2>5, <2>6
    <2> QED BY <2>4, <2>6 DEF Done
  <1>2. CASE /\ disk' = Written(disk, ws) /\ mem' = m
             /\ acked' = [i \in Index |-> IF i \in DOMAIN new THEN new[i] ELSE acked[i]]
    BY <1>1, <1>2 DEF Completed
  <1>3. ASSUME NEW n \in 0..Len(ws), disk' = Written(disk, SubSeq(ws, 1, n)), mem' = Down,
               acked' = [i \in Index |-> IF i \in DOMAIN new THEN {} ELSE acked[i]]
        PROVE  Done(ws, n)
    <2>1. \A i \in 1..n : ws[i] \in S
      OBVIOUS
    <2>2. /\ SubSeq(ws, 1, n) \in Seq(S) /\ Len(SubSeq(ws, 1, n)) = n
          /\ \A i \in 1..n : SubSeq(ws, 1, n)[i] = ws[i]
      BY <2>1, SubSeqProperties
    <2> QED BY <1>1, <1>3, <2>2
  <1>4. QED BY <1>2, <1>3 DEF Operation, Completed, Crashed

\* An operation with one write
LEMMA WriteOne ==
    ASSUME NEW a \in Key, NEW x, NEW m, NEW new, Operation(<<Write(a, x)>>, m, new)
    PROVE  /\ \A k \in Key \ {a} : disk'[k] = disk[k]
           /\ \/ disk'[a] = {x} /\ (Completed(m, new) \/ Crashed(new))
              \/ disk'[a] = disk[a] /\ Crashed(new)
  <1> DEFINE ws == <<Write(a, x)>>
  <1>1. /\ ws \in Seq({Write(a, x)}) /\ Len(ws) = 1 /\ ws[1][1] = a /\ ws[1][2] = {x}
    BY DEF Write
  <1>2. PICK n \in 0..1 : Done(ws, n) /\ ((n = 1 /\ Completed(m, new)) \/ Crashed(new))
    <2>1. Operation(ws, m, new) /\ \A j, l \in 1..1 : ws[j][1] = ws[l][1] => j = l
      OBVIOUS
    <2> HIDE DEF ws
    <2> QED BY <1>1, <2>1, OperationEffect
  <1>3. /\ \A k \in Key \ {a} : disk'[k] = disk[k]
        /\ disk'[a] = IF 1 <= n THEN {x} ELSE disk[a]
    <2> HIDE DEF ws
    <2>1. \A k \in Key \ {a} : \A j \in 1..1 : ws[j][1] # k
      BY <1>1
    <2>2. 1 \in 1..1
      OBVIOUS
    <2> QED BY <1>1, <1>2, <2>1, <2>2 DEF Done
  <1>4. QED BY <1>2, <1>3

\* An operation with two writes
LEMMA WriteTwo ==
    ASSUME NEW a \in Key, NEW b \in Key, a # b, NEW x, NEW y, NEW m, NEW new,
           Operation(<<Write(a, x), Write(b, y)>>, m, new)
    PROVE  /\ \A k \in Key \ {a, b} : disk'[k] = disk[k]
           /\ \/ /\ disk'[a] = {x} /\ disk'[b] = {y}
                 /\ Completed(m, new) \/ Crashed(new)
              \/ /\ disk'[a] \in {disk[a], {x}} /\ disk'[b] = disk[b]
                 /\ Crashed(new)
  <1> DEFINE ws == <<Write(a, x), Write(b, y)>>
  <1>1. /\ ws \in Seq({Write(a, x), Write(b, y)}) /\ Len(ws) = 2
        /\ ws[1][1] = a /\ ws[1][2] = {x} /\ ws[2][1] = b /\ ws[2][2] = {y}
    BY DEF Write
  <1>2. \A j, l \in 1..2 : ws[j][1] = ws[l][1] => j = l
    <2> HIDE DEF ws
    <2> QED BY <1>1
  <1>3. PICK n \in 0..2 : Done(ws, n) /\ ((n = 2 /\ Completed(m, new)) \/ Crashed(new))
    <2>1. Operation(ws, m, new)
      OBVIOUS
    <2> HIDE DEF ws
    <2> QED BY <1>1, <1>2, <2>1, OperationEffect
  <1>4. /\ \A k \in Key \ {a, b} : disk'[k] = disk[k]
        /\ disk'[a] = IF 1 <= n THEN {x} ELSE disk[a]
        /\ disk'[b] = IF 2 <= n THEN {y} ELSE disk[b]
    <2> HIDE DEF ws
    <2>1. \A k \in Key \ {a, b} : \A j \in 1..2 : ws[j][1] # k
      BY <1>1
    <2>2. 1 \in 1..2 /\ 2 \in 1..2
      OBVIOUS
    <2> QED BY <1>1, <1>3, <2>1, <2>2 DEF Done
  <1>5. QED BY <1>3, <1>4

\* An operation with three writes
LEMMA WriteThree ==
    ASSUME NEW a \in Key, NEW b \in Key, NEW c \in Key, a # b, a # c, b # c,
           NEW x, NEW y, NEW z, NEW m, NEW new,
           Operation(<<Write(a, x), Write(b, y), Write(c, z)>>, m, new)
    PROVE  /\ \A k \in Key \ {a, b, c} : disk'[k] = disk[k]
           /\ \/ /\ disk'[a] = {x} /\ disk'[b] = {y} /\ disk'[c] = {z}
                 /\ Completed(m, new) \/ Crashed(new)
              \/ /\ disk'[a] = {x} /\ disk'[b] = {y} /\ disk'[c] = disk[c]
                 /\ Crashed(new)
              \/ /\ disk'[a] \in {disk[a], {x}} /\ disk'[b] = disk[b] /\ disk'[c] = disk[c]
                 /\ Crashed(new)
  <1> DEFINE ws == <<Write(a, x), Write(b, y), Write(c, z)>>
  <1>1. /\ ws \in Seq({Write(a, x), Write(b, y), Write(c, z)}) /\ Len(ws) = 3
        /\ ws[1][1] = a /\ ws[1][2] = {x} /\ ws[2][1] = b /\ ws[2][2] = {y}
        /\ ws[3][1] = c /\ ws[3][2] = {z}
    BY DEF Write
  <1>2. \A j, l \in 1..3 : ws[j][1] = ws[l][1] => j = l
    <2> HIDE DEF ws
    <2> QED BY <1>1
  <1>3. PICK n \in 0..3 : Done(ws, n) /\ ((n = 3 /\ Completed(m, new)) \/ Crashed(new))
    <2>1. Operation(ws, m, new)
      OBVIOUS
    <2> HIDE DEF ws
    <2> QED BY <1>1, <1>2, <2>1, OperationEffect
  <1>4. /\ \A k \in Key \ {a, b, c} : disk'[k] = disk[k]
        /\ disk'[a] = IF 1 <= n THEN {x} ELSE disk[a]
        /\ disk'[b] = IF 2 <= n THEN {y} ELSE disk[b]
        /\ disk'[c] = IF 3 <= n THEN {z} ELSE disk[c]
    <2> HIDE DEF ws
    <2>1. \A k \in Key \ {a, b, c} : \A j \in 1..3 : ws[j][1] # k
      BY <1>1
    <2>2. 1 \in 1..3 /\ 2 \in 1..3 /\ 3 \in 1..3
      OBVIOUS
    <2> QED BY <1>1, <1>3, <2>1, <2>2 DEF Done
  <1>5. QED BY <1>3, <1>4

-----------------------------------------------------------------------------
(* Steps of the log store *)

\* The keys of the state machine
MachineKey ==
    {HeadBlk, LastCommit, LastSnapshot} \cup {SnapshotOf(i) : i \in Index}
      \cup {Snapshot(k) : k \in 1..MaxSnapshot}

\* An operation that replaces the entries R, after which the log begins at st and ends at
\* la: completed, or cut short.
LogStep(R, st, la) ==
    /\ \A k \in MachineKey : disk'[k] = disk[k]
    /\ \A i \in (0..MaxIndex) \ R : disk'[Log(i)] = disk[Log(i)]
    /\ \A i \in R : disk'[Log(i)] \subseteq Nat /\ \A v, w \in disk'[Log(i)] : v = w
    /\ disk'[StartIdx] \in {disk[StartIdx], {st}}
    /\ disk'[LastIdx] \in {disk[LastIdx], {la}}
    /\ \/ /\ mem' \in Memory /\ mem'.up /\ mem'.start = st /\ mem'.last = la
          /\ mem'.head = mem.head /\ mem'.commit = mem.commit /\ mem'.saved = mem.saved
          /\ disk'[StartIdx] = {st} /\ disk'[LastIdx] = {la}
          /\ acked' \in [Index -> SUBSET (1..MaxTerm)]
          /\ \A i \in Index \ R : acked'[i] = acked[i]
          /\ \A i \in R : acked'[i] # {} => i <= la /\ acked'[i] = disk'[Log(i)]
       \/ /\ mem' = Down
          /\ acked' = [i \in Index |-> IF i \in R THEN {} ELSE acked[i]]

\* The kinds of keys differ.
LEMMA Keys ==
    /\ StartIdx \in Key /\ LastIdx \in Key /\ HeadBlk \in Key /\ LastCommit \in Key
    /\ LastSnapshot \in Key
    /\ \A i \in 0..MaxIndex : Log(i) \in Key
    /\ \A i \in Index : SnapshotOf(i) \in Key
    /\ \A k \in 1..MaxSnapshot : Snapshot(k) \in Key
    /\ MachineKey \subseteq Key
    /\ \A k \in Key : \/ k \in MachineKey \/ k = StartIdx \/ k = LastIdx
                      \/ \E i \in 0..MaxIndex : k = Log(i)
    /\ \A k \in MachineKey : k # StartIdx /\ k # LastIdx /\ \A i : k # Log(i)
  BY DEF Key, MachineKey, StartIdx, LastIdx, HeadBlk, LastCommit, LastSnapshot,
         Log, SnapshotOf, Snapshot

\* What a crash leaves in memory is well formed.
LEMMA DownInMemory == Down \in Memory /\ ~Down.up
  BY RaftStoreAssumption DEF Down, Memory

\* The fields of memory after an assignment to the last index.
LEMMA AssignLast ==
    ASSUME NEW m \in Memory, NEW y \in Nat, NEW n, n = [m EXCEPT !.last = y]
    PROVE  /\ n \in Memory /\ n.up = m.up /\ n.start = m.start /\ n.last = y
           /\ n.head = m.head /\ n.commit = m.commit /\ n.saved = m.saved
  BY DEF Memory

\* What is committed is not touched by a step that keeps its keys and its memory.
LEMMA HeadKept ==
    ASSUME Inv, disk'[HeadBlk] = disk[HeadBlk], disk'[LastCommit] = disk[LastCommit],
           \/ mem' = Down
           \/ mem.up /\ mem'.head = mem.head /\ mem'.commit = mem.commit
    PROVE  HeadInv'
  BY DEF Inv, HeadInv, HeadNotBehind, Down

\* And so are the snapshots.
LEMMA SnapshotsKept ==
    ASSUME Inv, disk'[LastSnapshot] = disk[LastSnapshot],
           \A i \in Index : disk'[SnapshotOf(i)] = disk[SnapshotOf(i)],
           \A k \in 1..MaxSnapshot : disk'[Snapshot(k)] = disk[Snapshot(k)],
           mem' = Down \/ mem'.saved = 0 \/ (mem.up /\ mem'.saved = mem.saved)
    PROVE  SnapshotInv'
  <1>1. /\ disk'[LastSnapshot] = disk[LastSnapshot]
        /\ \A i \in Index : disk'[SnapshotOf(i)] = disk[SnapshotOf(i)]
        /\ \A k \in 1..MaxSnapshot : disk'[Snapshot(k)] = disk[Snapshot(k)]
    OBVIOUS
  <1>2. SnapshotReadable'
    <2>1. ASSUME NEW k \in disk[LastSnapshot]
          PROVE  \E t \in disk'[Snapshot(k)] :
                    /\ \A i \in (1..t[1]) \ Config : i <= t[2]
                    /\ \E j \in disk'[SnapshotOf(t[1])] : disk'[Snapshot(j)] # {}
      <3>1. k \in 1..MaxSnapshot
        BY DEF Inv, SnapshotInv
      <3>2. PICK t \in disk[Snapshot(k)] :
                    /\ \A i \in (1..t[1]) \ Config : i <= t[2]
                    /\ \E j \in disk[SnapshotOf(t[1])] : disk[Snapshot(j)] # {}
        BY DEF Inv, SnapshotInv, SnapshotReadable
      <3>3. t[1] \in Index
        BY <3>1, <3>2 DEF Inv, SnapshotInv
      <3>4. PICK j \in disk[SnapshotOf(t[1])] : disk[Snapshot(j)] # {}
        BY <3>2
      <3>5. j \in 1..MaxSnapshot
        BY <3>3, <3>4 DEF Inv, SnapshotInv
      <3> QED BY <1>1, <3>1, <3>2, <3>3, <3>4, <3>5
    <2> QED BY <1>1, <2>1 DEF SnapshotReadable
  <1>3. ASSUME mem'.up, mem'.saved # 0, NEW k \in disk'[SnapshotOf(mem'.saved)]
        PROVE  /\ \E l \in disk'[LastSnapshot] : k <= l
               /\ \A t \in disk'[Snapshot(k)] : Covers(t[2], mem'.saved)
    <2>1. mem.up /\ mem'.saved = mem.saved /\ mem.saved \in Index
      BY <1>3 DEF Inv, MemOK, Memory, Down, Index
    <2>2. k \in disk[SnapshotOf(mem.saved)] /\ k \in 1..MaxSnapshot
      BY <1>1, <1>3, <2>1 DEF Inv, SnapshotInv
    <2> QED BY <1>1, <1>3, <2>1, <2>2 DEF Inv, SnapshotInv
  <1>4. QED BY <1>1, <1>2, <1>3 DEF Inv, SnapshotInv, Covers

\* A step of the log store preserves the invariant.
LEMMA LogStepInv ==
    ASSUME Inv, mem.up, NEW R \in SUBSET Index, NEW st \in Nat \ {0}, NEW la \in 0..MaxIndex,
           LogStep(R, st, la), \A i \in Index \ R : acked[i] # {} => i <= la
    PROVE  Inv'
  <1>1. MemOK'
    BY DownInMemory DEF MemOK, LogStep
  <1>2. HeadInv' /\ SnapshotInv'
    <2>1. \/ mem' = Down
          \/ mem.up /\ mem'.head = mem.head /\ mem'.commit = mem.commit
                    /\ mem'.saved = mem.saved
      BY DEF LogStep
    <2>2. /\ disk'[HeadBlk] = disk[HeadBlk] /\ disk'[LastCommit] = disk[LastCommit]
          /\ disk'[LastSnapshot] = disk[LastSnapshot]
          /\ \A i \in Index : disk'[SnapshotOf(i)] = disk[SnapshotOf(i)]
          /\ \A k \in 1..MaxSnapshot : disk'[Snapshot(k)] = disk[Snapshot(k)]
      BY DEF LogStep, MachineKey
    <2> QED BY <2>1, <2>2, HeadKept, SnapshotsKept
  <1>3. Single'
    <2>1. ASSUME NEW k \in Key, NEW v \in disk'[k], NEW w \in disk'[k] PROVE v = w
      <3>1. CASE disk'[k] = disk[k]
        BY <2>1, <3>1 DEF Inv, Single
      <3>2. CASE \E i \in R : k = Log(i)
        BY <2>1, <3>2 DEF LogStep
      <3>3. CASE k = StartIdx \/ k = LastIdx
        BY <2>1, <3>3, Keys DEF LogStep, Inv, Single
      <3> QED BY <3>1, <3>2, <3>3, Keys DEF LogStep
    <2> QED BY <2>1 DEF Single
  <1>4. AckedSurvive'
    <2>1. ASSUME NEW i \in Index, acked'[i] # {}
          PROVE  disk'[Log(i)] = acked'[i] /\ \A l \in disk'[LastIdx] : i <= l
      <3>1. CASE i \in R
        BY <2>1, <3>1 DEF LogStep
      <3>2. CASE i \notin R
        <4>1. acked'[i] = acked[i] /\ disk'[Log(i)] = disk[Log(i)]
          <5>1. i \in (0..MaxIndex) \ R /\ i \in Index \ R
            BY <3>2 DEF Index
          <5> QED BY <5>1 DEF LogStep
        <4> QED BY <2>1, <3>2, <4>1 DEF Inv, LogInv, AckedSurvive, LogStep
      <3> QED BY <3>1, <3>2
    <2> QED BY <2>1 DEF AckedSurvive
  <1>5. disk'[Log(0)] = disk[Log(0)]
    BY RaftStoreAssumption DEF LogStep, Index
  <1>6. LogInv'
    <2>1. acked' \in [Index -> SUBSET (1..MaxTerm)]
      BY DEF LogStep, Inv, LogInv
    <2>2. \A i \in 0..MaxIndex : disk'[Log(i)] \subseteq Nat
      BY DEF LogStep, Inv, LogInv
    <2>3. mem'.up => /\ disk'[StartIdx] = {mem'.start} /\ disk'[LastIdx] = {mem'.last}
      BY DEF LogStep, Down
    <2> QED BY <1>4, <1>5, <2>1, <2>2, <2>3 DEF LogStep, Inv, LogInv
  <1>7. QED BY <1>1, <1>2, <1>3, <1>6 DEF Inv

\* What a running process knows of its log.
LEMMA Running ==
    ASSUME Inv, mem.up
    PROVE  /\ mem \in Memory
           /\ mem.start \in Nat \ {0} /\ mem.last \in 0..MaxIndex
           /\ mem.commit \in 0..MaxIndex /\ mem.saved \in 0..MaxIndex
           /\ disk[StartIdx] = {mem.start} /\ disk[LastIdx] = {mem.last}
           /\ \A i \in Index : acked[i] # {} => i <= mem.last
  BY DEF Inv, MemOK, LogInv, Memory, AckedSurvive

\* append
LEMMA AppendEntryInv ==
    ASSUME Inv, NEW t \in 1..MaxTerm, AppendEntry(t)
    PROVE  Inv'
  <1>1. PICK i : i = mem.last + 1
    OBVIOUS
  <1> DEFINE new == [j \in {i} |-> {t}]
  <1>2. PICK m : m = [mem EXCEPT !.last = i]
    OBVIOUS
  <1>3. mem.up /\ i <= MaxIndex /\ Operation(<<Write(Log(i), t), Write(LastIdx, i)>>, m, new)
    BY <1>1, <1>2, Zenon DEF AppendEntry
  <1>4. i \in Index /\ i \in 0..MaxIndex
    BY <1>1, <1>3, Running DEF Index
  <1>5. Log(i) \in Key /\ LastIdx \in Key /\ Log(i) # LastIdx
    BY <1>4, Keys DEF Log, LastIdx
  <1>6. /\ \A k \in Key \ {Log(i), LastIdx} : disk'[k] = disk[k]
        /\ \/ /\ disk'[Log(i)] = {t} /\ disk'[LastIdx] = {i}
              /\ Completed(m, new) \/ Crashed(new)
           \/ /\ disk'[Log(i)] \in {disk[Log(i)], {t}} /\ disk'[LastIdx] = disk[LastIdx]
              /\ Crashed(new)
    <2> HIDE DEF new
    <2> QED BY <1>3, <1>5, WriteTwo
  <1>7. LogStep({i}, mem.start, i)
    <2>1. \A k \in MachineKey : disk'[k] = disk[k]
      BY <1>6, Keys
    <2>2. \A j \in (0..MaxIndex) \ {i} : disk'[Log(j)] = disk[Log(j)]
      BY <1>6, Keys DEF Log, LastIdx
    <2>3. disk'[StartIdx] = disk[StartIdx]
      BY <1>6, Keys DEF Log, LastIdx, StartIdx
    <2>4. disk'[Log(i)] \subseteq Nat /\ \A v, w \in disk'[Log(i)] : v = w
      BY <1>6, <1>4, <1>5 DEF Inv, Single, LogInv
    <2>5. CASE Crashed(new)
      BY <2>1, <2>2, <2>3, <2>4, <2>5, <1>6 DEF LogStep, Crashed
    <2>6. CASE Completed(m, new) /\ disk'[Log(i)] = {t} /\ disk'[LastIdx] = {i}
      <3>1. /\ mem' \in Memory /\ mem'.up /\ mem'.start = mem.start /\ mem'.last = i
            /\ mem'.head = mem.head /\ mem'.commit = mem.commit /\ mem'.saved = mem.saved
        BY <2>6, <1>2, <1>3, <1>4, AssignLast, Running DEF Completed
      <3>2. /\ acked' \in [Index -> SUBSET (1..MaxTerm)]
            /\ \A j \in Index \ {i} : acked'[j] = acked[j]
            /\ acked'[i] = {t}
        BY <2>6, <1>4 DEF Completed, Inv, LogInv
      <3>3. disk'[StartIdx] = {mem.start} /\ i <= i
        BY <2>3, <1>3, <1>4, Running
      <3> QED BY <2>1, <2>2, <2>3, <2>4, <2>6, <3>1, <3>2, <3>3 DEF LogStep
    <2> QED BY <2>5, <2>6, <1>6
  <1>8. QED BY <1>1, <1>3, <1>4, <1>7, Running, LogStepInv

\* The writes ws are of entries R of the log, and of its two ends; no key twice.
LogWrites(ws, R, st, la) ==
    /\ \A j, l \in 1..Len(ws) : ws[j][1] = ws[l][1] => j = l
    /\ \A j \in 1..Len(ws) :
          \/ /\ \E l \in R : ws[j][1] = Log(l)
             /\ ws[j][2] \subseteq Nat /\ \A v, w \in ws[j][2] : v = w
          \/ ws[j][1] = StartIdx /\ ws[j][2] = {st}
          \/ ws[j][1] = LastIdx /\ ws[j][2] = {la}

\* What an operation with such writes does, cut short or not.
LogEffect(ws, R, st, la, m, new) ==
    /\ \A k \in MachineKey : disk'[k] = disk[k]
    /\ \A i \in (0..MaxIndex) \ R : disk'[Log(i)] = disk[Log(i)]
    /\ \A i \in R : disk'[Log(i)] \subseteq Nat /\ \A v, w \in disk'[Log(i)] : v = w
    /\ disk'[StartIdx] \in {disk[StartIdx], {st}}
    /\ disk'[LastIdx] \in {disk[LastIdx], {la}}
    /\ \/ /\ Completed(m, new)
          /\ \A j \in 1..Len(ws) : disk'[ws[j][1]] = ws[j][2]
          /\ \A k \in Key : (\A j \in 1..Len(ws) : ws[j][1] # k) => disk'[k] = disk[k]
       \/ Crashed(new)

\* An operation with such writes has that effect.
LEMMA LogOperation ==
    ASSUME Inv, NEW R \in SUBSET Index, NEW st, NEW la, NEW S, NEW ws \in Seq(S),
           LogWrites(ws, R, st, la), NEW m, NEW new, Operation(ws, m, new)
    PROVE  LogEffect(ws, R, st, la, m, new)
  <1>1. PICK n \in 0..Len(ws) :
           Done(ws, n) /\ ((n = Len(ws) /\ Completed(m, new)) \/ Crashed(new))
    BY OperationEffect DEF LogWrites
  <1>2. Len(ws) \in Nat
    OBVIOUS
  <1>3. \A j \in 1..Len(ws) : ws[j][1] \in Key
    <2>1. \A l \in R : Log(l) \in Key
      BY Keys DEF Index
    <2> QED BY <2>1, Keys DEF LogWrites
  <1>4. ASSUME NEW k \in Key
        PROVE  \/ disk'[k] = disk[k]
               \/ \E j \in 1..Len(ws) : ws[j][1] = k /\ disk'[k] = ws[j][2]
    BY <1>1, <1>3 DEF Done
  <1>5. ASSUME NEW k \in Key, \A l \in R : k # Log(l), k # StartIdx, k # LastIdx
        PROVE  disk'[k] = disk[k]
    <2>1. \A j \in 1..Len(ws) : ws[j][1] # k
      BY <1>5 DEF LogWrites
    <2> QED BY <1>1, <2>1 DEF Done
  <1>6. \A k \in MachineKey : disk'[k] = disk[k]
    BY <1>5, Keys
  <1>7. \A i \in (0..MaxIndex) \ R : disk'[Log(i)] = disk[Log(i)]
    <2>1. ASSUME NEW i \in (0..MaxIndex) \ R PROVE disk'[Log(i)] = disk[Log(i)]
      <3>1. /\ Log(i) \in Key /\ Log(i) # StartIdx /\ Log(i) # LastIdx
            /\ \A l \in R : Log(i) # Log(l)
        BY Keys DEF Log, StartIdx, LastIdx
      <3> QED BY <3>1, <1>5
    <2> QED BY <2>1
  <1>8. ASSUME NEW i \in R
        PROVE  disk'[Log(i)] \subseteq Nat /\ \A v, w \in disk'[Log(i)] : v = w
    <2>1. /\ i \in 0..MaxIndex /\ Log(i) \in Key /\ Log(i) # StartIdx /\ Log(i) # LastIdx
      BY Keys DEF Log, StartIdx, LastIdx, Index
    <2>2. CASE disk'[Log(i)] = disk[Log(i)]
      BY <2>1, <2>2 DEF Inv, LogInv, Single
    <2>3. CASE \E j \in 1..Len(ws) : ws[j][1] = Log(i) /\ disk'[Log(i)] = ws[j][2]
      BY <2>1, <2>3 DEF LogWrites
    <2> QED BY <2>1, <2>2, <2>3, <1>4
  <1>9. disk'[StartIdx] \in {disk[StartIdx], {st}}
    <2>1. StartIdx \in Key /\ StartIdx # LastIdx /\ \A l \in R : StartIdx # Log(l)
      BY Keys DEF StartIdx, LastIdx, Log
    <2> QED BY <2>1, <1>4 DEF LogWrites
  <1>10. disk'[LastIdx] \in {disk[LastIdx], {la}}
    <2>1. LastIdx \in Key /\ StartIdx # LastIdx /\ \A l \in R : LastIdx # Log(l)
      BY Keys DEF StartIdx, LastIdx, Log
    <2> QED BY <2>1, <1>4 DEF LogWrites
  <1>11. CASE Crashed(new)
    BY <1>11, <1>6, <1>7, <1>8, <1>9, <1>10 DEF LogEffect
  <1>12. CASE n = Len(ws) /\ Completed(m, new)
    <2>1. \A j \in 1..Len(ws) : disk'[ws[j][1]] = ws[j][2]
      BY <1>1, <1>2, <1>3, <1>12 DEF Done
    <2> QED BY <1>1, <2>1, <1>12, <1>6, <1>7, <1>8, <1>9, <1>10 DEF Done, LogEffect
  <1>13. QED BY <1>1, <1>11, <1>12

\* Such an operation preserves the invariant if what it acknowledges on completion is
\* what it wrote, and what it does not replace stays within the log.
LEMMA LogEffectInv ==
    ASSUME Inv, mem.up, NEW R \in SUBSET Index, NEW st \in Nat \ {0}, NEW la \in 0..MaxIndex,
           NEW ws, NEW m \in Memory, NEW new \in [R -> SUBSET (1..MaxTerm)],
           LogEffect(ws, R, st, la, m, new),
           m.up /\ m.start = st /\ m.last = la,
           m.head = mem.head /\ m.commit = mem.commit /\ m.saved = mem.saved,
           \A i \in Index \ R : acked[i] # {} => i <= la,
           /\ \A j \in 1..Len(ws) : disk'[ws[j][1]] = ws[j][2]
           /\ \A k \in Key : (\A j \in 1..Len(ws) : ws[j][1] # k) => disk'[k] = disk[k]
           => /\ disk'[StartIdx] = {st} /\ disk'[LastIdx] = {la}
              /\ \A i \in R : new[i] # {} => i <= la /\ new[i] = disk'[Log(i)]
    PROVE  Inv'
  <1>1. LogStep(R, st, la)
    <2>1. CASE Crashed(new)
      <3>1. mem' = Down /\ acked' = [j \in Index |-> IF j \in R THEN {} ELSE acked[j]]
        BY <2>1 DEF Crashed
      <3> QED BY <3>1 DEF LogStep, LogEffect
    <2>2. CASE /\ Completed(m, new)
               /\ \A j \in 1..Len(ws) : disk'[ws[j][1]] = ws[j][2]
               /\ \A k \in Key : (\A j \in 1..Len(ws) : ws[j][1] # k) => disk'[k] = disk[k]
      <3>1. /\ mem' \in Memory /\ mem'.up /\ mem'.start = st /\ mem'.last = la
            /\ mem'.head = mem.head /\ mem'.commit = mem.commit /\ mem'.saved = mem.saved
        BY <2>2 DEF Completed
      <3>2. acked' = [j \in Index |-> IF j \in R THEN new[j] ELSE acked[j]]
        BY <2>2 DEF Completed
      <3>3. /\ acked' \in [Index -> SUBSET (1..MaxTerm)]
            /\ \A j \in Index \ R : acked'[j] = acked[j]
            /\ \A j \in R : acked'[j] = new[j]
        BY <3>2 DEF Inv, LogInv
      <3>4. /\ disk'[StartIdx] = {st} /\ disk'[LastIdx] = {la}
            /\ \A i \in R : new[i] # {} => i <= la /\ new[i] = disk'[Log(i)]
        BY <2>2
      <3> QED BY <3>1, <3>3, <3>4 DEF LogStep, LogEffect
    <2> QED BY <2>1, <2>2 DEF LogEffect
  <1>2. QED BY <1>1, LogStepInv

\* A sequence of writes with one after it
LEMMA ConcatLast ==
    ASSUME NEW V, NEW E \in Seq(V), NEW z \in V, NEW e \in Nat, Len(E) = e,
           NEW ws, ws = E \o <<z>>
    PROVE  /\ ws \in Seq(V) /\ Len(ws) = e + 1
           /\ ws[e + 1] = z /\ \A j \in 1..e : ws[j] = E[j]
  <1>1. <<z>> \in Seq(V) /\ Len(<<z>>) = 1 /\ <<z>>[1] = z
    OBVIOUS
  <1>2. PICK y \in Seq(V) : y = <<z>> /\ Len(y) = 1 /\ y[1] = z
    BY <1>1, Zenon
  <1>3. /\ E \o y \in Seq(V) /\ Len(E \o y) = e + 1
        /\ \A j \in 1..e+1 : (E \o y)[j] = IF j <= e THEN E[j] ELSE y[j - e]
    BY <1>2, ConcatProperties
  <1>4. ws = E \o y
    BY <1>2
  <1>5. QED BY <1>2, <1>3, <1>4

\* A sequence of writes with one before it and one after it
LEMMA ConcatEnds ==
    ASSUME NEW V, NEW a \in V, NEW E \in Seq(V), NEW z \in V, NEW e \in Nat, Len(E) = e,
           NEW ws, ws = <<a>> \o E \o <<z>>
    PROVE  /\ ws \in Seq(V) /\ Len(ws) = e + 2
           /\ ws[1] = a /\ ws[e + 2] = z
           /\ \A j \in 2..e+1 : ws[j] = E[j - 1]
  <1>1. /\ <<a>> \in Seq(V) /\ Len(<<a>>) = 1 /\ <<a>>[1] = a
        /\ <<z>> \in Seq(V) /\ Len(<<z>>) = 1 /\ <<z>>[1] = z
    OBVIOUS
  <1>2. PICK b \in Seq(V), y \in Seq(V) :
           b = <<a>> /\ Len(b) = 1 /\ b[1] = a /\ y = <<z>> /\ Len(y) = 1 /\ y[1] = z
    BY <1>1, Zenon
  <1>3. PICK u : u = b \o E
    OBVIOUS
  <1>4. u \in Seq(V) /\ Len(u) = 1 + e
    BY <1>2, <1>3, ConcatProperties
  <1>5. \A j \in 1..1+e : u[j] = IF j <= 1 THEN b[j] ELSE E[j - 1]
    BY <1>2, <1>3, ConcatProperties
  <1>6. /\ u \o y \in Seq(V) /\ Len(u \o y) = 1 + e + 1
        /\ \A j \in 1..1+e+1 : (u \o y)[j] = IF j <= 1 + e THEN u[j] ELSE y[j - (1 + e)]
    BY <1>2, <1>4, ConcatProperties
  <1>7. PICK v : v = u \o y
    OBVIOUS
  <1>8. ws = v
    BY <1>2, <1>3, <1>7
  <1>9. /\ ws \in Seq(V) /\ Len(ws) = 1 + e + 1
        /\ \A j \in 1..1+e+1 : ws[j] = IF j <= 1 + e THEN u[j] ELSE y[j - (1 + e)]
    BY <1>6, <1>7, <1>8
  <1>10. ws[1] = a
    <2>1. ws[1] = u[1] /\ u[1] = b[1]
      BY <1>5, <1>9
    <2> QED BY <2>1, <1>2
  <1>11. ws[e + 2] = z
    <2>1. PICK k : k = e + 2
      OBVIOUS
    <2>2. k \in 1..1+e+1 /\ ~(k <= 1 + e) /\ k - (1 + e) = 1
      BY <2>1
    <2>3. ws[k] = y[k - (1 + e)]
      BY <1>9, <2>2
    <2> QED BY <2>1, <2>2, <2>3, <1>2
  <1>12. ASSUME NEW j \in 2..e+1 PROVE ws[j] = E[j - 1]
    BY <1>5, <1>9
  <1>13. Len(ws) = e + 2
    BY <1>9
  <1> QED BY <1>9, <1>10, <1>11, <1>12, <1>13

\* write_at
LEMMA WriteAtInv ==
    ASSUME Inv, NEW i \in Index, NEW t \in 1..MaxTerm, WriteAt(i, t)
    PROVE  Inv'
  <1> DEFINE R == i..MaxIndex
             new == [j \in R |-> IF j = i THEN {t} ELSE {}]
             V == Key \X SUBSET Nat
             E == ErasedAbove(i)
             ws == <<Write(Log(i), t)>> \o E \o <<Write(LastIdx, i)>>
  <1>1. PICK m : m = [mem EXCEPT !.last = i]
    OBVIOUS
  <1>2. mem.up /\ MayReplace(i) /\ Operation(ws, m, new)
    BY <1>1, Zenon DEF WriteAt
  <1>3. PICK last \in 0..MaxIndex : last = mem.last
    BY <1>2, Running
  <1>4. PICK e \in Nat : e = IF last > i THEN last - i ELSE 0
    BY <1>3 DEF Index
  <1>5. i \in Nat /\ \A j \in 1..e : last + 1 - j \in i+1..MaxIndex
    BY <1>3, <1>4, RaftStoreAssumption DEF Index
  <1>6. E = [j \in 1..e |-> Erase(Log(last + 1 - j))]
    BY <1>3, <1>4 DEF ErasedAbove
  <1>7. \A j \in R : Log(j) \in Key
    BY Keys DEF Index
  <1>8. E \in Seq(V) /\ Len(E) = e /\ \A j \in 1..e : E[j] = Erase(Log(last + 1 - j))
    <2>1. \A j \in 1..e : Erase(Log(last + 1 - j)) \in V
      BY <1>5, Keys DEF Erase, Index
    <2> QED BY <1>4, <1>6, <2>1
  <1>9. /\ ws \in Seq(V) /\ Len(ws) = e + 2
        /\ ws[1] = Write(Log(i), t) /\ ws[e + 2] = Write(LastIdx, i)
        /\ \A j \in 2..e+1 : ws[j] = Erase(Log(last + 2 - j))
    <2>1. Write(Log(i), t) \in V /\ Write(LastIdx, i) \in V
      BY <1>5, <1>7, Keys DEF Write, Index
    <2>2. PICK u : u = ws
      OBVIOUS
    <2>3. /\ u \in Seq(V) /\ Len(u) = e + 2
          /\ u[1] = Write(Log(i), t) /\ u[e + 2] = Write(LastIdx, i)
          /\ \A j \in 2..e+1 : u[j] = E[j - 1]
      <3> HIDE DEF V, E
      <3> QED BY <1>8, <2>1, <2>2, ConcatEnds
    <2>4. ASSUME NEW j \in 2..e+1 PROVE u[j] = Erase(Log(last + 2 - j))
      <3>1. j - 1 \in 1..e /\ last + 1 - (j - 1) = last + 2 - j
        BY <1>3, <1>4
      <3> HIDE DEF E
      <3> QED BY <3>1, <2>3, <1>8
    <2> HIDE DEF V, E
    <2> QED BY <2>2, <2>3, <2>4
  <1>10. LogWrites(ws, R, mem.start, i)
    <2> HIDE DEF ws
    <2>1. /\ ws[1][1] = Log(i) /\ ws[1][2] = {t}
          /\ ws[e + 2][1] = LastIdx /\ ws[e + 2][2] = {i}
          /\ \A j \in 2..e+1 : /\ ws[j][1] = Log(last + 2 - j) /\ ws[j][2] = {}
                               /\ last + 2 - j \in i+1..MaxIndex
      <3>1. \A j \in 2..e+1 : last + 2 - j \in i+1..MaxIndex
        BY <1>3, <1>4, RaftStoreAssumption DEF Index
      <3>2. ws[1] = <<Log(i), {t}>> /\ ws[e + 2] = <<LastIdx, {i}>>
        BY <1>9 DEF Write
      <3>3. \A j \in 2..e+1 : ws[j] = <<Log(last + 2 - j), {}>>
        BY <1>9 DEF Erase
      <3> QED BY <3>1, <3>2, <3>3
    <2>2. \A j \in 1..e+2 : j = 1 \/ j = e + 2 \/ j \in 2..e+1
      BY <1>4
    <2>3. i \in R /\ {t} \subseteq Nat /\ \A j \in i+1..MaxIndex : j \in R
      BY <1>5 DEF Index
    <2>4. \A j \in R : Log(j) # LastIdx
      BY DEF Log, LastIdx
    <2>5. \A j, l \in R : Log(j) = Log(l) => j = l
      BY DEF Log
    <2>6. ASSUME NEW j \in 1..e+2, NEW l \in 1..e+2, ws[j][1] = ws[l][1] PROVE j = l
      <3> HIDE DEF R
      <3>1. CASE j = 1
        BY <3>1, <2>1, <2>2, <2>3, <2>4, <2>5, <2>6, <1>4, <1>5
      <3>2. CASE l = 1
        BY <3>2, <2>1, <2>2, <2>3, <2>4, <2>5, <2>6, <1>4, <1>5
      <3>3. CASE j = e + 2 \/ l = e + 2
        BY <3>3, <2>1, <2>2, <2>3, <2>4, <2>6
      <3>4. CASE j \in 2..e+1 /\ l \in 2..e+1
        <4>1. last + 2 - j = last + 2 - l
          BY <3>4, <2>1, <2>3, <2>5, <2>6
        <4> QED BY <4>1, <1>3
      <3> QED BY <3>1, <3>2, <3>3, <3>4, <2>2
    <2>7. ASSUME NEW j \in 1..e+2
          PROVE  \/ /\ \E l \in R : ws[j][1] = Log(l)
                    /\ ws[j][2] \subseteq Nat /\ \A v, w \in ws[j][2] : v = w
                 \/ ws[j][1] = LastIdx /\ ws[j][2] = {i}
      <3> HIDE DEF R
      <3> QED BY <2>1, <2>2, <2>3
    <2> QED BY <2>6, <2>7, <1>9 DEF LogWrites
  <1>11. R \in SUBSET Index
    BY DEF Index
  <1>12. LogEffect(ws, R, mem.start, i, m, new)
    <2>1. ws \in Seq(V) /\ Operation(ws, m, new)
      BY <1>2, <1>9
    <2> HIDE DEF ws, new, R, V
    <2> QED BY <2>1, <1>10, <1>11, LogOperation
  <1>13. m \in Memory /\ m.up /\ m.start = mem.start /\ m.last = i
         /\ m.head = mem.head /\ m.commit = mem.commit /\ m.saved = mem.saved
    BY <1>1, <1>2, <1>5, AssignLast, Running
  <1>14. ASSUME /\ \A j \in 1..Len(ws) : disk'[ws[j][1]] = ws[j][2]
                /\ \A k \in Key : (\A j \in 1..Len(ws) : ws[j][1] # k) => disk'[k] = disk[k]
         PROVE  /\ disk'[StartIdx] = {mem.start} /\ disk'[LastIdx] = {i}
                /\ \A j \in R : new[j] # {} => j <= i /\ new[j] = disk'[Log(j)]
    <2>1. disk'[Log(i)] = {t} /\ disk'[LastIdx] = {i}
      <3> HIDE DEF ws
      <3> QED BY <1>14, <1>4, <1>9 DEF Write
    <2>2. \A j \in R : new[j] # {} => j = i /\ new[j] = {t}
      OBVIOUS
    <2>3. disk'[StartIdx] = {mem.start}
      BY <1>2, <1>12, Running DEF LogEffect
    <2>4. ASSUME NEW j \in R, new[j] # {} PROVE j <= i /\ new[j] = disk'[Log(j)]
      <3>1. j = i /\ new[j] = {t}
        BY <2>4
      <3> HIDE DEF ws, new
      <3> QED BY <2>1, <3>1, <1>5
    <2> HIDE DEF ws, new
    <2> QED BY <2>1, <2>3, <2>4
  <1>15. new \in [R -> SUBSET (1..MaxTerm)]
    OBVIOUS
  <1>16. \A j \in Index \ R : acked[j] # {} => j <= i
    BY <1>5 DEF Index
  <1>17. mem.start \in Nat \ {0} /\ i \in 0..MaxIndex
    BY <1>2, <1>5, Running DEF Index
  <1>18. QED
    <2> HIDE DEF R, ws, new
    <2> QED BY <1>2, <1>11, <1>12, <1>13, <1>14, <1>15, <1>16, <1>17, LogEffectInv

\* apply_pack
LEMMA ApplyPackInv ==
    ASSUME Inv, NEW i \in Index, NEW n \in Nat \ {0}, NEW ts \in [1..n -> 1..MaxTerm],
           ApplyPack(i, ts)
    PROVE  Inv'
  <1>1. Len(ts) = n
    OBVIOUS
  <1>2. PICK end \in Int : end = i + n - 1
    BY DEF Index
  <1>3. PICK last : last = IF mem.last < end THEN end ELSE mem.last
    OBVIOUS
  <1>4. PICK m : m = [mem EXCEPT !.last = last]
    OBVIOUS
  <1> DEFINE R == i..end
             new == [j \in R |-> {ts[j - i + 1]}]
             V == Key \X SUBSET Nat
             E == [j \in 1..n |-> Write(Log(i + j - 1), ts[j])]
             ws == E \o <<Write(LastIdx, last)>>
  <1>5. mem.up /\ end <= MaxIndex /\ Operation(ws, m, new)
    BY <1>1, <1>2, <1>3, <1>4, Zenon DEF ApplyPack
  <1>6. /\ last \in 0..MaxIndex /\ end <= last /\ mem.last <= last
        /\ i \in Nat /\ end \in Nat /\ MaxIndex \in Nat
    BY <1>2, <1>3, <1>5, Running, RaftStoreAssumption DEF Index
  <1>7. \A j \in 1..n : i + j - 1 \in R /\ ts[j] \in 1..MaxTerm
    BY <1>2, <1>6
  <1>8. R \in SUBSET Index /\ \A j \in R : Log(j) \in Key /\ j - i + 1 \in 1..n
    BY <1>2, <1>5, <1>6, Keys DEF Index
  <1>9. /\ ws \in Seq(V) /\ Len(ws) = n + 1
        /\ ws[n + 1][1] = LastIdx /\ ws[n + 1][2] = {last}
        /\ \A j \in 1..n : ws[j][1] = Log(i + j - 1) /\ ws[j][2] = {ts[j]}
    <2>1. Write(LastIdx, last) \in V
      BY <1>6, Keys DEF Write
    <2>2. \A j \in 1..n : Write(Log(i + j - 1), ts[j]) \in V
      <3>1. \A j \in 1..n : Log(i + j - 1) \in Key /\ {ts[j]} \in SUBSET Nat
        <4> HIDE DEF R
        <4> QED BY <1>7, <1>8
      <3> QED BY <3>1 DEF Write
    <2>3. E \in Seq(V) /\ Len(E) = n /\ \A j \in 1..n : E[j] = Write(Log(i + j - 1), ts[j])
      BY <2>2
    <2>4. PICK u : u = ws
      OBVIOUS
    <2> HIDE DEF V, E
    <2>5. /\ u \in Seq(V) /\ Len(u) = n + 1
          /\ u[n + 1] = Write(LastIdx, last) /\ \A j \in 1..n : u[j] = E[j]
      BY <2>1, <2>3, <2>4, ConcatLast
    <2>6. /\ u[n + 1] = <<LastIdx, {last}>>
          /\ \A j \in 1..n : u[j] = <<Log(i + j - 1), {ts[j]}>>
      BY <2>3, <2>5 DEF Write
    <2>7. /\ u[n + 1][1] = LastIdx /\ u[n + 1][2] = {last}
          /\ \A j \in 1..n : u[j][1] = Log(i + j - 1) /\ u[j][2] = {ts[j]}
      <3>1. ASSUME NEW j \in 1..n PROVE u[j][1] = Log(i + j - 1) /\ u[j][2] = {ts[j]}
        <4>1. u[j] = <<Log(i + j - 1), {ts[j]}>>
          BY <2>6
        <4> QED BY <4>1
      <3>2. u[n + 1][1] = LastIdx /\ u[n + 1][2] = {last}
        BY <2>6
      <3> QED BY <3>1, <3>2
    <2> HIDE DEF ws
    <2> QED BY <2>4, <2>5, <2>7
  <1>10. LogWrites(ws, R, mem.start, last)
    <2> HIDE DEF ws
    <2>1. \A j \in 1..n+1 : j \in 1..n \/ j = n + 1
      OBVIOUS
    <2>2. \A j \in R : Log(j) # LastIdx /\ \A l \in R : Log(j) = Log(l) => j = l
      BY DEF Log, LastIdx
    <2>3. ASSUME NEW j \in 1..n+1, NEW l \in 1..n+1, ws[j][1] = ws[l][1] PROVE j = l
      <3> HIDE DEF R
      <3>1. CASE j \in 1..n /\ l \in 1..n
        <4>1. i + j - 1 = i + l - 1
          BY <3>1, <2>2, <2>3, <1>7, <1>9
        <4> QED BY <4>1, <1>6
      <3>2. CASE j = n + 1 \/ l = n + 1
        BY <3>2, <2>1, <2>2, <2>3, <1>7, <1>9
      <3> QED BY <3>1, <3>2, <2>1
    <2>4. ASSUME NEW j \in 1..n+1
          PROVE  \/ /\ \E l \in R : ws[j][1] = Log(l)
                    /\ ws[j][2] \subseteq Nat /\ \A v, w \in ws[j][2] : v = w
                 \/ ws[j][1] = LastIdx /\ ws[j][2] = {last}
      <3> HIDE DEF R
      <3>1. CASE j \in 1..n
        <4>1. /\ ws[j][1] = Log(i + j - 1) /\ ws[j][2] = {ts[j]}
              /\ i + j - 1 \in R /\ ts[j] \in Nat
          BY <3>1, <1>7, <1>9
        <4> QED BY <4>1
      <3>2. CASE j = n + 1
        BY <3>2, <1>9
      <3> QED BY <2>1, <3>1, <3>2
    <2> QED BY <2>3, <2>4, <1>9 DEF LogWrites
  <1>11. LogEffect(ws, R, mem.start, last, m, new)
    <2>1. ws \in Seq(V) /\ Operation(ws, m, new)
      BY <1>5, <1>9
    <2> HIDE DEF ws, new, R, V
    <2> QED BY <2>1, <1>8, <1>10, LogOperation
  <1>12. m \in Memory /\ m.up /\ m.start = mem.start /\ m.last = last
         /\ m.head = mem.head /\ m.commit = mem.commit /\ m.saved = mem.saved
    BY <1>4, <1>5, <1>6, AssignLast, Running
  <1>13. ASSUME /\ \A j \in 1..Len(ws) : disk'[ws[j][1]] = ws[j][2]
                /\ \A k \in Key : (\A j \in 1..Len(ws) : ws[j][1] # k) => disk'[k] = disk[k]
         PROVE  /\ disk'[StartIdx] = {mem.start} /\ disk'[LastIdx] = {last}
                /\ \A j \in R : new[j] # {} => j <= last /\ new[j] = disk'[Log(j)]
    <2>1. disk'[LastIdx] = {last} /\ \A j \in 1..n : disk'[Log(i + j - 1)] = {ts[j]}
      <3> HIDE DEF ws
      <3>1. n + 1 \in 1..Len(ws) /\ \A j \in 1..n : j \in 1..Len(ws)
        BY <1>9
      <3>2. disk'[ws[n + 1][1]] = ws[n + 1][2]
        BY <1>13, <3>1
      <3>3. \A j \in 1..n : disk'[ws[j][1]] = ws[j][2]
        BY <1>13, <3>1
      <3> QED BY <1>9, <3>2, <3>3
    <2>2. ASSUME NEW j \in R PROVE j <= last /\ new[j] = disk'[Log(j)]
      <3>1. j <= last /\ j - i + 1 \in 1..n /\ i + (j - i + 1) - 1 = j
        BY <1>2, <1>6
      <3>2. disk'[Log(i + (j - i + 1) - 1)] = {ts[j - i + 1]}
        BY <2>1, <3>1
      <3> QED BY <3>1, <3>2
    <2>3. disk'[StartIdx] = {mem.start}
      BY <1>5, <1>11, Running DEF LogEffect
    <2> HIDE DEF ws, new
    <2> QED BY <2>1, <2>2, <2>3
  <1>14. new \in [R -> SUBSET (1..MaxTerm)]
    BY <1>7, <1>8
  <1>15. \A j \in Index \ R : acked[j] # {} => j <= last
    <2>1. PICK ml \in Nat : ml = mem.last /\ \A j \in Index : acked[j] # {} => j <= ml
      <3>1. mem.last \in Nat /\ \A j \in Index : acked[j] # {} => j <= mem.last
        BY <1>5, Running
      <3> QED BY <3>1
    <2>2. ml <= last /\ last \in Nat
      BY <1>6, <2>1
    <2> QED BY <2>1, <2>2 DEF Index
  <1>16. mem.start \in Nat \ {0}
    BY <1>5, Running
  <1>17. QED
    <2> HIDE DEF R, ws, new
    <2> QED BY <1>5, <1>6, <1>8, <1>11, <1>12, <1>13, <1>14, <1>15, <1>16, LogEffectInv

\* compact
LEMMA CompactedInv ==
    ASSUME Inv, mem.up, NEW n \in Index, Compacted(n)
    PROVE  Inv'
  <1>1. PICK s0 \in Nat \ {0}, l0 \in 0..MaxIndex : s0 = mem.start /\ l0 = mem.last
    BY Running
  <1>2. PICK start \in Nat \ {0} : start = IF s0 <= n THEN n + 1 ELSE s0
    BY <1>1 DEF Index
  <1>3. PICK last \in 0..MaxIndex : last = IF l0 < n THEN n ELSE l0
    BY <1>1, RaftStoreAssumption DEF Index
  <1>4. PICK e \in Nat : e = start - s0
    BY <1>1, <1>2 DEF Index
  <1>5. PICK m : m = [mem EXCEPT !.start = start, !.last = last]
    OBVIOUS
  <1> DEFINE R == 1..n
             new == [j \in R |-> {}]
             V == Key \X SUBSET Nat
             E == [j \in 1..e |-> Erase(Log(s0 + j - 1))]
             u == E \o <<Write(StartIdx, start)>>
             ws == u \o (IF l0 < n THEN <<Write(LastIdx, n)>> ELSE <<>>)
  <1>6. Operation(ws, m, new)
    BY <1>1, <1>2, <1>3, <1>4, <1>5, Zenon DEF Compacted
  <1>7. n \in Nat /\ n <= last /\ l0 <= last /\ \A j \in 1..e : s0 + j - 1 \in R
    BY <1>1, <1>2, <1>3, <1>4 DEF Index
  <1>8. R \in SUBSET Index /\ \A j \in R : Log(j) \in Key
    BY RaftStoreAssumption, Keys DEF Index
  <1>9. /\ u \in Seq(V) /\ Len(u) = e + 1
        /\ u[e + 1][1] = StartIdx /\ u[e + 1][2] = {start}
        /\ \A j \in 1..e : u[j][1] = Log(s0 + j - 1) /\ u[j][2] = {}
    <2>1. Write(StartIdx, start) \in V
      BY Keys DEF Write
    <2>2. \A j \in 1..e : Erase(Log(s0 + j - 1)) \in V
      <3> HIDE DEF R
      <3> QED BY <1>7, <1>8 DEF Erase
    <2>3. E \in Seq(V) /\ Len(E) = e /\ \A j \in 1..e : E[j] = Erase(Log(s0 + j - 1))
      BY <2>2
    <2>4. PICK w : w = u
      OBVIOUS
    <2> HIDE DEF V, E
    <2>5. /\ w \in Seq(V) /\ Len(w) = e + 1
          /\ w[e + 1] = Write(StartIdx, start) /\ \A j \in 1..e : w[j] = E[j]
      BY <2>1, <2>3, <2>4, ConcatLast
    <2>6. ASSUME NEW j \in 1..e PROVE w[j][1] = Log(s0 + j - 1) /\ w[j][2] = {}
      <3>1. w[j] = <<Log(s0 + j - 1), {}>>
        BY <2>3, <2>5 DEF Erase
      <3> QED BY <3>1
    <2>7. w[e + 1][1] = StartIdx /\ w[e + 1][2] = {start}
      BY <2>5 DEF Write
    <2> HIDE DEF u
    <2> QED BY <2>4, <2>5, <2>6, <2>7
  <1>10. /\ ws \in Seq(V)
         /\ \A j \in 1..e+1 : ws[j] = u[j]
         /\ \/ l0 < n /\ Len(ws) = e + 2 /\ ws[e + 2][1] = LastIdx /\ ws[e + 2][2] = {n}
            \/ ~(l0 < n) /\ Len(ws) = e + 1
    <2>1. PICK w : w = ws
      OBVIOUS
    <2>2. CASE l0 < n
      <3>1. Write(LastIdx, n) \in V
        BY <1>7, Keys DEF Write
      <3>2. ws = u \o <<Write(LastIdx, n)>>
        BY <2>2
      <3> HIDE DEF u, V, ws
      <3>3. PICK v \in Seq(V) : v = u
        BY <1>9
      <3>4. /\ w \in Seq(V) /\ Len(w) = (e + 1) + 1
            /\ w[(e + 1) + 1] = Write(LastIdx, n) /\ \A j \in 1..(e+1) : w[j] = v[j]
        <4>1. e + 1 \in Nat /\ Len(v) = e + 1 /\ w = v \o <<Write(LastIdx, n)>>
          BY <2>1, <3>2, <3>3, <1>9
        <4> QED BY <4>1, <3>1, ConcatLast
      <3>5. (e + 1) + 1 = e + 2
        OBVIOUS
      <3>6. w[e + 2][1] = LastIdx /\ w[e + 2][2] = {n}
        BY <3>4, <3>5 DEF Write
      <3> QED BY <2>1, <2>2, <3>3, <3>4, <3>5, <3>6
    <2>3. CASE ~(l0 < n)
      <3>1. ws = u \o <<>>
        BY <2>3
      <3> HIDE DEF u, V, ws
      <3>2. ws = u
        BY <3>1, <1>9, ConcatEmptySeq
      <3> QED BY <2>3, <3>2, <1>9
    <2> QED BY <2>2, <2>3
  <1> HIDE DEF u, ws
  <1>11. \A j \in 1..Len(ws) :
            \/ j \in 1..e /\ ws[j][1] = Log(s0 + j - 1) /\ ws[j][2] = {}
            \/ j = e + 1 /\ ws[j][1] = StartIdx /\ ws[j][2] = {start}
            \/ j = e + 2 /\ l0 < n /\ ws[j][1] = LastIdx /\ ws[j][2] = {n}
    BY <1>9, <1>10
  <1>12. LogWrites(ws, R, start, last)
    <2>1. StartIdx # LastIdx /\ \A j \in R : Log(j) # LastIdx /\ Log(j) # StartIdx
      BY DEF Log, LastIdx, StartIdx
    <2>2. \A j, l \in 1..e : Log(s0 + j - 1) = Log(s0 + l - 1) => j = l
      BY <1>1 DEF Log
    <2> HIDE DEF R
    <2>3. ASSUME NEW j \in 1..Len(ws), NEW l \in 1..Len(ws), ws[j][1] = ws[l][1] PROVE j = l
      BY <2>1, <2>2, <2>3, <1>7, <1>11
    <2>4. ASSUME NEW j \in 1..Len(ws)
          PROVE  \/ /\ \E l \in R : ws[j][1] = Log(l)
                    /\ ws[j][2] \subseteq Nat /\ \A v, w \in ws[j][2] : v = w
                 \/ ws[j][1] = StartIdx /\ ws[j][2] = {start}
                 \/ ws[j][1] = LastIdx /\ ws[j][2] = {last}
      BY <1>3, <1>7, <1>11
    <2> QED BY <2>3, <2>4 DEF LogWrites
  <1>13. LogEffect(ws, R, start, last, m, new)
    <2> HIDE DEF new, R, V
    <2> QED BY <1>6, <1>8, <1>10, <1>12, LogOperation
  <1>14. m \in Memory /\ m.up /\ m.start = start /\ m.last = last
         /\ m.head = mem.head /\ m.commit = mem.commit /\ m.saved = mem.saved
    <2>1. mem \in Memory /\ start \in Nat /\ last \in Nat
      BY Running
    <2>2. /\ m \in Memory /\ m.up = mem.up /\ m.start = start /\ m.last = last
          /\ m.head = mem.head /\ m.commit = mem.commit /\ m.saved = mem.saved
      BY <2>1, <1>5 DEF Memory
    <2> QED BY <2>2
  <1>15. ASSUME /\ \A j \in 1..Len(ws) : disk'[ws[j][1]] = ws[j][2]
                /\ \A k \in Key : (\A j \in 1..Len(ws) : ws[j][1] # k) => disk'[k] = disk[k]
         PROVE  disk'[StartIdx] = {start} /\ disk'[LastIdx] = {last}
    <2>1. e + 1 \in 1..Len(ws) /\ ws[e + 1][1] = StartIdx /\ ws[e + 1][2] = {start}
      BY <1>9, <1>10
    <2>2. disk'[StartIdx] = {start}
      BY <2>1, <1>15
    <2>3. CASE l0 < n
      <3>1. /\ e + 2 \in 1..Len(ws) /\ ws[e + 2][1] = LastIdx /\ ws[e + 2][2] = {n}
            /\ last = n
        BY <2>3, <1>3, <1>10
      <3> QED BY <2>2, <3>1, <1>15
    <2>4. CASE ~(l0 < n)
      <3>1. \A j \in R : Log(j) # LastIdx
        BY DEF Log, LastIdx
      <3>2. \A j \in 1..Len(ws) : ws[j][1] # LastIdx
        <4> HIDE DEF R
        <4>1. StartIdx # LastIdx
          BY DEF StartIdx, LastIdx
        <4> QED BY <2>4, <3>1, <4>1, <1>7, <1>11
      <3>3. disk'[LastIdx] = disk[LastIdx]
        BY <3>2, <1>15, Keys
      <3>4. disk[LastIdx] = {last}
        BY <2>4, <1>1, <1>3, Running
      <3> QED BY <2>2, <3>3, <3>4
    <2> QED BY <2>3, <2>4
  <1>16. new \in [R -> SUBSET (1..MaxTerm)] /\ \A j \in R : new[j] = {}
    OBVIOUS
  <1>17. \A j \in Index \ R : acked[j] # {} => j <= last
    <2>1. \A j \in Index : acked[j] # {} => j <= l0
      BY <1>1, Running
    <2> QED BY <2>1, <1>1, <1>7 DEF Index
  <1>18. QED
    <2> HIDE DEF R, new
    <2> QED BY <1>8, <1>13, <1>14, <1>15, <1>16, <1>17, LogEffectInv

-----------------------------------------------------------------------------
(* Steps of the state machine *)

\* The log is not touched by a step that keeps its keys and what memory holds of it.
LEMMA LogKept ==
    ASSUME Inv, mem' \in Memory,
           \A i \in 0..MaxIndex : disk'[Log(i)] = disk[Log(i)],
           disk'[StartIdx] = disk[StartIdx], disk'[LastIdx] = disk[LastIdx],
           acked' = acked,
           \/ mem' = Down
           \/ mem.up /\ mem'.up /\ mem'.start = mem.start /\ mem'.last = mem.last
    PROVE  MemOK' /\ LogInv'
  <1>1. MemOK'
    BY DEF MemOK
  <1>2. AckedSurvive'
    BY DEF Inv, LogInv, AckedSurvive, Index
  <1>3. disk'[Log(0)] = disk[Log(0)]
    BY RaftStoreAssumption
  <1>4. mem'.up => /\ disk'[Log(0)] # {}
                   /\ disk'[StartIdx] = {mem'.start}
                   /\ disk'[LastIdx] = {mem'.last}
    BY <1>3, DownInMemory DEF Inv, LogInv
  <1>5. QED BY <1>1, <1>2, <1>3, <1>4 DEF Inv, LogInv

\* A write of at most one value keeps keys single-valued.
LEMMA SingleKept ==
    ASSUME Inv, \A k \in Key : disk'[k] = disk[k] \/ \E v : disk'[k] = {v}
    PROVE  Single'
  <1>1. ASSUME NEW k \in Key, NEW v \in disk'[k], NEW w \in disk'[k] PROVE v = w
    BY <1>1 DEF Inv, Single
  <1>2. QED BY <1>1 DEF Single

\* commit_raft_log, of the next entry or of a snapshot, with a head block that covers it
LEMMA CommitRaftLogInv ==
    ASSUME Inv, mem.up, NEW i \in Index, NEW b \in Index, mem.commit < i, Covers(b, i),
           CommitRaftLog(i, b)
    PROVE  Inv'
  <1>1. PICK m : m = [mem EXCEPT !.head = {b}, !.commit = i]
    OBVIOUS
  <1>2. Operation(<<Write(HeadBlk, b), Write(LastCommit, i)>>, m, <<>>)
    BY <1>1, Zenon DEF CommitRaftLog
  <1>3. HeadBlk \in Key /\ LastCommit \in Key /\ HeadBlk # LastCommit
    BY Keys DEF HeadBlk, LastCommit
  <1>4. /\ \A k \in Key \ {HeadBlk, LastCommit} : disk'[k] = disk[k]
        /\ \/ /\ disk'[HeadBlk] = {b} /\ disk'[LastCommit] = {i}
              /\ Completed(m, <<>>) \/ Crashed(<<>>)
           \/ /\ disk'[HeadBlk] \in {disk[HeadBlk], {b}} /\ disk'[LastCommit] = disk[LastCommit]
              /\ Crashed(<<>>)
    BY <1>2, <1>3, WriteTwo
  <1>5. acked' = acked
    BY <1>4 DEF Completed, Crashed, Inv, LogInv
  <1>6. /\ m \in Memory /\ m.up /\ m.start = mem.start /\ m.last = mem.last
        /\ m.head = {b} /\ m.commit = i /\ m.saved = mem.saved
    <2>1. mem \in Memory /\ {b} \in SUBSET Index /\ i \in 0..MaxIndex
      BY Running DEF Index
    <2>2. /\ m \in Memory /\ m.up = mem.up /\ m.start = mem.start /\ m.last = mem.last
          /\ m.head = {b} /\ m.commit = i /\ m.saved = mem.saved
      BY <2>1, <1>1 DEF Memory
    <2> QED BY <2>2
  <1>7. mem' = m \/ mem' = Down
    BY <1>4 DEF Completed, Crashed
  <1>8. MemOK' /\ LogInv'
    <2>1. /\ \A j \in 0..MaxIndex : disk'[Log(j)] = disk[Log(j)]
          /\ disk'[StartIdx] = disk[StartIdx] /\ disk'[LastIdx] = disk[LastIdx]
      BY <1>4, Keys DEF MachineKey
    <2> QED BY <2>1, <1>5, <1>6, <1>7, DownInMemory, LogKept
  <1>9. Single'
    <2>1. ASSUME NEW k \in Key PROVE disk'[k] = disk[k] \/ \E v : disk'[k] = {v}
      BY <1>4
    <2> QED BY <2>1, SingleKept
  <1>10. HeadInv'
    <2>1. disk'[HeadBlk] \subseteq Index /\ disk'[LastCommit] \subseteq Index
      BY <1>4 DEF Inv, HeadInv
    <2>2. HeadNotBehind'
      <3>1. CASE disk'[HeadBlk] = {b} /\ disk'[LastCommit] = {i}
        BY <3>1 DEF HeadNotBehind, Covers
      <3>2. CASE disk'[HeadBlk] = disk[HeadBlk] /\ disk'[LastCommit] = disk[LastCommit]
        BY <3>2 DEF HeadNotBehind, Inv, HeadInv
      <3>3. CASE disk'[HeadBlk] = {b} /\ disk'[LastCommit] = disk[LastCommit]
        <4>1. ASSUME NEW c \in disk[LastCommit], NEW j \in (1..c) \ Config
              PROVE  j <= b
          <5>1. c \in Index /\ (c <= mem.commit \/ 1..c \subseteq Config)
            BY DEF Inv, HeadInv
          <5>2. c <= mem.commit
            BY <5>1
          <5>3. PICK d \in Nat : d = mem.commit
            BY Running
          <5>4. j \in (1..i) \ Config
            BY <5>1, <5>2, <5>3 DEF Index
          <5> QED BY <5>4 DEF Covers
        <4> QED BY <3>3, <4>1 DEF HeadNotBehind
      <3> QED BY <3>1, <3>2, <3>3, <1>4
    <2>3. CASE mem' = Down
      BY <2>1, <2>2, <2>3, DownInMemory DEF HeadInv
    <2>4. CASE mem' = m /\ disk'[HeadBlk] = {b} /\ disk'[LastCommit] = {i}
      <3>1. i <= i
        BY DEF Index
      <3> QED BY <2>1, <2>2, <2>4, <3>1, <1>6 DEF HeadInv, Covers
    <2> QED BY <2>3, <2>4, <1>4 DEF Completed, Crashed
  <1>11. SnapshotInv'
    <2>1. /\ disk'[LastSnapshot] = disk[LastSnapshot]
          /\ \A j \in Index : disk'[SnapshotOf(j)] = disk[SnapshotOf(j)]
          /\ \A k \in 1..MaxSnapshot : disk'[Snapshot(k)] = disk[Snapshot(k)]
      BY <1>4, Keys DEF LastSnapshot, SnapshotOf, Snapshot, HeadBlk, LastCommit
    <2> QED BY <2>1, <1>6, <1>7, SnapshotsKept
  <1>12. QED BY <1>8, <1>9, <1>10, <1>11 DEF Inv

\* commit, commit_config
LEMMA CommitInv ==
    ASSUME Inv, Commit
    PROVE  Inv'
  <1>1. PICK i : i = mem.commit + 1
    OBVIOUS
  <1>2. mem.up /\ i <= mem.last
    BY <1>1 DEF Commit
  <1>3. i \in Index /\ mem.commit < i /\ i \in Nat
    BY <1>1, <1>2, Running, RaftStoreAssumption DEF Index
  <1>4. CASE i \notin Config
    <2>1. CommitRaftLog(i, i)
      BY <1>1, <1>4, Zenon DEF Commit
    <2>2. Covers(i, i)
      BY <1>3 DEF Covers
    <2> QED BY <2>1, <2>2, <1>2, <1>3, CommitRaftLogInv
  <1>5. CASE i \in Config
    <2>1. PICK m : m = [mem EXCEPT !.commit = i]
      OBVIOUS
    <2>2. Operation(<<Write(LastCommit, i)>>, m, <<>>)
      BY <1>1, <1>5, <2>1, Zenon DEF Commit
    <2>3. /\ \A k \in Key \ {LastCommit} : disk'[k] = disk[k]
          /\ \/ /\ disk'[LastCommit] = {i}
                /\ Completed(m, <<>>) \/ Crashed(<<>>)
             \/ disk'[LastCommit] = disk[LastCommit] /\ Crashed(<<>>)
      BY <2>2, Keys, WriteOne
    <2>4. acked' = acked
      BY <2>3 DEF Completed, Crashed, Inv, LogInv
    <2>5. /\ m \in Memory /\ m.up /\ m.start = mem.start /\ m.last = mem.last
          /\ m.head = mem.head /\ m.commit = i /\ m.saved = mem.saved
      <3>1. mem \in Memory /\ i \in 0..MaxIndex
        BY <1>2, <1>3, Running DEF Index
      <3> QED BY <3>1, <1>2, <2>1 DEF Memory
    <2>6. mem' = m \/ mem' = Down
      BY <2>3 DEF Completed, Crashed
    <2>7. MemOK' /\ LogInv'
      <3>1. /\ \A j \in 0..MaxIndex : disk'[Log(j)] = disk[Log(j)]
            /\ disk'[StartIdx] = disk[StartIdx] /\ disk'[LastIdx] = disk[LastIdx]
        BY <2>3, Keys DEF MachineKey
      <3> QED BY <3>1, <1>2, <2>4, <2>5, <2>6, DownInMemory, LogKept
    <2>8. Single'
      <3>1. ASSUME NEW k \in Key PROVE disk'[k] = disk[k] \/ \E v : disk'[k] = {v}
        BY <2>3
      <3> QED BY <3>1, SingleKept
    <2>9. disk'[HeadBlk] = disk[HeadBlk]
      BY <2>3, Keys DEF HeadBlk, LastCommit
    <2>10. \A j \in (1..i) \ Config : j \in (1..mem.commit) \ Config
      BY <1>1, <1>2, <1>5, Running
    <2>11. HeadInv'
      <3>1. disk'[HeadBlk] \subseteq Index /\ disk'[LastCommit] \subseteq Index
        BY <2>3, <2>9, <1>3 DEF Inv, HeadInv
      <3>2. \A j \in (1..i) \ Config : \E b \in mem.head : j <= b
        BY <2>10, <1>2 DEF Inv, HeadInv
      <3>3. mem.head \subseteq disk[HeadBlk]
        BY <1>2 DEF Inv, HeadInv
      <3>4. HeadNotBehind'
        <4>1. CASE disk'[LastCommit] = {i}
          BY <4>1, <3>2, <3>3, <2>9 DEF HeadNotBehind
        <4>2. CASE disk'[LastCommit] = disk[LastCommit]
          BY <4>2, <2>9 DEF HeadNotBehind, Inv, HeadInv
        <4> QED BY <4>1, <4>2, <2>3
      <3>5. CASE mem' = Down
        BY <3>1, <3>4, <3>5, DownInMemory DEF HeadInv
      <3>6. CASE mem' = m /\ disk'[LastCommit] = {i}
        <4>1. i <= i
          BY <1>3
        <4> QED BY <3>1, <3>2, <3>3, <3>4, <3>6, <4>1, <2>5, <2>9 DEF HeadInv
      <3> QED BY <3>5, <3>6, <2>3 DEF Completed, Crashed
    <2>12. SnapshotInv'
      <3>1. /\ disk'[LastSnapshot] = disk[LastSnapshot]
            /\ \A j \in Index : disk'[SnapshotOf(j)] = disk[SnapshotOf(j)]
            /\ \A k \in 1..MaxSnapshot : disk'[Snapshot(k)] = disk[Snapshot(k)]
        BY <2>3, Keys DEF LastSnapshot, SnapshotOf, Snapshot, LastCommit
      <3> QED BY <3>1, <1>2, <2>5, <2>6, SnapshotsKept
    <2> QED BY <2>7, <2>8, <2>11, <2>12 DEF Inv
  <1>6. QED BY <1>4, <1>5

\* A crash between two operations, or the end of the process
LEMMA CrashInv ==
    ASSUME Inv, mem' = Down, disk' = disk, acked' = acked
    PROVE  Inv'
  <1>1. MemOK' /\ LogInv'
    BY DownInMemory, LogKept
  <1>2. HeadInv' /\ SnapshotInv'
    BY HeadKept, SnapshotsKept
  <1>3. QED BY <1>1, <1>2 DEF Inv, Single

\* The index of the next snapshot is beyond that of the last one.
LEMMA NextSnapshotNew ==
    ASSUME Inv
    PROVE  /\ NextSnapshot \in Nat \ {0}
           /\ \A l \in disk[LastSnapshot] : l \in 1..MaxSnapshot /\ l < NextSnapshot
  <1>1. \A l, o \in disk[LastSnapshot] : l = o
    BY Keys DEF Inv, Single
  <1>2. disk[LastSnapshot] \subseteq 1..MaxSnapshot
    BY DEF Inv, SnapshotInv
  <1>3. CASE disk[LastSnapshot] = {}
    BY <1>3 DEF NextSnapshot
  <1>4. CASE disk[LastSnapshot] # {}
    <2>1. PICK l \in disk[LastSnapshot] : TRUE
      BY <1>4
    <2>2. (CHOOSE o \in disk[LastSnapshot] : TRUE) = l
      BY <2>1, <1>1
    <2>3. NextSnapshot = 1 + l
      BY <2>2, <1>4 DEF NextSnapshot
    <2> QED BY <2>1, <2>3, <1>1, <1>2
  <1>5. QED BY <1>3, <1>4

\* store_last_snapshot_data, of an index and a head block that covers it
LEMMA StoreSnapshotInv ==
    ASSUME Inv, mem.up, NEW i \in Index, NEW b \in Index, Covers(b, i),
           NextSnapshot <= MaxSnapshot, NEW m \in Memory,
           m.up /\ m.start = mem.start /\ m.last = mem.last,
           m.head = mem.head /\ m.commit = mem.commit /\ m.saved \in {mem.saved, i},
           Operation(StoreSnapshot(i, b, NextSnapshot), m, <<>>)
    PROVE  Inv'
  <1>1. PICK k \in 1..MaxSnapshot : k = NextSnapshot
    BY NextSnapshotNew, RaftStoreAssumption
  <1>2. \A l \in disk[LastSnapshot] : l \in 1..MaxSnapshot /\ l < k
    BY <1>1, NextSnapshotNew
  <1>3. Operation(<<Write(Snapshot(k), <<i, b>>), Write(SnapshotOf(i), k),
                    Write(LastSnapshot, k)>>, m, <<>>)
    BY <1>1, Zenon DEF StoreSnapshot
  <1>4. /\ Snapshot(k) \in Key /\ SnapshotOf(i) \in Key /\ LastSnapshot \in Key
        /\ Snapshot(k) # SnapshotOf(i) /\ Snapshot(k) # LastSnapshot
        /\ SnapshotOf(i) # LastSnapshot
    BY Keys DEF Snapshot, SnapshotOf, LastSnapshot
  <1>5. /\ \A o \in Key \ {Snapshot(k), SnapshotOf(i), LastSnapshot} : disk'[o] = disk[o]
        /\ \/ /\ disk'[Snapshot(k)] = {<<i, b>>} /\ disk'[SnapshotOf(i)] = {k}
              /\ disk'[LastSnapshot] = {k}
              /\ Completed(m, <<>>) \/ Crashed(<<>>)
           \/ /\ disk'[Snapshot(k)] = {<<i, b>>} /\ disk'[SnapshotOf(i)] = {k}
              /\ disk'[LastSnapshot] = disk[LastSnapshot]
              /\ Crashed(<<>>)
           \/ /\ disk'[Snapshot(k)] \in {disk[Snapshot(k)], {<<i, b>>}}
              /\ disk'[SnapshotOf(i)] = disk[SnapshotOf(i)]
              /\ disk'[LastSnapshot] = disk[LastSnapshot]
              /\ Crashed(<<>>)
    BY <1>3, <1>4, WriteThree
  <1>6. acked' = acked
    BY <1>5 DEF Completed, Crashed, Inv, LogInv
  <1>7. mem' = m \/ mem' = Down
    BY <1>5 DEF Completed, Crashed
  <1>8. MemOK' /\ LogInv'
    <2>1. /\ \A j \in 0..MaxIndex : disk'[Log(j)] = disk[Log(j)]
          /\ disk'[StartIdx] = disk[StartIdx] /\ disk'[LastIdx] = disk[LastIdx]
      BY <1>5, Keys DEF Log, StartIdx, LastIdx, Snapshot, SnapshotOf, LastSnapshot
    <2> QED BY <2>1, <1>6, <1>7, DownInMemory, LogKept
  <1>9. Single'
    <2>1. ASSUME NEW o \in Key PROVE disk'[o] = disk[o] \/ \E v : disk'[o] = {v}
      BY <1>5
    <2> QED BY <2>1, SingleKept
  <1>10. HeadInv'
    <2>1. disk'[HeadBlk] = disk[HeadBlk] /\ disk'[LastCommit] = disk[LastCommit]
      BY <1>5, Keys DEF LastSnapshot, SnapshotOf, Snapshot, HeadBlk, LastCommit
    <2> QED BY <2>1, <1>7, HeadKept
  <1>11. /\ \A j \in Index \ {i} : disk'[SnapshotOf(j)] = disk[SnapshotOf(j)]
         /\ \A j \in (1..MaxSnapshot) \ {k} : disk'[Snapshot(j)] = disk[Snapshot(j)]
    BY <1>5, Keys DEF LastSnapshot, SnapshotOf, Snapshot
  <1>12. \A j \in 1..MaxSnapshot : disk[Snapshot(j)] # {} => disk'[Snapshot(j)] # {}
    BY <1>5, <1>11
  <1>13. /\ \A j \in Index : disk'[SnapshotOf(j)] \subseteq 1..MaxSnapshot
         /\ \A j \in 1..MaxSnapshot : disk'[Snapshot(j)] \subseteq Index \X Index
         /\ disk'[LastSnapshot] \subseteq 1..MaxSnapshot
    <2>1. disk'[LastSnapshot] \subseteq 1..MaxSnapshot
      BY <1>2, <1>5
    <2>2. ASSUME NEW j \in Index PROVE disk'[SnapshotOf(j)] \subseteq 1..MaxSnapshot
      BY <1>5, <1>11 DEF Inv, SnapshotInv
    <2>3. ASSUME NEW j \in 1..MaxSnapshot PROVE disk'[Snapshot(j)] \subseteq Index \X Index
      BY <1>5, <1>11 DEF Inv, SnapshotInv
    <2> QED BY <2>1, <2>2, <2>3
  <1>14. SnapshotReadable'
    <2>1. CASE /\ disk'[Snapshot(k)] = {<<i, b>>} /\ disk'[SnapshotOf(i)] = {k}
               /\ disk'[LastSnapshot] = {k}
      <3> DEFINE t == <<i, b>>
      <3>1. t[1] = i /\ t[2] = b
        OBVIOUS
      <3>2. /\ t \in disk'[Snapshot(k)]
            /\ \A j \in (1..t[1]) \ Config : j <= t[2]
            /\ k \in disk'[SnapshotOf(t[1])] /\ disk'[Snapshot(k)] # {}
        BY <2>1, <3>1 DEF Covers
      <3> QED BY <2>1, <3>2 DEF SnapshotReadable
    <2>2. ASSUME disk'[LastSnapshot] = disk[LastSnapshot], NEW l \in disk[LastSnapshot]
          PROVE  \E t \in disk'[Snapshot(l)] :
                    /\ \A j \in (1..t[1]) \ Config : j <= t[2]
                    /\ \E j \in disk'[SnapshotOf(t[1])] : disk'[Snapshot(j)] # {}
      <3>1. l \in 1..MaxSnapshot /\ l # k
        BY <1>2
      <3>2. PICK t \in disk[Snapshot(l)] :
                    /\ \A j \in (1..t[1]) \ Config : j <= t[2]
                    /\ \E j \in disk[SnapshotOf(t[1])] : disk[Snapshot(j)] # {}
        BY DEF Inv, SnapshotInv, SnapshotReadable
      <3>3. t[1] \in Index /\ t \in disk'[Snapshot(l)]
        BY <3>1, <3>2, <1>11 DEF Inv, SnapshotInv
      <3>4. \E j \in disk'[SnapshotOf(t[1])] : disk'[Snapshot(j)] # {}
        <4>1. CASE disk'[SnapshotOf(t[1])] = disk[SnapshotOf(t[1])]
          <5>1. PICK j \in disk[SnapshotOf(t[1])] : disk[Snapshot(j)] # {}
            BY <3>2
          <5>2. j \in 1..MaxSnapshot
            BY <3>3, <5>1 DEF Inv, SnapshotInv
          <5> QED BY <4>1, <5>1, <5>2, <1>12
        <4>2. CASE t[1] = i /\ disk'[SnapshotOf(i)] = {k} /\ disk'[Snapshot(k)] = {<<i, b>>}
          BY <4>2
        <4> QED BY <4>1, <4>2, <3>3, <1>5, <1>11
      <3> QED BY <3>2, <3>3, <3>4
    <2> QED BY <2>1, <2>2, <1>5 DEF SnapshotReadable
  <1>15. ASSUME mem'.up, mem'.saved # 0, NEW l \in disk'[SnapshotOf(mem'.saved)]
         PROVE  /\ \E o \in disk'[LastSnapshot] : l <= o
                /\ \A t \in disk'[Snapshot(l)] : Covers(t[2], mem'.saved)
    <2>1. /\ mem' = m
          /\ disk'[Snapshot(k)] = {<<i, b>>} /\ disk'[SnapshotOf(i)] = {k}
          /\ disk'[LastSnapshot] = {k}
      BY <1>5, <1>15, DownInMemory DEF Completed, Crashed
    <2>2. CASE m.saved = i
      BY <2>1, <2>2, <1>15
    <2>3. CASE m.saved = mem.saved /\ mem.saved # i
      <3>1. mem.saved \in Index \ {i}
        BY <2>1, <2>3, <1>15, Running DEF Index
      <3>2. l \in disk[SnapshotOf(mem.saved)] /\ l \in 1..MaxSnapshot
        BY <3>1, <2>1, <2>3, <1>15, <1>11 DEF Inv, SnapshotInv
      <3>3. /\ \E o \in disk[LastSnapshot] : l <= o
            /\ \A t \in disk[Snapshot(l)] : Covers(t[2], mem.saved)
        BY <3>1, <3>2, <1>15 DEF Inv, SnapshotInv, Index
      <3>4. l < k
        BY <3>2, <3>3, <1>2
      <3> QED BY <3>2, <3>3, <3>4, <2>1, <2>3, <1>11
    <2> QED BY <2>2, <2>3, <2>1
  <1>16. SnapshotInv'
    BY <1>13, <1>14, <1>15 DEF SnapshotInv, Covers
  <1>17. QED BY <1>8, <1>9, <1>10, <1>16 DEF Inv

\* create_snapshot
LEMMA CreateSnapshotInv ==
    ASSUME Inv, CreateSnapshot
    PROVE  Inv'
  <1>1. mem.up /\ mem.commit > 0 /\ NextSnapshot <= MaxSnapshot
    BY DEF CreateSnapshot
  <1>2. CASE mem.head = {}
    <2>1. mem' = Down /\ disk' = disk /\ acked' = acked
      BY <1>2 DEF CreateSnapshot
    <2> QED BY <2>1, CrashInv
  <1>3. CASE mem.head # {}
    <2>1. PICK b \in mem.head : Operation(StoreSnapshot(mem.commit, b, NextSnapshot), mem, <<>>)
      BY <1>3 DEF CreateSnapshot
    <2>2. mem \in Memory /\ mem.commit \in Index /\ b \in Index
      BY <1>1, <2>1, Running DEF Memory, Index
    <2>3. \A d \in mem.head : d = b
      <3>1. mem.head \subseteq disk[HeadBlk]
        BY <1>1 DEF Inv, HeadInv
      <3> QED BY <3>1, <2>1, Keys DEF Inv, Single
    <2>4. Covers(b, mem.commit)
      BY <1>1, <2>3 DEF Inv, HeadInv, Covers
    <2> QED BY <1>1, <2>1, <2>2, <2>4, StoreSnapshotInv
  <1>4. QED BY <1>2, <1>3

\* save_logical_snp_obj
LEMMA SaveSnapshotInv ==
    ASSUME Inv, NEW i \in Index, SaveSnapshot(i)
    PROVE  Inv'
  <1>1. PICK m : m = [mem EXCEPT !.saved = i]
    OBVIOUS
  <1>2. /\ mem.up /\ BlockAt(i) > 0 /\ NextSnapshot <= MaxSnapshot
        /\ Operation(StoreSnapshot(i, BlockAt(i), NextSnapshot), m, <<>>)
    BY <1>1, Zenon DEF SaveSnapshot
  <1>3. BlockAt(i) \in Index /\ Covers(BlockAt(i), i)
    BY <1>2, BlockAtCovers, RaftStoreAssumption DEF Index
  <1>4. /\ m \in Memory /\ m.up /\ m.start = mem.start /\ m.last = mem.last
        /\ m.head = mem.head /\ m.commit = mem.commit /\ m.saved = i
    <2>1. mem \in Memory /\ i \in 0..MaxIndex
      BY <1>2, Running DEF Index
    <2> QED BY <2>1, <1>1, <1>2 DEF Memory
  <1>5. QED BY <1>2, <1>3, <1>4, StoreSnapshotInv

\* apply_snapshot
LEMMA ApplySnapshotInv ==
    ASSUME Inv, NEW i \in Index, ApplySnapshot(i)
    PROVE  Inv'
  <1>1. mem.up /\ i = mem.saved /\ mem.commit < i
    BY Running DEF ApplySnapshot, Index
  <1>2. PICK k \in disk[SnapshotOf(i)] : \E t \in disk[Snapshot(k)] : CommitRaftLog(i, t[2])
    BY DEF ApplySnapshot
  <1>3. PICK t \in disk[Snapshot(k)] : CommitRaftLog(i, t[2])
    BY <1>2
  <1>4. k \in 1..MaxSnapshot /\ t[2] \in Index
    BY <1>2, <1>3 DEF Inv, SnapshotInv
  <1>5. Covers(t[2], i)
    BY <1>1, <1>2, <1>3 DEF Inv, SnapshotInv, Index
  <1>6. QED BY <1>1, <1>3, <1>4, <1>5, CommitRaftLogInv

-----------------------------------------------------------------------------
(* Starting *)

\* What a process loads of the state machine.
LEMMA LoadedHeadInv ==
    ASSUME Inv
    PROVE  /\ LoadedHead \in SUBSET Index /\ LoadedCommit \in 0..MaxIndex
           /\ LoadedHead \subseteq disk[HeadBlk]
           /\ \A j \in (1..LoadedCommit) \ Config : \E b \in LoadedHead : j <= b
           /\ \A c \in disk[LastCommit] : c <= LoadedCommit \/ 1..c \subseteq Config
  <1>1. disk[HeadBlk] \subseteq Index /\ disk[LastCommit] \subseteq Index /\ HeadNotBehind
    BY DEF Inv, HeadInv
  <1>2. CASE disk[LastCommit] # {} /\ disk[HeadBlk] # {}
    <2>1. PICK c \in disk[LastCommit] : TRUE
      BY <1>2
    <2>2. \A d \in disk[LastCommit] : d = c
      BY <2>1, Keys DEF Inv, Single
    <2>3. (CHOOSE d \in disk[LastCommit] : TRUE) = c
      BY <2>1, <2>2
    <2>4. LoadedCommit = c /\ LoadedHead = disk[HeadBlk]
      BY <1>2, <2>3 DEF LoadedCommit, LoadedHead
    <2> QED BY <1>1, <2>1, <2>2, <2>4 DEF HeadNotBehind, Index
  <1>3. CASE disk[LastCommit] = {} \/ disk[HeadBlk] = {}
    <2>1. LoadedCommit = 0 /\ LoadedHead = {}
      BY <1>3 DEF LoadedCommit, LoadedHead
    <2>2. ASSUME NEW c \in disk[LastCommit] PROVE 1..c \subseteq Config
      BY <1>1, <1>3 DEF HeadNotBehind
    <2> QED BY <2>1, <2>2, RaftStoreAssumption
  <1>4. QED BY <1>2, <1>3

\* A process that starts with the log it finds or has made preserves the invariant.
LEMMA StartInv ==
    ASSUME Inv, Single', \A k \in MachineKey : disk'[k] = disk[k], LogInv',
           NEW m, m \in Memory, m.up,
           m.head = LoadedHead /\ m.commit = LoadedCommit /\ m.saved = 0,
           mem' = m \/ mem' = Down
    PROVE  Inv'
  <1>1. /\ disk'[HeadBlk] = disk[HeadBlk] /\ disk'[LastCommit] = disk[LastCommit]
        /\ disk'[LastSnapshot] = disk[LastSnapshot]
        /\ \A i \in Index : disk'[SnapshotOf(i)] = disk[SnapshotOf(i)]
        /\ \A k \in 1..MaxSnapshot : disk'[Snapshot(k)] = disk[Snapshot(k)]
    BY DEF MachineKey
  <1>2. MemOK'
    BY DownInMemory DEF MemOK
  <1>3. HeadInv'
    <2>1. CASE mem' = Down
      BY <2>1, <1>1, HeadKept
    <2>2. CASE mem' = m
      <3>1. HeadNotBehind'
        BY <1>1 DEF Inv, HeadInv, HeadNotBehind
      <3> QED BY <2>2, <3>1, <1>1, LoadedHeadInv DEF Inv, HeadInv
    <2> QED BY <2>1, <2>2
  <1>4. SnapshotInv'
    BY <1>1, SnapshotsKept
  <1>5. QED BY <1>2, <1>3, <1>4 DEF Inv

\* The constructors, on an empty database
LEMMA InitialiseInv ==
    ASSUME Inv, Initialise
    PROVE  Inv'
  <1>1. PICK m : m = [up |-> TRUE, start |-> 1, last |-> 0,
                      head |-> LoadedHead, commit |-> LoadedCommit, saved |-> 0]
    OBVIOUS
  <1>2. /\ disk[Log(0)] = {}
        /\ Operation(<<Write(Log(0), 0), Write(StartIdx, 1), Write(LastIdx, 0)>>, m, <<>>)
    BY <1>1, Zenon DEF Initialise
  <1>3. /\ Log(0) \in Key /\ StartIdx \in Key /\ LastIdx \in Key
        /\ Log(0) # StartIdx /\ Log(0) # LastIdx /\ StartIdx # LastIdx
    BY RaftStoreAssumption, Keys DEF Log, StartIdx, LastIdx
  <1>4. /\ \A k \in Key \ {Log(0), StartIdx, LastIdx} : disk'[k] = disk[k]
        /\ \/ /\ disk'[Log(0)] = {0} /\ disk'[StartIdx] = {1} /\ disk'[LastIdx] = {0}
              /\ Completed(m, <<>>) \/ Crashed(<<>>)
           \/ /\ disk'[Log(0)] = {0} /\ disk'[StartIdx] = {1} /\ disk'[LastIdx] = disk[LastIdx]
              /\ Crashed(<<>>)
           \/ /\ disk'[Log(0)] \in {disk[Log(0)], {0}} /\ disk'[StartIdx] = disk[StartIdx]
              /\ disk'[LastIdx] = disk[LastIdx] /\ Crashed(<<>>)
    BY <1>2, <1>3, WriteThree
  <1>5. acked' = acked /\ \A i \in Index : acked[i] = {}
    BY <1>2, <1>4 DEF Completed, Crashed, Inv, LogInv
  <1>6. /\ m \in Memory /\ m.up /\ m.start = 1 /\ m.last = 0
        /\ m.head = LoadedHead /\ m.commit = LoadedCommit /\ m.saved = 0
    BY <1>1, LoadedHeadInv, RaftStoreAssumption DEF Memory
  <1>7. Single'
    <2>1. ASSUME NEW k \in Key PROVE disk'[k] = disk[k] \/ \E v : disk'[k] = {v}
      BY <1>4
    <2> QED BY <2>1, SingleKept
  <1>8. \A k \in MachineKey : disk'[k] = disk[k]
    BY <1>4, Keys
  <1>9. LogInv'
    <2>1. \A i \in 0..MaxIndex : disk'[Log(i)] \subseteq Nat
      <3>1. \A i \in (0..MaxIndex) \ {0} : disk'[Log(i)] = disk[Log(i)]
        BY <1>4, Keys DEF Log, StartIdx, LastIdx
      <3> QED BY <3>1, <1>4 DEF Inv, LogInv
    <2>2. disk'[StartIdx] \subseteq Nat \ {0} /\ disk'[LastIdx] \subseteq 0..MaxIndex
      BY <1>4, RaftStoreAssumption DEF Inv, LogInv
    <2>3. AckedSurvive'
      BY <1>5 DEF AckedSurvive
    <2>4. mem'.up => /\ disk'[Log(0)] # {}
                     /\ disk'[StartIdx] = {mem'.start} /\ disk'[LastIdx] = {mem'.last}
      BY <1>4, <1>6, DownInMemory DEF Completed, Crashed
    <2> QED BY <2>1, <2>2, <2>3, <2>4, <1>5 DEF Inv, LogInv
  <1>10. mem' = m \/ mem' = Down
    BY <1>4 DEF Completed, Crashed
  <1>11. QED BY <1>6, <1>7, <1>8, <1>9, <1>10, StartInv

\* The constructors, on a database with a log
LEMMA LoadInv ==
    ASSUME Inv, Load
    PROVE  Inv'
  <1>1. disk' = disk /\ acked' = acked /\ disk[Log(0)] # {}
    BY DEF Load
  <1>2. PICK st \in disk[StartIdx], la \in disk[LastIdx] :
           mem' = [up |-> TRUE, start |-> st, last |-> la,
                   head |-> LoadedHead, commit |-> LoadedCommit, saved |-> 0]
    BY DEF Load
  <1>3. /\ mem' \in Memory /\ mem'.up /\ mem'.start = st /\ mem'.last = la
        /\ mem'.head = LoadedHead /\ mem'.commit = LoadedCommit /\ mem'.saved = 0
    <2>1. st \in Nat /\ la \in Nat
      BY DEF Inv, LogInv
    <2> QED BY <1>2, <2>1, LoadedHeadInv, RaftStoreAssumption DEF Memory
  <1>4. disk[StartIdx] = {st} /\ disk[LastIdx] = {la}
    BY Keys DEF Inv, Single
  <1>5. Single' /\ \A k \in MachineKey : disk'[k] = disk[k]
    BY <1>1 DEF Inv, Single
  <1>6. LogInv'
    BY <1>1, <1>3, <1>4 DEF Inv, LogInv, AckedSurvive
  <1>7. QED BY <1>3, <1>5, <1>6, StartInv

-----------------------------------------------------------------------------
(* The theorems *)

\* The invariant holds initially.
LEMMA InitInv == Init => Inv
  <1> SUFFICES ASSUME Init PROVE Inv
    OBVIOUS
  <1>1. \A k \in Key : disk[k] = {}
    BY DEF Init
  <1>2. /\ disk[StartIdx] = {} /\ disk[LastIdx] = {} /\ disk[HeadBlk] = {}
        /\ disk[LastCommit] = {} /\ disk[LastSnapshot] = {}
        /\ \A i \in 0..MaxIndex : disk[Log(i)] = {}
        /\ \A i \in Index : disk[SnapshotOf(i)] = {}
        /\ \A k \in 1..MaxSnapshot : disk[Snapshot(k)] = {}
    BY <1>1, Keys
  <1>3. MemOK /\ ~mem.up
    BY DownInMemory DEF Init, MemOK
  <1>4. Single
    BY <1>1 DEF Single
  <1>5. acked = [i \in Index |-> {}]
    BY DEF Init
  <1>6. LogInv
    BY <1>2, <1>3, <1>5 DEF LogInv, AckedSurvive
  <1>7. HeadInv /\ SnapshotInv
    BY <1>2, <1>3 DEF HeadInv, HeadNotBehind, SnapshotInv, SnapshotReadable
  <1>8. QED BY <1>3, <1>4, <1>6, <1>7 DEF Inv

\* Every step preserves it.
LEMMA NextInv ==
    ASSUME Inv, [Next]_vars
    PROVE  Inv'
  <1>1. CASE Initialise
    BY <1>1, InitialiseInv
  <1>2. CASE Load
    BY <1>2, LoadInv
  <1>3. CASE Exit
    BY <1>3, CrashInv DEF Exit
  <1>4. ASSUME NEW t \in 1..MaxTerm, AppendEntry(t) PROVE Inv'
    BY <1>4, AppendEntryInv
  <1>5. ASSUME NEW t \in 1..MaxTerm, NEW i \in Index, WriteAt(i, t) PROVE Inv'
    BY <1>5, WriteAtInv
  <1>6. ASSUME NEW i \in Index, NEW n \in 1..2, NEW ts \in [1..n -> 1..MaxTerm],
               ApplyPack(i, ts)
        PROVE  Inv'
    BY <1>6, ApplyPackInv
  <1>7. ASSUME NEW i \in Index, Compact(i) PROVE Inv'
    BY <1>7, CompactedInv DEF Compact
  <1>8. ASSUME NEW i \in Index, SaveSnapshot(i) PROVE Inv'
    BY <1>8, SaveSnapshotInv
  <1>9. ASSUME NEW i \in Index, ApplySnapshot(i) PROVE Inv'
    BY <1>9, ApplySnapshotInv
  <1>10. CASE Commit
    BY <1>10, CommitInv
  <1>11. CASE CreateSnapshot
    BY <1>11, CreateSnapshotInv
  <1>12. CASE UNCHANGED vars
    BY <1>12 DEF vars, Inv, MemOK, Single, LogInv, HeadInv, SnapshotInv, AckedSurvive,
                 HeadNotBehind, SnapshotReadable
  <1>13. QED
    BY <1>1, <1>2, <1>3, <1>4, <1>5, <1>6, <1>7, <1>8, <1>9, <1>10, <1>11, <1>12 DEF Next

\* The invariant holds always.
LEMMA Invariance == Spec => []Inv
  BY InitInv, NextInv, PTL DEF Spec

\* No entry that the library was told is stored is lost or left past the end of the log,
\* however append, write_at, apply_pack and compact are cut short.
THEOREM AckedEntriesSurvive == Spec => []AckedSurvive
  <1>1. Inv => AckedSurvive
    BY DEF Inv, LogInv
  <1>2. QED BY <1>1, Invariance, PTL

\* The stored commit index is never ahead of the stored head block, whichever write of
\* commit_raft_log or apply_snapshot a crash follows.
THEOREM HeadNeverBehind == Spec => []HeadNotBehind
  <1>1. Inv => HeadNotBehind
    BY DEF Inv, HeadInv
  <1>2. QED BY <1>1, Invariance, PTL

\* The database is well formed, and the last snapshot that a restart finds is there, with
\* a head block that covers it.
THEOREM StoreConsistent == Spec => []Consistent
  <1>1. Inv => Consistent
    <2> SUFFICES ASSUME Inv PROVE Consistent
      OBVIOUS
    <2>1. \A k \in Key \ {Snapshot(j) : j \in 1..MaxSnapshot} : disk[k] \subseteq Nat
      <3>1. /\ \A i \in 0..MaxIndex : disk[Log(i)] \subseteq Nat
            /\ \A i \in Index : disk[SnapshotOf(i)] \subseteq Nat
            /\ disk[StartIdx] \subseteq Nat /\ disk[LastIdx] \subseteq Nat
            /\ disk[HeadBlk] \subseteq Nat /\ disk[LastCommit] \subseteq Nat
            /\ disk[LastSnapshot] \subseteq Nat
        BY DEF Inv, LogInv, HeadInv, SnapshotInv, Index
      <3> QED BY <3>1 DEF Key
    <2>2. mem.up \in BOOLEAN /\ {mem.start, mem.last, mem.commit, mem.saved} \cup mem.head \subseteq Nat
      BY DEF Inv, MemOK, Memory, Index
    <2>3. \A i \in Index : acked[i] \subseteq 1..MaxTerm
      BY DEF Inv, LogInv
    <2> QED BY <2>1, <2>2, <2>3 DEF Consistent, TypeOK, Inv, Single, SnapshotInv
  <1>2. QED BY <1>1, Invariance, PTL
=============================================================================
