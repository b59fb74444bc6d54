------------------------------ MODULE RaftStore ------------------------------
(***************************************************************************)
(* The database of a producer in a producer_ha group: the Raft log         *)
(* (nodeos_state_log_store) and what the state machine keeps with it       *)
(* (nodeos_state_machine), over one RocksDB (nodeos_state_db).             *)
(*                                                                         *)
(* An operation holds a lock, writes its keys one by one, each to the      *)
(* write-ahead log first, and flushes that log at its end: a crash leaves  *)
(* the writes up to some point.  An operation is one step, which completes *)
(* or is cut short by a crash after any number of its writes.              *)
(*                                                                         *)
(* An entry of the log is represented by its term; the entries of Config   *)
(* carry cluster configurations, the others blocks.  A block is            *)
(* represented by the index of its entry, which for a committed entry      *)
(* determines it.  What the Raft library asks for is external: it never    *)
(* overwrites or drops a committed entry that no snapshot covers.          *)
(***************************************************************************)
EXTENDS Integers, Sequences

CONSTANTS MaxIndex, MaxTerm, MaxSnapshot,   \* bounds
          Config                            \* indexes of configuration entries

ASSUME RaftStoreAssumption ==
    /\ MaxIndex \in Nat /\ MaxTerm \in Nat /\ MaxSnapshot \in Nat
    /\ Config \subseteq Nat \ {0}

VARIABLES
    disk,       \* key -> {value}, or {} if the key is absent
    mem,        \* what the process holds; saved is a snapshot to be applied
    acked       \* index -> {term} the library was told is stored, or {}

vars == <<disk, mem, acked>>

Index == 1..MaxIndex

-----------------------------------------------------------------------------
(* Keys and writes *)

Log(i)   == <<"log", i>>            \* Log(0) is the placeholder log_init_
StartIdx == <<"start_idx", 0>>
LastIdx  == <<"last_idx", 0>>
HeadBlk  == <<"head", 0>>
LastCommit    == <<"last", 0>>
Snapshot(k)   == <<"snapshots", k>>
LastSnapshot  == <<"snapshot_last", 0>>
SnapshotOf(i) == <<"log_idx_ss_idx_map", i>>

Key ==
    {Log(i) : i \in 0..MaxIndex} \cup {SnapshotOf(i) : i \in Index}
      \cup {Snapshot(k) : k \in 1..MaxSnapshot}
      \cup {StartIdx, LastIdx, HeadBlk, LastCommit, LastSnapshot}

Write(k, v) == <<k, {v}>>
Erase(k)    == <<k, {}>>

\* The database after the writes ws.
Written(d, ws) ==
    [k \in Key |->
       LET at == {j \in DOMAIN ws : ws[j][1] = k}
       IN  IF at = {} THEN d[k]
           ELSE ws[CHOOSE j \in at : \A l \in at : l <= j][2]]

Down == [up |-> FALSE, start |-> 0, last |-> 0, head |-> {}, commit |-> 0, saved |-> 0]

\* An operation that writes ws, after which the process holds m, and which is to
\* replace the entries in the domain of new by these.
Operation(ws, m, new) ==
    \/ /\ disk' = Written(disk, ws)
       /\ mem' = m
       /\ acked' = [i \in Index |-> IF i \in DOMAIN new THEN new[i] ELSE acked[i]]
    \/ /\ \E n \in 0..Len(ws) : disk' = Written(disk, SubSeq(ws, 1, n))
       /\ mem' = Down
       /\ acked' = [i \in Index |-> IF i \in DOMAIN new THEN {} ELSE acked[i]]

Init ==
    /\ disk = [k \in Key |-> {}]
    /\ mem = Down
    /\ acked = [i \in Index |-> {}]

-----------------------------------------------------------------------------
(* Starting and stopping *)

\* The constructor of the state machine: both keys or nothing.
LoadedHead ==
    IF disk[LastCommit] # {} /\ disk[HeadBlk] # {} THEN disk[HeadBlk] ELSE {}
LoadedCommit ==
    IF disk[LastCommit] # {} /\ disk[HeadBlk] # {}
    THEN CHOOSE c \in disk[LastCommit] : TRUE ELSE 0

\* The constructor of the log store, on an empty database.
Initialise ==
    /\ ~mem.up /\ disk[Log(0)] = {}
    /\ Operation(<<Write(Log(0), 0), Write(StartIdx, 1), Write(LastIdx, 0)>>,
                 [up |-> TRUE, start |-> 1, last |-> 0,
                  head |-> LoadedHead, commit |-> LoadedCommit, saved |-> 0], <<>>)

\* On one that has its first entry.  A missing index is a null pointer, followed.
Load ==
    /\ ~mem.up /\ disk[Log(0)] # {}
    /\ \E s \in disk[StartIdx], l \in disk[LastIdx] :
          mem' = [up |-> TRUE, start |-> s, last |-> l,
                  head |-> LoadedHead, commit |-> LoadedCommit, saved |-> 0]
    /\ UNCHANGED <<disk, acked>>

\* The process ends between two operations.
Exit ==
    /\ mem.up
    /\ mem' = Down
    /\ UNCHANGED <<disk, acked>>

-----------------------------------------------------------------------------
(* The log store *)

\* The library replaces entries that are not committed, and adds at the end.
MayReplace(i) == i > mem.commit /\ i >= mem.start /\ i <= mem.last + 1

\* append
AppendEntry(t) ==
    LET i == mem.last + 1
    IN  /\ mem.up /\ i <= MaxIndex
        /\ Operation(<<Write(Log(i), t), Write(LastIdx, i)>>, [mem EXCEPT !.last = i],
                     [j \in {i} |-> {t}])

\* The erasures of write_at: from the last entry down to the one after i.
ErasedAbove(i) ==
    [j \in 1..(IF mem.last > i THEN mem.last - i ELSE 0) |-> Erase(Log(mem.last + 1 - j))]

\* Mutant: the entries are discarded from the bottom of the log, up to i.
WriteAtDiscardsBelow(i, t) ==
    /\ mem.up /\ MayReplace(i)
    /\ Operation(<<Write(Log(i), t)>> \o [j \in 1..i-1 |-> Erase(Log(j))]
                   \o <<Write(LastIdx, i)>>,
                 [mem EXCEPT !.last = i],
                 [j \in i..MaxIndex |-> IF j = i THEN {t} ELSE {}])

WriteAt(i, t) ==
    /\ mem.up /\ MayReplace(i)
    /\ Operation(<<Write(Log(i), t)>> \o ErasedAbove(i) \o <<Write(LastIdx, i)>>,
                 [mem EXCEPT !.last = i],
                 [j \in i..MaxIndex |-> IF j = i THEN {t} ELSE {}])

\* The entries of a pack of another node: replaced, and nothing is discarded.
ApplyPack(i, ts) ==
    LET end  == i + Len(ts) - 1
        last == IF mem.last < end THEN end ELSE mem.last
    IN  /\ mem.up /\ MayReplace(i) /\ end <= MaxIndex
        /\ Operation([j \in 1..Len(ts) |-> Write(Log(i + j - 1), ts[j])]
                       \o <<Write(LastIdx, last)>>,
                     [mem EXCEPT !.last = last],
                     [j \in i..end |-> {ts[j - i + 1]}])

\* Erases the entries up to n, if there are any; a log that ends before n then ends at n.
Compacted(n) ==
    LET start == IF mem.start <= n THEN n + 1 ELSE mem.start
        last  == IF mem.last < n THEN n ELSE mem.last
    IN  Operation([j \in 1..(start - mem.start) |-> Erase(Log(mem.start + j - 1))]
                    \o <<Write(StartIdx, start)>>
                    \o (IF mem.last < n THEN <<Write(LastIdx, n)>> ELSE <<>>),
                  [mem EXCEPT !.start = start, !.last = last],
                  [j \in 1..n |-> {}])

\* The library compacts what is committed, once there is a snapshot, or what the snapshot
\* of another node, just saved, replaces.
Compact(n) ==
    /\ mem.up
    /\ (n <= mem.commit /\ disk[LastSnapshot] # {}) \/ n = mem.saved
    /\ Compacted(n)

-----------------------------------------------------------------------------
(* The state machine *)

\* Mutant: the index is stored before the block.
CommitIndexFirst(i, b) ==
    Operation(<<Write(LastCommit, i), Write(HeadBlk, b)>>,
              [mem EXCEPT !.head = {b}, !.commit = i], <<>>)

\* commit_raft_log, update_last_commit_index
CommitRaftLog(i, b) ==
    Operation(<<Write(HeadBlk, b), Write(LastCommit, i)>>,
              [mem EXCEPT !.head = {b}, !.commit = i], <<>>)

\* commit, commit_config: the library commits the entries in turn.
Commit ==
    LET i == mem.commit + 1
    IN  /\ mem.up /\ i <= mem.last /\ disk[Log(i)] # {}
        /\ IF i \in Config
           THEN Operation(<<Write(LastCommit, i)>>, [mem EXCEPT !.commit = i], <<>>)
           ELSE CommitRaftLog(i, i)

\* Mutant: the snapshot becomes the last one before its data is stored.
StoreSnapshotLastFirst(i, b, k) ==
    <<Write(LastSnapshot, k), Write(Snapshot(k), <<i, b>>), Write(SnapshotOf(i), k)>>

\* store_last_snapshot_data: a snapshot of log index i, with the head block b.
StoreSnapshot(i, b, k) ==
    <<Write(Snapshot(k), <<i, b>>), Write(SnapshotOf(i), k), Write(LastSnapshot, k)>>

\* get_last_snapshot_idx, and the index to write to
NextSnapshot ==
    1 + (IF disk[LastSnapshot] = {} THEN 0 ELSE CHOOSE k \in disk[LastSnapshot] : TRUE)

\* create_snapshot, of what is committed.  Without a block it follows a null pointer.
CreateSnapshot ==
    /\ mem.up /\ mem.commit > 0 /\ NextSnapshot <= MaxSnapshot
    /\ IF mem.head = {} THEN mem' = Down /\ UNCHANGED <<disk, acked>>
       ELSE \E b \in mem.head : Operation(StoreSnapshot(mem.commit, b, NextSnapshot), mem, <<>>)

\* The head block at log index i
BlockAt(i) == CHOOSE b \in 0..i : /\ b \notin Config
                                  /\ \A j \in b+1..i : j \in Config

\* save_logical_snp_obj: a snapshot of another node, of an index not committed here.
SaveSnapshot(i) ==
    /\ mem.up /\ i > mem.commit /\ BlockAt(i) > 0 /\ NextSnapshot <= MaxSnapshot
    /\ Operation(StoreSnapshot(i, BlockAt(i), NextSnapshot), [mem EXCEPT !.saved = i], <<>>)

\* apply_snapshot, once the log was compacted
ApplySnapshot(i) ==
    /\ mem.up /\ i = mem.saved /\ i > mem.commit /\ i < mem.start
    /\ \E k \in disk[SnapshotOf(i)] : \E s \in disk[Snapshot(k)] : CommitRaftLog(i, s[2])

-----------------------------------------------------------------------------
Next ==
    \/ Initialise \/ Load \/ Exit
    \/ \E t \in 1..MaxTerm : AppendEntry(t) \/ \E i \in Index : WriteAt(i, t)
    \/ \E i \in Index : \E n \in 1..2 : \E ts \in [1..n -> 1..MaxTerm] : ApplyPack(i, ts)
    \/ \E i \in Index : Compact(i) \/ SaveSnapshot(i) \/ ApplySnapshot(i)
    \/ Commit \/ CreateSnapshot

Spec == Init /\ [][Next]_vars

-----------------------------------------------------------------------------
(* Properties *)

\* Types; a key of the database has at most one value.
TypeOK ==
    /\ \A k \in Key : \A v, w \in disk[k] : v = w
    /\ \A k \in 1..MaxSnapshot : disk[Snapshot(k)] \subseteq Index \X Index
    /\ \A k \in Key \ {Snapshot(j) : j \in 1..MaxSnapshot} : disk[k] \subseteq Nat
    /\ mem.up \in BOOLEAN
    /\ {mem.start, mem.last, mem.commit, mem.saved} \cup mem.head \subseteq Nat
    /\ \A i \in Index : acked[i] \subseteq 1..MaxTerm

\* An entry the library was told is stored, and has not since asked to replace or drop,
\* is in the database and not past the end a restart loads, whatever crashes cut short: an
\* interrupted append, write_at, apply_pack or compact harms only the entries it was
\* called to replace.
AckedSurvive ==
    \A i \in Index : acked[i] # {} =>
        /\ disk[Log(i)] = acked[i]
        /\ \A l \in disk[LastIdx]  : i <= l

\* No index is stored as committed without the block of its entry or a later one: after
\* a crash the library commits again from the index, and would not bring the block back.
HeadNotBehind ==
    \A c \in disk[LastCommit] : \A i \in (1..c) \ Config :
        \E b \in disk[HeadBlk] : i <= b

\* The last snapshot a restart finds has its data, its head block is not behind the
\* entries it covers (after a crash it may be ahead), and the index it is of is mapped to
\* data too, however often storing a snapshot was cut short.
SnapshotReadable ==
    \A k \in disk[LastSnapshot] : \E s \in disk[Snapshot(k)] :
        /\ \A i \in (1..s[1]) \ Config : i <= s[2]
        /\ \E j \in disk[SnapshotOf(s[1])] : disk[Snapshot(j)] # {}

\* What is stored is well formed, and so is the snapshot a restart would load.
Consistent == TypeOK /\ SnapshotReadable
=============================================================================
