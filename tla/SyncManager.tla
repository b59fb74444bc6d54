---------------------------- MODULE SyncManager ----------------------------
(***************************************************************************)
(* Which blocks a node asks its peers for, and from which of them: the     *)
(* sync manager of the net plugin and its state machine                    *)
(* (net_plugin/sync_manager.hpp), as functions of its state s.             *)
(*                                                                         *)
(* The functions that the events take h, the number of the node's head     *)
(* block, and con, its connections: their "status", the last irreversible  *)
(* block "lib" that the peer told, and "forkHead", the block that the node *)
(* asked the peer to lead it to.  PeerSync has what is around it.          *)
(***************************************************************************)
EXTENDS Integers, FiniteSetsExt

CONSTANTS
    Conns,      \* the connections: numbers, in the order of net_plugin's set
    Span,       \* sync-fetch-span
    Lag         \* how far the last irreversible block is behind the head

ASSUME SyncManagerAssumption ==
    /\ Conns \subseteq Nat \ {0} /\ IsFiniteSet(Conns) /\ Conns # {}
    /\ Span \in Nat \ {0} /\ Lag \in Nat

\* st       the state of the state machine
\* known    sync_known_lib_num
\* lastReq  sync_last_requested_num
\* nextExp  sync_next_expected_num
\* source   sync_source, 0 for none
\* acting   the action of the transition that is being taken, with the state machine
\*          locked: "no", continue_sync, or closing_sync_source and continue_sync
\* by       the connection whose strand takes it, or 0
SyncStates(num, lib) ==
    [st : {"in_sync", "lib_catchup", "head_catchup"}, known : lib, lastReq : num,
     nextExp : num, source : Conns \cup {0}, by : Conns \cup {0},
     acting : {"no", "continue", "close_continue", "crashed"}]

NewSyncManager ==
    [st |-> "in_sync", known |-> 0, lastReq |-> 0, nextExp |-> 1, source |-> 0,
     acting |-> "no", by |-> 0]

LibOf(h) == Max({1, h - Lag})

Current(con, c) == con[c].status = "up"

-----------------------------------------------------------------------------
(* The functions of sync_manager *)

IsSyncRequired(s, h, target) ==
    s.lastReq < s.known \/ h < s.lastReq \/ target > LibOf(h)

SyncInProgress(s, h, con) ==
    h < s.lastReq /\ s.source # 0 /\ Current(con, s.source)

SyncResetLibNum(s, lib) == [s EXCEPT !.known = Max({@, lib})]

SyncUpdateExpected(s, n, applied) ==
    IF n <= s.lastReq /\ (n = s.nextExp \/ applied) THEN [s EXCEPT !.nextExp = n + 1] ELSE s

UpdateNextExpected(s, h) == [s EXCEPT !.nextExp = Max({LibOf(h) + 1, @})]

SetHighestLib(s, con) ==
    [s EXCEPT !.known = Max({0} \cup {con[c].lib : c \in {d \in Conns : Current(con, d)}})]

\* Mutant: goes on after the blocks that the closed connection was asked for.
ClosingSyncSourceAfterRequest(s, h) == [s EXCEPT !.nextExp = s.lastReq + 1, !.lastReq = 0]

ClosingSyncSource(s, h) == [s EXCEPT !.nextExp = h + 1, !.lastReq = 0]

\* The next able connection in the ring, after the old source; the old source itself
\* comes last, and is kept when there is none.
NextSource(s, con) ==
    LET able  == {c \in Conns : Current(con, c) /\ con[c].lib >= s.known}
        after == {c \in able : c > s.source}
    IN  IF Cardinality(Conns) = 1 THEN (IF s.source = 0 THEN Min(Conns) ELSE s.source)
        ELSE IF after # {} THEN Min(after)
        ELSE IF able # {} THEN Min(able) ELSE s.source

\* set_new_sync_source: the hint, or the next one; [ok, s].
SetNewSyncSource(s, h, con, hint) ==
    LET new == IF hint # 0 /\ Current(con, hint) THEN hint ELSE NextSource(s, con)
    IN  IF new # 0 /\ Current(con, new)
        THEN [ok |-> TRUE, s |-> [s EXCEPT !.source = new]]
        ELSE [ok |-> FALSE,
              s  |-> [s EXCEPT !.source = 0, !.known = LibOf(h), !.lastReq = 0]]

\* continue_sync: the range to ask for, if any.
SyncRange(s) ==
    LET end == Min({s.nextExp + Span - 1, s.known})
    IN  IF s.lastReq # s.known /\ end >= s.nextExp THEN {<<s.nextExp, end>>} ELSE {}

\* Numbers stand for ids: there is one block of each number.
ForkHeadGe(con, n) == \E c \in Conns : con[c].forkHead >= n

ContinueHeadCatchup(con, n) == \E c \in Conns : con[c].forkHead > n

ResetForkHeads(con, n) ==
    [c \in Conns |-> IF con[c].forkHead <= n THEN [con[c] EXCEPT !.forkHead = 0] ELSE con[c]]

-----------------------------------------------------------------------------
(* The state machine: what an event leaves, whether some transition took   *)
(* it ("passed"), and whether handshakes are to be sent ("greet").         *)

Passed(s) == [s |-> s, passed |-> TRUE, greet |-> FALSE]
NotPassed(s) == [s |-> s, passed |-> FALSE, greet |-> FALSE]

InSync(s) == Passed([s EXCEPT !.st = "in_sync", !.source = 0])
InSyncGreeting(s) == [InSync(s) EXCEPT !.greet = TRUE]

Acting(s, act) == Passed([s EXCEPT !.st = "lib_catchup", !.acting = act])

LibCatchup(s, h, con, target, hint) ==
    LET s1  == SyncResetLibNum(s, target)
        s2  == UpdateNextExpected(s1, h)
        new == SetNewSyncSource(s2, h, con, hint)
    IN  CASE s.st = "head_catchup" -> NotPassed(s)
          [] s.st = "in_sync" ->
               IF ~IsSyncRequired(s1, h, target) THEN NotPassed(s1)
               ELSE IF new.ok THEN Acting(new.s, "continue") ELSE NotPassed(new.s)
          [] s.st = "lib_catchup" ->
               IF ~IsSyncRequired(s1, h, target) THEN InSync(s1)
               ELSE IF SyncInProgress(s2, h, con) THEN Passed(s2)
               ELSE IF new.ok THEN Acting(new.s, "continue") ELSE InSync(new.s)

HeadCatchup(s) ==
    CASE s.st = "in_sync"      -> Passed([s EXCEPT !.st = "head_catchup"])
      [] s.st = "lib_catchup"  -> Passed(s)
      [] s.st = "head_catchup" -> NotPassed(s)

RecvBlock(s, h, con, n, applied) ==
    LET s1  == SyncUpdateExpected(s, n, applied)
        new == SetNewSyncSource(s1, h, con, 0)
    IN  CASE s.st = "in_sync"      -> InSync(s1)
          [] s.st = "lib_catchup"  ->
               IF n >= s1.known THEN InSyncGreeting(s1)
               ELSE IF n < s1.lastReq THEN NotPassed(s1)
               ELSE IF new.ok THEN Acting(new.s, "continue") ELSE InSync(new.s)
          [] s.st = "head_catchup" ->
               IF ContinueHeadCatchup(con, n) THEN NotPassed(s1) ELSE InSyncGreeting(s1)

\* The connections after a block: only the guard in head_catchup changes them.
RecvBlockForkHeads(s, con, n) ==
    IF s.st = "head_catchup" THEN ResetForkHeads(con, n) ELSE con

\* When there is no source left, the transition to in_sync asks again whether the
\* connection is the source, and it is not any more: the event is not taken.
CloseConnection(s, h, con, c) ==
    LET s1  == SetHighestLib(s, con)
        new == SetNewSyncSource(s1, h, con, 0)
    IN  CASE s.st # "lib_catchup" -> InSync(s1)
          [] s.st = "lib_catchup" /\ s.source # c -> NotPassed(s1)
          [] s.st = "lib_catchup" /\ s.source = c ->
               IF new.ok THEN Acting(new.s, "close_continue") ELSE NotPassed(new.s)

ReassignFetch(s, h, con, c) ==
    LET s1  == [s EXCEPT !.lastReq = 0]
        new == SetNewSyncSource(s1, h, con, 0)
    IN  CASE s.st = "in_sync"      -> InSync(s1)
          [] s.st = "head_catchup" -> Passed(s1)
          [] s.st = "lib_catchup" /\ s.source # c -> NotPassed(s1)
          [] s.st = "lib_catchup" /\ s.source = c ->
               IF new.ok THEN Acting(new.s, "continue") ELSE NotPassed(new.s)
=============================================================================
