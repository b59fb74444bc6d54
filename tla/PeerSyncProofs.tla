--------------------------- MODULE PeerSyncProofs ---------------------------
(***************************************************************************)
(* Proofs about PeerSync, for any number of peers, any heads and last      *)
(* irreversible blocks of them, any span, lag and number of faults.        *)
(*                                                                         *)
(* NoGap is not inductive.  A block's number moves sync_next_expected_num  *)
(* long after the block was applied, when the strand gets to the task, or  *)
(* before it is, when another strand finds it in the dispatcher, and calls *)
(* without the mutex of the state machine change the sync manager between  *)
(* the two steps of a transition.  So the invariant says of each place     *)
(* where a number waits what it may be: what the dispatcher knows is       *)
(* accounted for, in the chain, about to be applied or refused, and stays  *)
(* so; a task for a block that was applied or known is of a block of the   *)
(* chain, which never gets shorter;                                        *)
(* a request, what a peer was asked for and what it sends are ranges of    *)
(* blocks that some peer has; and the last irreversible block that is      *)
(* known is one that a peer told or the node's own, also when the sync     *)
(* manager falls back to it because no source is left.                     *)
(***************************************************************************)
EXTENDS PeerSync, SequenceTheorems, FiniteSetTheorems, WellFoundedInduction, TLAPS

-----------------------------------------------------------------------------
(* The inductive invariant *)

\* The tasks of a strand: a block that was applied or known is in the chain.
Tasks(h) ==
    {t \in [type : {"handshake", "request", "close", "applied", "known", "rejected",
                    "head_catchup"}, from : Num, to : Num] :
       /\ t.type \in {"applied", "known"} => t.from <= h
       /\ t.type = "head_catchup" => 1 <= t.from /\ t.from <= Best
       /\ t.type = "request" => 1 <= t.from /\ t.from <= t.to /\ t.to <= Best}

\* The messages of a peer: it sends blocks that it has.
Messages ==
    {m \in [type : {"handshake", "lib", "catch_up", "go_away", "block"}, num : Num] :
       m.type = "block" => m.num \in 1..Best}

\* What a peer was asked for and has not sent is not empty.
Asked == {a \in Num \X Num : a[1] < a[2] /\ a[2] <= Best}

\* A connection of a node with h blocks.
Conn(c, h) ==
    [status : {"closed", "connecting", "up"}, lib : {0, PeerLib[c]}, sentLib : Num,
     forkHead : Num, timer : BOOLEAN, tasks : Seq(Tasks(h)), inbox : Seq(Messages),
     greeted : BOOLEAN, asked : SUBSET Asked]

\* All of them.
ConsOK(cn, h) == cn = [c \in Conns |-> cn[c]] /\ \A c \in Conns : cn[c] \in Conn(c, h)

\* The highest block that may be known as irreversible.
TopLib(h) == Max({PeerLib[c] : c \in Conns} \cup {LibOf(h)})

\* No more is requested than a peer has, and the next block to ask for is one of E.
Sync(h, E) ==
    [st : {"in_sync", "lib_catchup", "head_catchup"}, known : 0..TopLib(h), lastReq : 0..Best,
     nextExp : E, source : Conns \cup {0}, by : Conns \cup {0},
     acting : {"no", "continue", "close_continue", "crashed"}]

\* With h blocks the next one to ask for may be any of them, or the one after.
Nexts(h, E) == E \subseteq 1..Best + 1 /\ 1..h + 1 \subseteq E

\* The blocks that the node has, is about to apply, or has refused.
Accounted ==
    {n \in 1..Best : n <= head \/ n \in refused \/ (busy /\ app[1][2] = n)}

\* The numbers below which every block is one of those.
Reach == {e \in 1..Best + 1 : \A n \in 1..e - 1 : n \in Accounted}

\* The inductive invariant.
Inv ==
    /\ head \in 1..Best
    /\ s \in Sync(head, Reach)
    /\ ConsOK(con, head)
    /\ app \in Seq(Conns \X (1..Best))
    /\ busy \in BOOLEAN /\ (busy => app # <<>>)
    /\ seen \in SUBSET (Accounted \X Conns)
    /\ refused \in SUBSET (1..Best)
    /\ faults \in 0..MaxFaults

-----------------------------------------------------------------------------
(* Least and greatest numbers *)

\* A set of natural numbers has a least element.
LEMMA LeastNatural ==
    ASSUME NEW T \in SUBSET Nat, T # {}
    PROVE  \E x \in T : \A y \in T : x <= y
  <1> DEFINE R == {ss \in Nat \X Nat : ss[1] < ss[2]}
  <1>1. IsWellFoundedOn(R, Nat)
    BY NatLessThanWellFounded DEF OpToRel
  <1>2. PICK x \in T : \A y \in T : ~(<<y, x>> \in R)
    <2> HIDE DEF R
    <2> QED BY <1>1, WFMin
  <1>3. \A y \in T : ~(y < x)
    BY <1>2
  <1>4. QED BY <1>3

\* A finite set of natural numbers has a greatest element.
LEMMA GreatestNatural ==
    ASSUME NEW T \in SUBSET Nat, T # {}, IsFiniteSet(T)
    PROVE  \E x \in T : \A y \in T : y <= x
  <1> DEFINE Has(S) == \E x \in S : \A y \in S : y <= x
             Fails == {n \in Nat : \E S \in SUBSET Nat :
                          S # {} /\ IsFiniteSet(S) /\ Cardinality(S) = n /\ ~Has(S)}
  <1>1. SUFFICES ASSUME ~Has(T) PROVE FALSE
    OBVIOUS
  <1>2. Cardinality(T) \in Fails
    BY <1>1, FS_CardinalityType
  <1>3. PICK n \in Fails : \A m \in Fails : n <= m
    <2> HIDE DEF Fails
    <2>1. Fails \in SUBSET Nat
      BY DEF Fails
    <2> QED BY <1>2, <2>1, LeastNatural
  <1>4. PICK S \in SUBSET Nat : S # {} /\ IsFiniteSet(S) /\ Cardinality(S) = n /\ ~Has(S)
    BY <1>3
  <1>5. PICK z \in S : TRUE
    BY <1>4
  <1>6. PICK U : U = S \ {z}
    OBVIOUS
  <1>7. U \in SUBSET Nat /\ IsFiniteSet(U) /\ Cardinality(U) = n - 1
    BY <1>4, <1>5, <1>6, FS_RemoveElement
  <1>8. U # {}
    <2>1. SUFFICES ASSUME U = {} PROVE Has(S)
      BY <1>4
    <2>2. \A y \in S : y = z
      BY <1>6, <2>1
    <2>3. z <= z
      BY <1>5
    <2> QED BY <1>5, <2>2, <2>3
  <1>9. Cardinality(U) \in Nat
    BY <1>7, FS_CardinalityType
  <1>10. Has(U)
    <2>1. n - 1 \notin Fails
      BY <1>3
    <2> QED BY <2>1, <1>7, <1>8, <1>9
  <1>11. PICK u \in U : \A y \in U : y <= u
    BY <1>10
  <1>12. CASE u <= z
    BY <1>12, <1>4, <1>5, <1>6, <1>7, <1>11
  <1>13. CASE ~(u <= z)
    BY <1>13, <1>4, <1>5, <1>6, <1>7, <1>11
  <1> QED BY <1>12, <1>13
\* Max of a finite set of natural numbers
LEMMA MaxIs ==
    ASSUME NEW S \in SUBSET Nat, S # {}, IsFiniteSet(S)
    PROVE  Max(S) \in S /\ \A y \in S : y <= Max(S)
  <1>1. PICK x \in S : \A y \in S : x >= y
    BY GreatestNatural
  <1>2. Max(S) \in S /\ \A y \in S : Max(S) >= y
    BY <1>1 DEF Max
  <1> QED BY <1>2

\* Min of a set of natural numbers
LEMMA MinIs ==
    ASSUME NEW S \in SUBSET Nat, S # {}
    PROVE  Min(S) \in S /\ \A y \in S : Min(S) <= y
  <1>1. PICK x \in S : \A y \in S : x <= y
    BY LeastNatural
  <1> QED BY <1>1 DEF Min

\* Max and Min of two numbers
LEMMA MaxOfTwo ==
    ASSUME NEW a \in Nat, NEW b \in Nat
    PROVE  Max({a, b}) = IF a <= b THEN b ELSE a
  <1>1. {a, b} \in SUBSET Nat /\ {a, b} # {} /\ IsFiniteSet({a, b})
    <2>1. IsFiniteSet({a}) /\ {a, b} = {a} \cup {b}
      BY FS_Singleton
    <2>2. IsFiniteSet({a} \cup {b})
      BY <2>1, FS_AddElement
    <2> QED BY <2>1, <2>2
  <1>2. Max({a, b}) \in {a, b} /\ \A y \in {a, b} : y <= Max({a, b})
    BY <1>1, MaxIs
  <1> QED BY <1>2

\* The smaller of two numbers is one of them.
LEMMA MinOfTwo ==
    ASSUME NEW a \in Nat, NEW b \in Nat
    PROVE  Min({a, b}) = IF a <= b THEN a ELSE b
  <1>1. Min({a, b}) \in {a, b} /\ \A y \in {a, b} : Min({a, b}) <= y
    BY MinIs
  <1> QED BY <1>1

\* The values of a function on a finite set
LEMMA ValuesFinite ==
    ASSUME NEW S, IsFiniteSet(S), NEW f \in [S -> Nat]
    PROVE  {f[c] : c \in S} \in SUBSET Nat /\ IsFiniteSet({f[c] : c \in S})
  <1>1. f \in Surjection(S, {f[c] : c \in S})
    BY DEF Surjection
  <1> QED BY <1>1, FS_Surjection

\* No peer has more than Best blocks.
LEMMA BestIs ==
    Best \in Nat \ {0} /\ \A c \in Conns : PeerHead[c] \in 1..Best /\ PeerLib[c] \in 1..Best
  <1>1. PICK S : S = {PeerHead[c] : c \in Conns}
    OBVIOUS
  <1>2. S \in SUBSET Nat /\ IsFiniteSet(S) /\ S # {}
    <2>1. PeerHead \in [Conns -> Nat]
      BY PeerSyncAssumption
    <2> QED BY <1>1, <2>1, ValuesFinite, SyncManagerAssumption
  <1>3. Best \in S /\ \A y \in S : y <= Best
    BY <1>1, <1>2, MaxIs DEF Best
  <1> HIDE DEF Best
  <1> QED BY <1>1, <1>3, PeerSyncAssumption

\* The last irreversible block of a node
LEMMA LibIs ==
    ASSUME NEW h \in 1..Best
    PROVE  LibOf(h) \in 1..h
  <1>1. h \in Nat /\ h >= 1
    BY BestIs
  <1>2. CASE h - Lag \in Nat
    BY <1>1, <1>2, MaxOfTwo, SyncManagerAssumption DEF LibOf
  <1>3. CASE h - Lag \notin Nat
    <2>1. h - Lag \in Int /\ h - Lag < 1
      BY <1>1, <1>3, SyncManagerAssumption
    <2>2. PICK d \in Int : d = h - Lag
      BY <2>1
    <2>3. Max({1, d}) = 1
      BY <2>1, <2>2 DEF Max
    <2> QED BY <1>1, <2>2, <2>3 DEF LibOf
  <1> QED BY <1>2, <1>3

\* What may be known as irreversible
LEMMA TopLibIs ==
    ASSUME NEW h \in 1..Best
    PROVE  /\ TopLib(h) \in 1..Best /\ LibOf(h) \in 0..TopLib(h)
           /\ \A c \in Conns : PeerLib[c] \in 0..TopLib(h)
           /\ TopLib(h) = LibOf(h) \/ \E c \in Conns : TopLib(h) = PeerLib[c]
  <1>1. PICK P : P = {PeerLib[c] : c \in Conns}
    OBVIOUS
  <1>2. P \in SUBSET Nat /\ IsFiniteSet(P)
    <2>1. PeerLib \in [Conns -> Nat]
      BY PeerSyncAssumption
    <2> QED BY <1>1, <2>1, ValuesFinite, SyncManagerAssumption
  <1>3. PICK l : l = LibOf(h)
    OBVIOUS
  <1>4. l \in 1..h /\ h \in Nat /\ h <= Best /\ Best \in Nat
    BY <1>3, LibIs, BestIs
  <1>5. P \cup {l} \in SUBSET Nat /\ IsFiniteSet(P \cup {l}) /\ P \cup {l} # {}
    BY <1>2, <1>4, FS_AddElement
  <1>6. \A x \in P \cup {l} : x \in 1..Best
    BY <1>1, <1>4, BestIs
  <1>7. PICK t : t = TopLib(h)
    OBVIOUS
  <1>8. t \in P \cup {l} /\ \A y \in P \cup {l} : y <= t
    BY <1>1, <1>3, <1>5, <1>7, MaxIs DEF TopLib
  <1>9. t \in 1..Best /\ \A y \in P \cup {l} : y \in 0..t
    BY <1>4, <1>5, <1>6, <1>8
  <1> QED BY <1>1, <1>3, <1>7, <1>8, <1>9

\* It grows with the head.
LEMMA LibGrows ==
    ASSUME NEW h \in 1..Best, NEW k \in 1..Best, h <= k
    PROVE  LibOf(h) <= LibOf(k) /\ TopLib(h) <= TopLib(k)
  <1>1. LibOf(h) <= LibOf(k)
    <2>1. ASSUME NEW n \in 1..Best
          PROVE  LibOf(n) = IF n - Lag >= 1 THEN n - Lag ELSE 1
      <3>1. PICK d \in Int : d = n - Lag
        BY BestIs, SyncManagerAssumption
      <3>2. Max({1, d}) = IF d >= 1 THEN d ELSE 1
        BY DEF Max
      <3> QED BY <3>1, <3>2 DEF LibOf
    <2> QED BY <2>1, BestIs, SyncManagerAssumption
  <1>2. TopLib(h) <= TopLib(k)
    <2>1. LibOf(h) \in 1..h /\ LibOf(k) \in 1..k /\ TopLib(h) \in 1..Best /\ TopLib(k) \in 1..Best
      BY LibIs, TopLibIs
    <2>2. LibOf(k) <= TopLib(k) /\ \A c \in Conns : PeerLib[c] <= TopLib(k)
      BY <2>1, TopLibIs
    <2>3. TopLib(h) = LibOf(h) \/ \E c \in Conns : TopLib(h) = PeerLib[c]
      BY TopLibIs
    <2> HIDE DEF Best
    <2> QED BY <1>1, <2>1, <2>2, <2>3, BestIs
  <1> QED BY <1>1, <1>2

-----------------------------------------------------------------------------
(* The sync manager *)

\* Numbers that occur in the state
LEMMA NumIs ==
    ASSUME NEW h \in 1..Best
    PROVE  /\ 0..Best \subseteq Num /\ 0..h + 1 \subseteq Num /\ 0..TopLib(h) \subseteq 0..Best
           /\ h \in Nat /\ 1 \in 1..h + 1 /\ h + 1 \in 1..h + 1 /\ 0 \in Num
  <1>1. Best \in Nat /\ Span \in Nat /\ TopLib(h) \in 1..Best
    BY BestIs, TopLibIs, SyncManagerAssumption
  <1> HIDE DEF Best
  <1> QED BY <1>1 DEF Num

\* A change of one field
LEMMA SyncFields ==
    ASSUME NEW h, NEW E, NEW r \in Sync(h, E)
    PROVE  /\ \A x \in {"in_sync", "lib_catchup", "head_catchup"} :
                 [r EXCEPT !.st = x] \in Sync(h, E)
           /\ \A x \in 0..TopLib(h) : [r EXCEPT !.known = x] \in Sync(h, E)
           /\ \A x \in 0..Best : [r EXCEPT !.lastReq = x] \in Sync(h, E)
           /\ \A x \in E : [r EXCEPT !.nextExp = x] \in Sync(h, E)
           /\ \A x \in Conns \cup {0} : [r EXCEPT !.source = x] \in Sync(h, E)
           /\ \A x \in Conns \cup {0} : [r EXCEPT !.by = x] \in Sync(h, E)
           /\ \A x \in {"no", "continue", "close_continue", "crashed"} :
                 [r EXCEPT !.acting = x] \in Sync(h, E)
  <1> DEFINE T == 0..TopLib(h)
             B == 0..Best
             C == Conns \cup {0}
  <1>1. r \in [st : {"in_sync", "lib_catchup", "head_catchup"}, known : T, lastReq : B,
               nextExp : E, source : C, by : C,
               acting : {"no", "continue", "close_continue", "crashed"}]
    BY DEF Sync
  <1> HIDE DEF T, B, C
  <1>2. Sync(h, E) = [st : {"in_sync", "lib_catchup", "head_catchup"}, known : T, lastReq : B,
               nextExp : E, source : C, by : C,
               acting : {"no", "continue", "close_continue", "crashed"}]
    BY DEF Sync, T, B, C
  <1>3. /\ \A x \in {"in_sync", "lib_catchup", "head_catchup"} :
                 [r EXCEPT !.st = x] \in Sync(h, E)
        /\ \A x \in T : [r EXCEPT !.known = x] \in Sync(h, E)
        /\ \A x \in B : [r EXCEPT !.lastReq = x] \in Sync(h, E)
        /\ \A x \in E : [r EXCEPT !.nextExp = x] \in Sync(h, E)
        /\ \A x \in C : [r EXCEPT !.source = x] \in Sync(h, E)
        /\ \A x \in C : [r EXCEPT !.by = x] \in Sync(h, E)
        /\ \A x \in {"no", "continue", "close_continue", "crashed"} :
                 [r EXCEPT !.acting = x] \in Sync(h, E)
    BY <1>1, <1>2
  <1> QED BY <1>3 DEF T, B, C

\* The fields of a state
LEMMA SyncTypes ==
    ASSUME NEW h \in 1..Best, NEW E, Nexts(h, E), NEW r \in Sync(h, E)
    PROVE  /\ r.st \in {"in_sync", "lib_catchup", "head_catchup"}
           /\ r.known \in 0..TopLib(h) /\ r.known \in Nat /\ r.known <= Best
           /\ r.lastReq \in 0..Best /\ r.lastReq \in Nat
           /\ r.nextExp \in E /\ r.nextExp \in Nat /\ r.nextExp >= 1 /\ r.nextExp <= Best + 1
           /\ r.source \in Conns \cup {0} /\ r.by \in Conns \cup {0}
  <1>1. /\ r.st \in {"in_sync", "lib_catchup", "head_catchup"}
        /\ r.known \in 0..TopLib(h) /\ r.lastReq \in 0..Best /\ r.nextExp \in E
        /\ r.source \in Conns \cup {0} /\ r.by \in Conns \cup {0}
    BY DEF Sync
  <1>2. r.known \in 0..Best
    BY <1>1, NumIs
  <1>3. Best \in Nat /\ h \in Nat
    BY BestIs
  <1>4. r.nextExp \in 1..Best + 1
    BY <1>1 DEF Nexts
  <1> HIDE DEF Best
  <1> QED BY <1>1, <1>2, <1>3, <1>4

\* sync_reset_lib_num
LEMMA SyncResetLibNumOK ==
    ASSUME NEW h \in 1..Best, NEW E, Nexts(h, E), NEW r \in Sync(h, E), NEW lib \in 0..TopLib(h)
    PROVE  SyncResetLibNum(r, lib) \in Sync(h, E)
  <1>1. r.known \in Nat /\ r.known \in 0..TopLib(h) /\ lib \in Nat
    BY SyncTypes, TopLibIs
  <1>2. Max({r.known, lib}) \in 0..TopLib(h)
    BY <1>1, MaxOfTwo
  <1> QED BY <1>2, SyncFields DEF SyncResetLibNum

\* sync_update_expected, for a block after which the next one may be asked for
LEMMA SyncUpdateExpectedOK ==
    ASSUME NEW h \in 1..Best, NEW E, Nexts(h, E), NEW r \in Sync(h, E), NEW n, NEW applied,
           n = r.nextExp \/ applied => n + 1 \in E
    PROVE  SyncUpdateExpected(r, n, applied) \in Sync(h, E)
  BY SyncFields DEF SyncUpdateExpected

\* update_next_expected
LEMMA UpdateNextExpectedOK ==
    ASSUME NEW h \in 1..Best, NEW E, Nexts(h, E), NEW r \in Sync(h, E)
    PROVE  UpdateNextExpected(r, h) \in Sync(h, E)
  <1>1. PICK l : l = LibOf(h)
    OBVIOUS
  <1>2. l \in 1..h /\ h \in Nat /\ r.nextExp \in Nat /\ r.nextExp \in E
    BY <1>1, LibIs, NumIs, SyncTypes
  <1>3. l + 1 \in Nat /\ l + 1 \in E
    BY <1>2 DEF Nexts
  <1>4. Max({l + 1, r.nextExp}) \in E
    BY <1>2, <1>3, MaxOfTwo
  <1> QED BY <1>1, <1>4, SyncFields DEF UpdateNextExpected

\* set_highest_lib
LEMMA SetHighestLibOK ==
    ASSUME NEW h \in 1..Best, NEW E, Nexts(h, E), NEW r \in Sync(h, E), NEW cn, ConsOK(cn, h)
    PROVE  SetHighestLib(r, cn) \in Sync(h, E)
  <1>1. PICK D : D = {d \in Conns : Current(cn, d)}
    OBVIOUS
  <1>2. PICK L : L = {cn[c].lib : c \in D}
    OBVIOUS
  <1>3. \A c \in Conns : cn[c].lib \in 0..TopLib(h)
    BY TopLibIs DEF ConsOK, Conn
  <1>4. \A x \in L : x \in 0..TopLib(h)
    BY <1>1, <1>2, <1>3
  <1>5. PICK t : t = TopLib(h)
    OBVIOUS
  <1>6. t \in Nat
    BY <1>5, TopLibIs
  <1>7. {0} \cup L \in SUBSET Nat /\ \A x \in {0} \cup L : x <= t
    BY <1>4, <1>5, <1>6
  <1>8. IsFiniteSet({0} \cup L)
    BY <1>6, <1>7, FS_BoundedSetOfNaturals
  <1>9. Max({0} \cup L) \in {0} \cup L
    BY <1>7, <1>8, MaxIs
  <1>10. Max({0} \cup L) \in 0..TopLib(h)
    BY <1>4, <1>5, <1>6, <1>9
  <1> QED BY <1>1, <1>2, <1>10, SyncFields DEF SetHighestLib

\* closing_sync_source
LEMMA ClosingSyncSourceOK ==
    ASSUME NEW h \in 1..Best, NEW E, Nexts(h, E), NEW r \in Sync(h, E)
    PROVE  ClosingSyncSource(r, h) \in Sync(h, E)
  <1>1. PICK m : m = [r EXCEPT !.nextExp = h + 1]
    OBVIOUS
  <1>2. m \in Sync(h, E)
    <2>1. h + 1 \in E
      BY NumIs DEF Nexts
    <2> QED BY <1>1, <2>1, SyncFields
  <1>3. 0 \in 0..Best
    BY BestIs
  <1>4. [m EXCEPT !.lastReq = 0] \in Sync(h, E)
    BY <1>2, <1>3, SyncFields
  <1> QED BY <1>1, <1>4 DEF ClosingSyncSource

\* The next source is a connection, or there was none.
LEMMA NextSourceIs ==
    ASSUME NEW h \in 1..Best, NEW E, Nexts(h, E), NEW r \in Sync(h, E), NEW cn
    PROVE  NextSource(r, cn) \in Conns \cup {0}
  <1>1. ASSUME NEW S \in SUBSET Conns, S # {} PROVE Min(S) \in Conns
    BY <1>1, MinIs, SyncManagerAssumption
  <1>2. r.source \in Conns \cup {0}
    BY SyncTypes
  <1>3. PICK able : able = {c \in Conns : Current(cn, c) /\ cn[c].lib >= r.known}
    OBVIOUS
  <1>4. PICK after : after = {c \in able : c > r.source}
    OBVIOUS
  <1>5. NextSource(r, cn) =
           IF Cardinality(Conns) = 1 THEN (IF r.source = 0 THEN Min(Conns) ELSE r.source)
           ELSE IF after # {} THEN Min(after)
           ELSE IF able # {} THEN Min(able) ELSE r.source
    BY <1>3, <1>4 DEF NextSource
  <1>6. able \in SUBSET Conns /\ after \in SUBSET Conns
    BY <1>3, <1>4
  <1> QED BY <1>1, <1>2, <1>5, <1>6, SyncManagerAssumption

\* set_new_sync_source
LEMMA SetNewSyncSourceOK ==
    ASSUME NEW h \in 1..Best, NEW E, Nexts(h, E), NEW r \in Sync(h, E), NEW cn, NEW hint \in Conns \cup {0}
    PROVE  SetNewSyncSource(r, h, cn, hint).s \in Sync(h, E)
  <1>1. PICK new : new = IF hint # 0 /\ Current(cn, hint) THEN hint ELSE NextSource(r, cn)
    OBVIOUS
  <1>2. new \in Conns \cup {0}
    BY <1>1, NextSourceIs
  <1>3. [r EXCEPT !.source = new] \in Sync(h, E)
    BY <1>2, SyncFields
  <1>4. [r EXCEPT !.source = 0, !.known = LibOf(h), !.lastReq = 0] \in Sync(h, E)
    <2>1. PICK l : l = LibOf(h)
      OBVIOUS
    <2>2. PICK m : m = [r EXCEPT !.source = 0]
      OBVIOUS
    <2>3. PICK k : k = [m EXCEPT !.known = l]
      OBVIOUS
    <2>4. l \in 0..TopLib(h) /\ 0 \in 0..Best
      BY <2>1, TopLibIs, BestIs
    <2>5. k \in Sync(h, E)
      BY <2>2, <2>3, <2>4, SyncFields
    <2>6. [k EXCEPT !.lastReq = 0] \in Sync(h, E)
      BY <2>4, <2>5, SyncFields
    <2> QED BY <2>1, <2>2, <2>3, <2>6
  <1> QED BY <1>1, <1>3, <1>4 DEF SetNewSyncSource

\* continue_sync asks for blocks of the best peer.
LEMMA SyncRangeIs ==
    ASSUME NEW h \in 1..Best, NEW E, Nexts(h, E), NEW r \in Sync(h, E), NEW x \in SyncRange(r)
    PROVE  x[1] \in 1..Best /\ x[2] \in 1..Best /\ x[1] <= x[2]
  <1>1. r.nextExp \in Nat /\ r.nextExp >= 1 /\ r.known \in Nat /\ r.known <= Best /\ Best \in Nat
    BY SyncTypes, BestIs
  <1>2. PICK end : end = Min({r.nextExp + Span - 1, r.known})
    OBVIOUS
  <1>3. end \in Nat /\ end <= r.known
    <2>1. r.nextExp + Span - 1 \in Nat
      BY <1>1, SyncManagerAssumption
    <2> QED BY <1>1, <1>2, <2>1, MinOfTwo
  <1>4. x = <<r.nextExp, end>> /\ end >= r.nextExp
    BY <1>2 DEF SyncRange
  <1> HIDE DEF Best
  <1> QED BY <1>1, <1>3, <1>4

-----------------------------------------------------------------------------
(* The state machine *)

\* Every transition ends in one of these forms.
LEMMA OutcomesOK ==
    ASSUME NEW h \in 1..Best, NEW E, Nexts(h, E), NEW r \in Sync(h, E)
    PROVE  /\ Passed(r).s \in Sync(h, E) /\ NotPassed(r).s \in Sync(h, E)
           /\ InSync(r).s \in Sync(h, E) /\ InSyncGreeting(r).s \in Sync(h, E)
           /\ \A act \in {"continue", "close_continue"} : Acting(r, act).s \in Sync(h, E)
  <1>1. PICK m : m = [r EXCEPT !.st = "in_sync", !.source = 0]
    OBVIOUS
  <1>2. m \in Sync(h, E)
    <2>1. PICK k : k = [r EXCEPT !.st = "in_sync"]
      OBVIOUS
    <2>2. k \in Sync(h, E)
      BY <2>1, SyncFields
    <2>3. [k EXCEPT !.source = 0] \in Sync(h, E)
      BY <2>2, SyncFields
    <2> QED BY <1>1, <2>1, <2>3
  <1>3. InSync(r).s = m /\ InSyncGreeting(r).s = m
    <2>1. InSync(r) = [s |-> m, passed |-> TRUE, greet |-> FALSE]
      BY <1>1 DEF InSync, Passed
    <2> QED BY <2>1 DEF InSyncGreeting
  <1>4. ASSUME NEW act \in {"continue", "close_continue"} PROVE Acting(r, act).s \in Sync(h, E)
    <2>1. PICK k : k = [r EXCEPT !.st = "lib_catchup"]
      OBVIOUS
    <2>2. k \in Sync(h, E)
      BY <2>1, SyncFields
    <2>3. [k EXCEPT !.acting = act] \in Sync(h, E)
      BY <2>2, SyncFields
    <2>4. [r EXCEPT !.st = "lib_catchup", !.acting = act] \in Sync(h, E)
      BY <2>1, <2>3
    <2> QED BY <2>4 DEF Acting, Passed
  <1> QED BY <1>2, <1>3, <1>4 DEF Passed, NotPassed

\* The event lib_catchup
LEMMA LibCatchupOK ==
    ASSUME NEW h \in 1..Best, NEW E, Nexts(h, E), NEW r \in Sync(h, E), NEW cn, NEW target \in 0..TopLib(h),
           NEW hint \in Conns \cup {0}
    PROVE  LibCatchup(r, h, cn, target, hint).s \in Sync(h, E)
  <1>1. PICK r1 : r1 = SyncResetLibNum(r, target)
    OBVIOUS
  <1>2. PICK r2 : r2 = UpdateNextExpected(r1, h)
    OBVIOUS
  <1>3. PICK new : new = SetNewSyncSource(r2, h, cn, hint)
    OBVIOUS
  <1>4. r1 \in Sync(h, E)
    BY <1>1, SyncResetLibNumOK
  <1>5. r2 \in Sync(h, E)
    BY <1>2, <1>4, UpdateNextExpectedOK
  <1>6. new.s \in Sync(h, E)
    BY <1>3, <1>5, SetNewSyncSourceOK
  <1>7. LibCatchup(r, h, cn, target, hint) =
           CASE r.st = "head_catchup" -> NotPassed(r)
             [] r.st = "in_sync" ->
                  IF ~IsSyncRequired(r1, h, target) THEN NotPassed(r1)
                  ELSE IF new.ok THEN Acting(new.s, "continue") ELSE NotPassed(new.s)
             [] r.st = "lib_catchup" ->
                  IF ~IsSyncRequired(r1, h, target) THEN InSync(r1)
                  ELSE IF SyncInProgress(r2, h, cn) THEN Passed(r2)
                  ELSE IF new.ok THEN Acting(new.s, "continue") ELSE InSync(new.s)
    BY <1>1, <1>2, <1>3 DEF LibCatchup
  <1>8. r.st \in {"in_sync", "lib_catchup", "head_catchup"}
    BY SyncTypes
  <1> QED BY <1>4, <1>5, <1>6, <1>7, <1>8, OutcomesOK

\* The event head_catchup
LEMMA HeadCatchupOK ==
    ASSUME NEW h \in 1..Best, NEW E, Nexts(h, E), NEW r \in Sync(h, E)
    PROVE  HeadCatchup(r).s \in Sync(h, E)
  <1>1. PICK m : m = [r EXCEPT !.st = "head_catchup"]
    OBVIOUS
  <1>2. m \in Sync(h, E)
    BY <1>1, SyncFields
  <1>3. r.st \in {"in_sync", "lib_catchup", "head_catchup"}
    BY SyncTypes
  <1> QED BY <1>1, <1>2, <1>3, OutcomesOK DEF HeadCatchup

\* The event recv_block, for a block after which the next one may be asked for
LEMMA RecvBlockOK ==
    ASSUME NEW h \in 1..Best, NEW E, Nexts(h, E), NEW r \in Sync(h, E), NEW cn, NEW n, NEW applied,
           n = r.nextExp \/ applied => n + 1 \in E
    PROVE  RecvBlock(r, h, cn, n, applied).s \in Sync(h, E)
  <1>1. PICK r1 : r1 = SyncUpdateExpected(r, n, applied)
    OBVIOUS
  <1>2. PICK new : new = SetNewSyncSource(r1, h, cn, 0)
    OBVIOUS
  <1>3. r1 \in Sync(h, E)
    BY <1>1, SyncUpdateExpectedOK
  <1>4. new.s \in Sync(h, E)
    BY <1>2, <1>3, SetNewSyncSourceOK
  <1>5. RecvBlock(r, h, cn, n, applied) =
           CASE r.st = "in_sync"      -> InSync(r1)
             [] r.st = "lib_catchup"  ->
                  IF n >= r1.known THEN InSyncGreeting(r1)
                  ELSE IF n < r1.lastReq THEN NotPassed(r1)
                  ELSE IF new.ok THEN Acting(new.s, "continue") ELSE InSync(new.s)
             [] r.st = "head_catchup" ->
                  IF ContinueHeadCatchup(cn, n) THEN NotPassed(r1) ELSE InSyncGreeting(r1)
    BY <1>1, <1>2 DEF RecvBlock
  <1>6. r.st \in {"in_sync", "lib_catchup", "head_catchup"}
    BY SyncTypes
  <1> QED BY <1>3, <1>4, <1>5, <1>6, OutcomesOK

\* The event close_connection
LEMMA CloseConnectionOK ==
    ASSUME NEW h \in 1..Best, NEW E, Nexts(h, E), NEW r \in Sync(h, E), NEW cn, ConsOK(cn, h), NEW c \in Conns
    PROVE  CloseConnection(r, h, cn, c).s \in Sync(h, E)
  <1>1. PICK r1 : r1 = SetHighestLib(r, cn)
    OBVIOUS
  <1>2. PICK new : new = SetNewSyncSource(r1, h, cn, 0)
    OBVIOUS
  <1>3. r1 \in Sync(h, E)
    BY <1>1, SetHighestLibOK
  <1>4. new.s \in Sync(h, E)
    BY <1>2, <1>3, SetNewSyncSourceOK
  <1>5. CloseConnection(r, h, cn, c) =
           CASE r.st # "lib_catchup" -> InSync(r1)
             [] r.st = "lib_catchup" /\ r.source # c -> NotPassed(r1)
             [] r.st = "lib_catchup" /\ r.source = c ->
                  IF new.ok THEN Acting(new.s, "close_continue") ELSE NotPassed(new.s)
    BY <1>1, <1>2 DEF CloseConnection
  <1> QED BY <1>3, <1>4, <1>5, OutcomesOK

\* The event reassign_fetch
LEMMA ReassignFetchOK ==
    ASSUME NEW h \in 1..Best, NEW E, Nexts(h, E), NEW r \in Sync(h, E), NEW cn, NEW c \in Conns
    PROVE  ReassignFetch(r, h, cn, c).s \in Sync(h, E)
  <1>1. PICK r1 : r1 = [r EXCEPT !.lastReq = 0]
    OBVIOUS
  <1>2. PICK new : new = SetNewSyncSource(r1, h, cn, 0)
    OBVIOUS
  <1>3. r1 \in Sync(h, E)
    <2>1. 0 \in 0..Best
      BY BestIs
    <2> QED BY <1>1, <2>1, SyncFields
  <1>4. new.s \in Sync(h, E)
    BY <1>2, <1>3, SetNewSyncSourceOK
  <1>5. ReassignFetch(r, h, cn, c) =
           CASE r.st = "in_sync"      -> InSync(r1)
             [] r.st = "head_catchup" -> Passed(r1)
             [] r.st = "lib_catchup" /\ r.source # c -> NotPassed(r1)
             [] r.st = "lib_catchup" /\ r.source = c ->
                  IF new.ok THEN Acting(new.s, "continue") ELSE NotPassed(new.s)
    BY <1>1, <1>2 DEF ReassignFetch
  <1>6. r.st \in {"in_sync", "lib_catchup", "head_catchup"}
    BY SyncTypes
  <1> QED BY <1>3, <1>4, <1>5, <1>6, OutcomesOK

-----------------------------------------------------------------------------
(* The connections *)

\* A change of one field
LEMMA ConnFields ==
    ASSUME NEW c, NEW h, NEW x \in Conn(c, h)
    PROVE  /\ \A v \in {"closed", "connecting", "up"} : [x EXCEPT !.status = v] \in Conn(c, h)
           /\ \A v \in {0, PeerLib[c]} : [x EXCEPT !.lib = v] \in Conn(c, h)
           /\ \A v \in Num : [x EXCEPT !.sentLib = v] \in Conn(c, h)
           /\ \A v \in Num : [x EXCEPT !.forkHead = v] \in Conn(c, h)
           /\ \A v \in BOOLEAN : [x EXCEPT !.timer = v] \in Conn(c, h)
           /\ \A v \in Seq(Tasks(h)) : [x EXCEPT !.tasks = v] \in Conn(c, h)
           /\ \A v \in Seq(Messages) : [x EXCEPT !.inbox = v] \in Conn(c, h)
           /\ \A v \in BOOLEAN : [x EXCEPT !.greeted = v] \in Conn(c, h)
           /\ \A v \in SUBSET Asked : [x EXCEPT !.asked = v] \in Conn(c, h)
  <1> DEFINE T == Seq(Tasks(h))
             M == Seq(Messages)
             A == SUBSET Asked
             L == {0, PeerLib[c]}
             S == {"closed", "connecting", "up"}
  <1> HIDE DEF T, M, A, L, S
  <1>1. Conn(c, h) = [status : S, lib : L, sentLib : Num, forkHead : Num, timer : BOOLEAN,
                      tasks : T, inbox : M, greeted : BOOLEAN, asked : A]
    BY DEF Conn, T, M, A, L, S
  <1>2. x \in [status : S, lib : L, sentLib : Num, forkHead : Num, timer : BOOLEAN,
               tasks : T, inbox : M, greeted : BOOLEAN, asked : A]
    BY <1>1
  <1>3. /\ \A v \in S : [x EXCEPT !.status = v] \in Conn(c, h)
        /\ \A v \in L : [x EXCEPT !.lib = v] \in Conn(c, h)
        /\ \A v \in Num : [x EXCEPT !.sentLib = v] \in Conn(c, h)
        /\ \A v \in Num : [x EXCEPT !.forkHead = v] \in Conn(c, h)
        /\ \A v \in BOOLEAN : [x EXCEPT !.timer = v] \in Conn(c, h)
        /\ \A v \in T : [x EXCEPT !.tasks = v] \in Conn(c, h)
        /\ \A v \in M : [x EXCEPT !.inbox = v] \in Conn(c, h)
        /\ \A v \in BOOLEAN : [x EXCEPT !.greeted = v] \in Conn(c, h)
        /\ \A v \in A : [x EXCEPT !.asked = v] \in Conn(c, h)
    BY <1>1, <1>2
  <1> QED BY <1>3 DEF T, M, A, L, S

\* The fields of a connection
LEMMA ConnTypes ==
    ASSUME NEW h, NEW cn, ConsOK(cn, h), NEW c \in Conns
    PROVE  /\ cn[c] \in Conn(c, h) /\ cn[c].status \in {"closed", "connecting", "up"}
           /\ cn[c].lib \in {0, PeerLib[c]} /\ cn[c].sentLib \in Num /\ cn[c].forkHead \in Num
           /\ cn[c].timer \in BOOLEAN /\ cn[c].tasks \in Seq(Tasks(h))
           /\ cn[c].inbox \in Seq(Messages)
           /\ cn[c].greeted \in BOOLEAN /\ cn[c].asked \in SUBSET Asked
  BY DEF ConsOK, Conn

\* One connection changes.
LEMMA ConsChange ==
    ASSUME NEW h, NEW cn, ConsOK(cn, h), NEW c \in Conns, NEW x \in Conn(c, h)
    PROVE  /\ ConsOK([cn EXCEPT ![c] = x], h) /\ [cn EXCEPT ![c] = x][c] = x
  BY DEF ConsOK

\* A field of one connection changes.
LEMMA ConsFields ==
    ASSUME NEW h, NEW cn, ConsOK(cn, h), NEW c \in Conns
    PROVE  /\ \A v \in {"closed", "connecting", "up"} : ConsOK([cn EXCEPT ![c].status = v], h)
           /\ \A v \in {0, PeerLib[c]} : ConsOK([cn EXCEPT ![c].lib = v], h)
           /\ \A v \in Num : ConsOK([cn EXCEPT ![c].sentLib = v], h)
           /\ \A v \in Num : ConsOK([cn EXCEPT ![c].forkHead = v], h)
           /\ \A v \in BOOLEAN : ConsOK([cn EXCEPT ![c].timer = v], h)
           /\ \A v \in Seq(Tasks(h)) : ConsOK([cn EXCEPT ![c].tasks = v], h)
           /\ \A v \in Seq(Messages) : ConsOK([cn EXCEPT ![c].inbox = v], h)
           /\ \A v \in BOOLEAN : ConsOK([cn EXCEPT ![c].greeted = v], h)
           /\ \A v \in SUBSET Asked : ConsOK([cn EXCEPT ![c].asked = v], h)
  <1>1. cn[c] \in Conn(c, h)
    BY DEF ConsOK
  <1> QED BY <1>1, ConnFields, ConsChange

\* A task is posted.
LEMMA PostedOK ==
    ASSUME NEW h, NEW cn, ConsOK(cn, h), NEW c \in Conns, NEW t \in Tasks(h)
    PROVE  ConsOK(Posted(cn, c, t), h)
  <1>1. PICK q : q = Append(cn[c].tasks, t)
    OBVIOUS
  <1>2. q \in Seq(Tasks(h))
    BY <1>1, ConnTypes, AppendProperties
  <1>3. ConsOK([cn EXCEPT ![c].tasks = q], h)
    BY <1>2, ConsFields
  <1> QED BY <1>1, <1>3 DEF Posted

\* The tasks that carry no number
LEMMA PlainTasks ==
    ASSUME NEW h \in 1..Best
    PROVE  Handshake \in Tasks(h) /\ Close \in Tasks(h)
  <1>1. 0 \in Num
    BY NumIs
  <1> QED BY <1>1 DEF Handshake, Close, Task, Tasks

\* The messages that carry no number
LEMMA PlainMessages ==
    ASSUME NEW type \in {"handshake", "lib", "catch_up", "go_away"}
    PROVE  Message(type, 0) \in Messages
  <1>1. 0 \in Num
    BY BestIs, SyncManagerAssumption DEF Num
  <1> QED BY <1>1 DEF Message, Messages

\* send_handshakes
LEMMA SendHandshakesOK ==
    ASSUME NEW h \in 1..Best, NEW cn, ConsOK(cn, h)
    PROVE  ConsOK(SendHandshakes(cn), h)
  <1>1. PICK new : new = SendHandshakes(cn)
    OBVIOUS
  <1>2. ASSUME NEW c \in Conns PROVE new[c] \in Conn(c, h)
    <2>1. PICK x : x = Posted(cn, c, Handshake)
      OBVIOUS
    <2>2. ConsOK(x, h)
      BY <2>1, PlainTasks, PostedOK
    <2>3. new[c] = IF Current(cn, c) THEN x[c] ELSE cn[c]
      BY <1>1, <2>1 DEF SendHandshakes
    <2> QED BY <2>2, <2>3 DEF ConsOK
  <1>3. new = [c \in Conns |-> new[c]]
    BY <1>1 DEF SendHandshakes
  <1> QED BY <1>1, <1>2, <1>3 DEF ConsOK

\* A message that was on its way already is not there twice.
LEMMA FreshOK ==
    ASSUME NEW cn, NEW c, NEW ms \in Seq(Messages)
    PROVE  Fresh(cn, c, ms) \in Seq(Messages)
  BY EmptySeq DEF Fresh

\* send_handshake
LEMMA HandshakeSentOK ==
    ASSUME head \in 1..Best, NEW cn, ConsOK(cn, head), NEW c \in Conns
    PROVE  ConsOK(HandshakeSent(cn, c), head)
  <1>1. CASE cn[c].status = "closed"
    BY <1>1, PlainTasks, PostedOK DEF HandshakeSent
  <1>2. CASE cn[c].status # "closed"
    <2>1. PICK l : l = Lib
      OBVIOUS
    <2>2. PICK first : first = IF cn[c].greeted THEN <<>> ELSE <<Message("handshake", 0)>>
      OBVIOUS
    <2>3. PICK q : q = cn[c].inbox \o (Fresh(cn, c, first) \o Fresh(cn, c, Answer(c)))
      OBVIOUS
    <2>4. l \in Num
      BY <2>1, LibIs, NumIs DEF Lib
    <2>5. \A m \in Messages : <<m>> \in Seq(Messages)
      OBVIOUS
    <2>6. first \in Seq(Messages) /\ Answer(c) \in Seq(Messages)
      BY <2>2, <2>5, PlainMessages, EmptySeq DEF Answer
    <2>7. q \in Seq(Messages)
      <3>1. PICK u : u = Fresh(cn, c, first)
        OBVIOUS
      <3>2. PICK w : w = Fresh(cn, c, Answer(c))
        OBVIOUS
      <3>3. u \in Seq(Messages) /\ w \in Seq(Messages) /\ cn[c].inbox \in Seq(Messages)
        BY <3>1, <3>2, <2>6, FreshOK, ConnTypes
      <3> QED BY <2>3, <3>1, <3>2, <3>3, ConcatProperties
    <2>8. PICK a : a = [cn EXCEPT ![c].sentLib = l]
      OBVIOUS
    <2>9. PICK b : b = [a EXCEPT ![c].greeted = TRUE]
      OBVIOUS
    <2>10. ConsOK(a, head)
      BY <2>4, <2>8, ConsFields
    <2>11. ConsOK(b, head)
      BY <2>9, <2>10, ConsFields
    <2>12. ConsOK([b EXCEPT ![c].inbox = q], head)
      BY <2>7, <2>11, ConsFields
    <2>13. b[c].inbox = cn[c].inbox
      <3>1. a[c] = [cn[c] EXCEPT !.sentLib = l]
        BY <2>8 DEF ConsOK
      <3>2. b[c] = [a[c] EXCEPT !.greeted = TRUE]
        BY <2>9, <2>10 DEF ConsOK
      <3>3. cn[c] \in Conn(c, head) /\ a[c] \in Conn(c, head)
        BY <2>10 DEF ConsOK
      <3>4. a[c].inbox = cn[c].inbox
        BY <3>1, <3>3 DEF Conn
      <3>5. b[c].inbox = a[c].inbox
        BY <3>2, <3>3 DEF Conn
      <3> QED BY <3>4, <3>5
    <2>14. HandshakeSent(cn, c) = [b EXCEPT ![c].inbox = q]
      <3>1. HandshakeSent(cn, c) =
              [cn EXCEPT ![c].sentLib = l, ![c].greeted = TRUE,
                         ![c].inbox = @ \o (Fresh(cn, c, first) \o Fresh(cn, c, Answer(c)))]
        BY <1>2, <2>1, <2>2 DEF HandshakeSent
      <3> QED BY <3>1, <2>3, <2>8, <2>9, <2>13
    <2> QED BY <2>12, <2>14
  <1> QED BY <1>1, <1>2

\* What a peer can be asked for
LEMMA AskedIs ==
    /\ \A a \in Asked : a[1] \in Nat /\ a[2] \in Nat /\ a[1] < a[2] /\ a[2] <= Best
    /\ \A x \in 0..Best : \A y \in 0..Best : x < y => <<x, y>> \in Asked
  <1>1. Best \in Nat /\ 0..Best \subseteq Num /\ Num \subseteq Nat
    <2>1. Best \in Nat /\ Span \in Nat
      BY BestIs, SyncManagerAssumption
    <2> HIDE DEF Best
    <2> QED BY <2>1 DEF Num
  <1> HIDE DEF Best, Num
  <1>2. ASSUME NEW a \in Asked PROVE a[1] \in Nat /\ a[2] \in Nat /\ a[1] < a[2] /\ a[2] <= Best
    BY <1>1 DEF Asked
  <1>3. ASSUME NEW x \in 0..Best, NEW y \in 0..Best, x < y
        PROVE  <<x, y>> \in Asked
    BY <1>1, <1>3 DEF Asked
  <1> QED BY <1>2, <1>3

\* sync_request_message
LEMMA RequestSentOK ==
    ASSUME NEW h \in 1..Best, NEW cn, ConsOK(cn, h), NEW c \in Conns,
           NEW from \in 1..Best, NEW to \in 1..Best, from <= to
    PROVE  ConsOK(RequestSent(cn, c, from, to), h)
  <1>1. CASE cn[c].status = "closed"
    BY <1>1, PlainTasks, PostedOK DEF RequestSent
  <1>2. CASE cn[c].status # "closed"
    <2>1. PICK A : A = cn[c].asked
      OBVIOUS
    <2>2. A \in SUBSET Asked
      BY <2>1, ConnTypes
    <2>3. PICK new : new = IF A = {} THEN {<<from - 1, to>>}
                           ELSE {<<a[1], Max({a[2], to})>> : a \in A}
      OBVIOUS
    <2>4. Best \in Nat
      BY BestIs
    <2>5. ASSUME NEW a \in A PROVE <<a[1], Max({a[2], to})>> \in Asked
      <3>1. a[1] \in Nat /\ a[2] \in Nat /\ a[1] < a[2] /\ a[2] <= Best
        BY <2>2, <2>5, AskedIs
      <3>2. PICK m : m = Max({a[2], to})
        OBVIOUS
      <3>3. m = IF a[2] <= to THEN to ELSE a[2]
        BY <2>4, <3>1, <3>2, MaxOfTwo
      <3>4. a[1] \in 0..Best /\ m \in 0..Best /\ a[1] < m
        <4> HIDE DEF Best
        <4> QED BY <2>4, <3>1, <3>3
      <3> QED BY <3>2, <3>4, AskedIs
    <2>6. <<from - 1, to>> \in Asked
      <3>1. from - 1 \in 0..Best /\ to \in 0..Best /\ from - 1 < to
        <4> HIDE DEF Best
        <4> QED BY <2>4
      <3> QED BY <3>1, AskedIs
    <2>7. new \in SUBSET Asked
      BY <2>3, <2>5, <2>6
    <2>8. ConsOK([cn EXCEPT ![c].asked = new], h)
      BY <2>7, ConsFields
    <2> QED BY <1>2, <2>1, <2>3, <2>8 DEF RequestSent
  <1> QED BY <1>1, <1>2

\* sync_request_message{0, 0}
LEMMA CancelSentOK ==
    ASSUME NEW h \in 1..Best, NEW cn, ConsOK(cn, h), NEW c \in Conns
    PROVE  ConsOK(CancelSent(cn, c), h)
  <1>1. {} \in SUBSET Asked
    OBVIOUS
  <1> QED BY <1>1, PlainTasks, PostedOK, ConsFields DEF CancelSent

\* request_message catch_up
LEMMA CatchUpSentOK ==
    ASSUME NEW k \in 1..Best, NEW cn, ConsOK(cn, k), NEW c \in Conns, NEW h \in 1..Best
    PROVE  ConsOK(CatchUpSent(cn, c, h), k)
  <1>1. CASE h > PeerHead[c]
    <2>1. PICK q : q = Append(cn[c].inbox, Message("go_away", 0))
      OBVIOUS
    <2>2. q \in Seq(Messages)
      BY <2>1, ConnTypes, PlainMessages, AppendProperties
    <2> QED BY <1>1, <2>1, <2>2, ConsFields DEF CatchUpSent
  <1>2. CASE ~(h > PeerHead[c])
    <2>1. PICK A : A = cn[c].asked
      OBVIOUS
    <2>2. PICK E : E = {PeerHead[c]} \cup {a[2] : a \in A}
      OBVIOUS
    <2>3. Best \in Nat /\ PeerHead[c] \in 1..Best
      BY BestIs
    <2>4. \A x \in E : x \in Nat /\ x <= Best
      <3>1. \A a \in A : a[2] \in Nat /\ a[2] <= Best
        BY <2>1, ConnTypes, AskedIs
      <3> QED BY <2>2, <2>3, <3>1
    <2>5. PICK m : m = Max(E)
      OBVIOUS
    <2>6. m \in 0..Best
      <3>1. E \in SUBSET Nat /\ E # {}
        BY <2>2, <2>4
      <3>2. IsFiniteSet(E)
        BY <2>3, <2>4, <3>1, FS_BoundedSetOfNaturals
      <3>3. m \in E
        BY <2>5, <3>1, <3>2, MaxIs
      <3> HIDE DEF Best
      <3> QED BY <2>3, <2>4, <3>3
    <2>7. PICK new : new = IF h < m THEN {<<h, m>>} ELSE {}
      OBVIOUS
    <2>8. new \in SUBSET Asked
      <3>1. h \in 0..Best
        BY <2>3
      <3> QED BY <2>6, <2>7, <3>1, AskedIs
    <2>9. ConsOK([cn EXCEPT ![c].asked = new], k)
      BY <2>8, ConsFields
    <2> QED BY <1>2, <2>1, <2>2, <2>5, <2>7, <2>9 DEF CatchUpSent
  <1> QED BY <1>1, <1>2

\* A connection that is closed keeps fork_head and the tasks of its strand.
LEMMA ClosedConOK ==
    ASSUME NEW h \in 1..Best, NEW cn, ConsOK(cn, h), NEW c \in Conns
    PROVE  ConsOK(ClosedCon(cn, c), h)
  <1>1. PICK x : x = [Closed EXCEPT !.tasks = cn[c].tasks, !.forkHead = cn[c].forkHead]
    OBVIOUS
  <1>2. Closed \in Conn(c, h)
    <2>1. 0 \in Num /\ <<>> \in Seq(Tasks(h)) /\ <<>> \in Seq(Messages)
      BY NumIs, EmptySeq
    <2> QED BY <2>1 DEF Closed, Conn
  <1>3. PICK y : y = [Closed EXCEPT !.tasks = cn[c].tasks]
    OBVIOUS
  <1>4. y \in Conn(c, h)
    BY <1>2, <1>3, ConnTypes, ConnFields
  <1>5. [y EXCEPT !.forkHead = cn[c].forkHead] \in Conn(c, h)
    BY <1>4, ConnTypes, ConnFields
  <1>6. x \in Conn(c, h)
    BY <1>1, <1>3, <1>5
  <1>7. ConsOK([cn EXCEPT ![c] = x], h)
    BY <1>6, ConsChange
  <1> QED BY <1>1, <1>7 DEF ClosedCon

\* reset_fork_heads
LEMMA RecvBlockForkHeadsOK ==
    ASSUME NEW h \in 1..Best, NEW cn, ConsOK(cn, h), NEW r, NEW n
    PROVE  ConsOK(RecvBlockForkHeads(r, cn, n), h)
  <1>1. PICK new : new = ResetForkHeads(cn, n)
    OBVIOUS
  <1>2. ASSUME NEW c \in Conns PROVE new[c] \in Conn(c, h)
    <2>1. new[c] = IF cn[c].forkHead <= n THEN [cn[c] EXCEPT !.forkHead = 0] ELSE cn[c]
      BY <1>1 DEF ResetForkHeads
    <2>2. cn[c] \in Conn(c, h) /\ 0 \in Num
      BY NumIs, ConnTypes
    <2>3. [cn[c] EXCEPT !.forkHead = 0] \in Conn(c, h)
      BY <2>2, ConnFields
    <2> QED BY <2>1, <2>2, <2>3
  <1>3. new = [c \in Conns |-> new[c]]
    BY <1>1 DEF ResetForkHeads
  <1> QED BY <1>1, <1>2, <1>3 DEF ConsOK, RecvBlockForkHeads

\* The first task of a strand is taken off.
LEMMA TaskDoneOK ==
    ASSUME NEW h \in 1..Best, ConsOK(con, h), NEW c \in Conns, con[c].tasks # <<>>
    PROVE  ConsOK(TaskDone(c), h) /\ con[c].tasks[1] \in Tasks(h)
  <1>1. con[c].tasks \in Seq(Tasks(h))
    BY ConnTypes
  <1>2. PICK q : q = Tail(con[c].tasks)
    OBVIOUS
  <1>3. q \in Seq(Tasks(h)) /\ con[c].tasks[1] \in Tasks(h)
    BY <1>1, <1>2, HeadTailProperties
  <1>4. ConsOK([con EXCEPT ![c].tasks = q], h)
    BY <1>3, ConsFields
  <1> QED BY <1>2, <1>3, <1>4 DEF TaskDone

\* The first message of a peer is read.
LEMMA MessageReadOK ==
    ASSUME NEW h \in 1..Best, ConsOK(con, h), NEW c \in Conns, con[c].inbox # <<>>
    PROVE  ConsOK(MessageRead(c), h) /\ con[c].inbox[1] \in Messages
  <1>1. con[c].inbox \in Seq(Messages)
    BY ConnTypes
  <1>2. PICK q : q = Tail(con[c].inbox)
    OBVIOUS
  <1>3. q \in Seq(Messages) /\ con[c].inbox[1] \in Messages
    BY <1>1, <1>2, HeadTailProperties
  <1>4. ConsOK([con EXCEPT ![c].inbox = q], h)
    BY <1>3, ConsFields
  <1> QED BY <1>2, <1>3, <1>4 DEF MessageRead

-----------------------------------------------------------------------------
(* The steps *)

\* What an event leaves
LEMMA ResultOK ==
    ASSUME NEW h \in 1..Best, NEW E, NEW r, r.s \in Sync(h, E), NEW cn, ConsOK(cn, h), NEW c \in Conns,
           Result(r, cn, c)
    PROVE  s' \in Sync(h, E) /\ ConsOK(con', h)
  <1>1. PICK by : by = IF r.s.acting = "no" THEN 0 ELSE c
    OBVIOUS
  <1>2. [r.s EXCEPT !.by = by] \in Sync(h, E)
    BY <1>1, SyncFields
  <1>3. s' \in Sync(h, E)
    BY <1>1, <1>2 DEF Result
  <1>4. ConsOK(con', h)
    BY SendHandshakesOK DEF Result
  <1> QED BY <1>3, <1>4

\* sync_recv_block
LEMMA SyncRecvBlockOK ==
    ASSUME head \in 1..Best, Nexts(head, Reach), s \in Sync(head, Reach),
           NEW cn, ConsOK(cn, head), NEW c \in Conns,
           NEW n, NEW applied, n = s.nextExp \/ applied => n + 1 \in Reach
    PROVE  LET x == SyncRecvBlock(cn, c, n, applied)
           IN  x.r.s \in Sync(head, Reach) /\ ConsOK(x.con, head)
  <1>1. PICK r : r = RecvBlock(s, head, cn, n, applied)
    OBVIOUS
  <1>2. PICK c1 : c1 = RecvBlockForkHeads(s, cn, n)
    OBVIOUS
  <1>3. r.s \in Sync(head, Reach)
    BY <1>1, RecvBlockOK
  <1>4. ConsOK(c1, head)
    BY <1>2, RecvBlockForkHeadsOK
  <1>5. ConsOK([c1 EXCEPT ![c].timer = TRUE], head)
    BY <1>4, ConsFields
  <1> QED BY <1>1, <1>2, <1>3, <1>4, <1>5 DEF SyncRecvBlock

\* verify_catchup
LEMMA VerifyCatchupOK ==
    ASSUME head \in 1..Best, NEW cn, ConsOK(cn, head), NEW c \in Conns
    PROVE  ConsOK(VerifyCatchup(cn, c, PeerHead[c]), head)
  <1>1. PICK n : n = PeerHead[c]
    OBVIOUS
  <1>2. n \in Num /\ 0 \in Num /\ head \in Num /\ 1 <= head /\ head <= Best
    BY <1>1, BestIs, NumIs
  <1>3. ConsOK([cn EXCEPT ![c].forkHead = 0], head)
    BY <1>2, ConsFields
  <1>4. PICK c1 : c1 = [cn EXCEPT ![c].forkHead = n]
    OBVIOUS
  <1>5. ConsOK(c1, head)
    BY <1>2, <1>4, ConsFields
  <1>6. PICK t : t = Task("head_catchup", head, 0)
    OBVIOUS
  <1>7. t \in Tasks(head)
    BY <1>2, <1>6 DEF Task, Tasks
  <1>8. PICK q : q = <<t>> \o cn[c].tasks
    OBVIOUS
  <1>9. q \in Seq(Tasks(head))
    <2>1. <<t>> \in Seq(Tasks(head)) /\ cn[c].tasks \in Seq(Tasks(head))
      BY <1>7, ConnTypes
    <2> QED BY <1>8, <2>1, ConcatProperties
  <1>10. ConsOK([c1 EXCEPT ![c].tasks = q], head)
    BY <1>5, <1>9, ConsFields
  <1>11. c1[c].tasks = cn[c].tasks
    <2>1. c1[c] = [cn[c] EXCEPT !.forkHead = n]
      BY <1>4 DEF ConsOK
    <2>2. cn[c] \in Conn(c, head)
      BY DEF ConsOK
    <2> QED BY <2>1, <2>2 DEF Conn
  <1>12. [c1 EXCEPT ![c].tasks = q] =
            [cn EXCEPT ![c].forkHead = n, ![c].tasks = <<Task("head_catchup", head, 0)>> \o @]
    BY <1>4, <1>6, <1>8, <1>11
  <1> QED BY <1>1, <1>3, <1>10, <1>12 DEF VerifyCatchup

\* Every block of the chain can be the next one to ask for, and the one after it.
LEMMA ReachIs ==
    ASSUME head \in 1..Best
    PROVE  Nexts(head, Reach)
  <1>1. Best \in Nat
    BY BestIs
  <1> HIDE DEF Best
  <1> QED BY <1>1 DEF Nexts, Reach, Accounted

\* The number after one that is accounted for
LEMMA ReachGrows ==
    ASSUME NEW n \in Reach, n \in Accounted
    PROVE  n + 1 \in Reach
  <1>1. Best \in Nat /\ n \in 1..Best /\ n \in Nat
    BY BestIs DEF Accounted
  <1>2. \A k \in 1..n - 1 : k \in Accounted
    BY DEF Reach
  <1> HIDE DEF Best, Accounted
  <1>3. \A k \in 1..(n + 1) - 1 : k \in Accounted
    BY <1>1, <1>2
  <1>4. n + 1 \in 1..Best + 1
    BY <1>1
  <1> QED BY <1>3, <1>4 DEF Reach

\* A step that leaves the chain and the blocks for the main thread alone
LEMMA InvKept ==
    ASSUME Inv, chain' = chain, app' = app,
           seen' = seen \/ seen' \in SUBSET (Accounted \X Conns),
           faults' = faults \/ faults' \in 0..MaxFaults,
           s' \in Sync(head, Reach), ConsOK(con', head)
    PROVE  Inv'
  <1>1. head' = head /\ busy' = busy /\ refused' = refused
    BY DEF chain
  <1>2. Accounted' = Accounted
    BY <1>1 DEF Accounted
  <1>3. Reach' = Reach
    BY <1>2 DEF Reach
  <1>4. seen' \in SUBSET (Accounted \X Conns) /\ faults' \in 0..MaxFaults
    BY DEF Inv
  <1> QED BY <1>1, <1>2, <1>3, <1>4 DEF Inv

\* The second step of a transition
LEMMA ActOK ==
    ASSUME Inv, Act
    PROVE  Inv'
  <1>1. head \in 1..Best /\ s \in Sync(head, Reach) /\ Nexts(head, Reach) /\ ConsOK(con, head)
    BY ReachIs DEF Inv
  <1>2. PICK s1 : s1 = IF s.acting = "close_continue" THEN ClosingSyncSource(s, head) ELSE s
    OBVIOUS
  <1>3. s1 \in Sync(head, Reach)
    BY <1>1, <1>2, ClosingSyncSourceOK
  <1>4. CASE s' = [s1 EXCEPT !.acting = "no", !.by = 0] /\ con' = SendHandshakes(con)
    <2>1. PICK m : m = [s1 EXCEPT !.acting = "no"]
      OBVIOUS
    <2>2. m \in Sync(head, Reach)
      BY <1>3, <2>1, SyncFields
    <2>3. [m EXCEPT !.by = 0] \in Sync(head, Reach)
      BY <2>2, SyncFields
    <2>4. s' \in Sync(head, Reach)
      BY <1>4, <2>1, <2>3
    <2>5. ConsOK(con', head)
      BY <1>1, <1>4, SendHandshakesOK
    <2> QED BY <2>4, <2>5, InvKept DEF Act
  <1>5. ASSUME NEW r \in SyncRange(s1),
               s' = [s1 EXCEPT !.lastReq = r[2], !.by = 0,
                                 !.acting = IF s.source = 0 THEN "crashed" ELSE "no"],
               con' = IF s.source = 0 THEN con
                        ELSE [con EXCEPT ![s.source].tasks =
                                            Append(@, Task("request", r[1], r[2]))]
        PROVE  Inv'
    <2>1. r[1] \in 1..Best /\ r[2] \in 1..Best /\ r[1] <= r[2]
      BY <1>1, <1>3, SyncRangeIs
    <2>2. PICK act : act = IF s.source = 0 THEN "crashed" ELSE "no"
      OBVIOUS
    <2>3. PICK e : e = r[2]
      OBVIOUS
    <2>4. PICK m : m = [s1 EXCEPT !.lastReq = e]
      OBVIOUS
    <2>5. PICK k : k = [m EXCEPT !.by = 0]
      OBVIOUS
    <2>6. e \in 0..Best
      BY <2>1, <2>3, BestIs
    <2>7. m \in Sync(head, Reach)
      BY <1>3, <2>4, <2>6, SyncFields
    <2>8. k \in Sync(head, Reach)
      BY <2>5, <2>7, SyncFields
    <2>9. [k EXCEPT !.acting = act] \in Sync(head, Reach)
      BY <2>2, <2>8, SyncFields
    <2>10. s' \in Sync(head, Reach)
      BY <1>5, <2>2, <2>3, <2>4, <2>5, <2>9
    <2>11. ConsOK(con', head)
      <3>1. CASE s.source = 0
        BY <1>1, <1>5, <3>1
      <3>2. CASE s.source # 0
        <4>1. PICK c : c = s.source
          OBVIOUS
        <4>2. c \in Conns
          BY <1>1, <3>2, <4>1, SyncTypes
        <4>3. PICK t : t = Task("request", r[1], r[2])
          OBVIOUS
        <4>4. t \in Tasks(head)
          <5>1. r[1] \in Num /\ r[2] \in Num /\ 1 <= r[1] /\ r[2] <= Best
            BY <1>1, <2>1, NumIs, BestIs
          <5> QED BY <2>1, <4>3, <5>1 DEF Task, Tasks
        <4>5. PICK q : q = Append(con[c].tasks, t)
          OBVIOUS
        <4>6. q \in Seq(Tasks(head))
          BY <1>1, <4>2, <4>4, <4>5, ConnTypes, AppendProperties
        <4>7. ConsOK([con EXCEPT ![c].tasks = q], head)
          BY <1>1, <4>2, <4>6, ConsFields
        <4> QED BY <1>5, <3>2, <4>1, <4>3, <4>5, <4>7
      <3> QED BY <3>1, <3>2
    <2> QED BY <2>10, <2>11, InvKept DEF Act
  <1>6. \/ s' = [s1 EXCEPT !.acting = "no", !.by = 0] /\ con' = SendHandshakes(con)
        \/ \E r \in SyncRange(s1) :
              /\ s' = [s1 EXCEPT !.lastReq = r[2], !.by = 0,
                                 !.acting = IF s.source = 0 THEN "crashed" ELSE "no"]
              /\ con' = IF s.source = 0 THEN con
                        ELSE [con EXCEPT ![s.source].tasks =
                                            Append(@, Task("request", r[1], r[2]))]
    BY <1>2 DEF Act
  <1> QED BY <1>4, <1>5, <1>6

\* send_handshake, on the strand
LEMMA RunHandshakeOK ==
    ASSUME Inv, NEW c \in Conns, RunHandshake(c)
    PROVE  Inv'
  <1>1. /\ head \in 1..Best /\ s \in Sync(head, Reach) /\ Nexts(head, Reach)
        /\ ConsOK(con, head) /\ con[c].tasks # <<>>
    BY ReachIs DEF Inv, RunHandshake, FirstTask
  <1>2. ConsOK(TaskDone(c), head)
    BY <1>1, TaskDoneOK
  <1>3. ConsOK(HandshakeSent(TaskDone(c), c), head)
    BY <1>1, <1>2, HandshakeSentOK
  <1> QED BY <1>1, <1>3, InvKept DEF RunHandshake

\* request_sync_blocks
LEMMA RunRequestOK ==
    ASSUME Inv, NEW c \in Conns, RunRequest(c)
    PROVE  Inv'
  <1>1. /\ head \in 1..Best /\ s \in Sync(head, Reach) /\ Nexts(head, Reach)
        /\ ConsOK(con, head) /\ con[c].tasks # <<>>
    BY ReachIs DEF Inv, RunRequest, FirstTask
  <1>2. ConsOK(TaskDone(c), head) /\ con[c].tasks[1] \in Tasks(head)
    BY <1>1, TaskDoneOK
  <1>3. PICK t : t = con[c].tasks[1]
    OBVIOUS
  <1>4. t.from \in 1..Best /\ t.to \in 1..Best /\ t.from <= t.to
    <2>1. t \in Tasks(head) /\ t.type = "request"
      BY <1>2, <1>3 DEF RunRequest, FirstTask
    <2>2. t.from \in Num /\ t.to \in Num /\ 1 <= t.from /\ t.from <= t.to /\ t.to <= Best
      BY <2>1 DEF Tasks
    <2>3. Num \subseteq Int /\ Best \in Nat
      BY BestIs, SyncManagerAssumption DEF Num
    <2> HIDE DEF Best, Num
    <2>4. t.from \in Int /\ t.to \in Int
      BY <2>2, <2>3
    <2>5. \A f, g \in Int : 1 <= f /\ f <= g /\ g <= Best => f \in 1..Best /\ g \in 1..Best
      BY <2>3
    <2> QED BY <2>2, <2>4, <2>5
  <1>5. PICK c1 : c1 = RequestSent(TaskDone(c), c, t.from, t.to)
    OBVIOUS
  <1>6. ConsOK(c1, head)
    BY <1>1, <1>2, <1>4, <1>5, RequestSentOK
  <1>7. ConsOK([c1 EXCEPT ![c].timer = TRUE], head)
    BY <1>6, ConsFields
  <1> QED BY <1>1, <1>3, <1>5, <1>7, InvKept DEF RunRequest

\* close
LEMMA RunCloseOK ==
    ASSUME Inv, NEW c \in Conns, RunClose(c)
    PROVE  Inv'
  <1>1. /\ head \in 1..Best /\ s \in Sync(head, Reach) /\ Nexts(head, Reach)
        /\ ConsOK(con, head) /\ con[c].tasks # <<>>
    BY ReachIs DEF Inv, RunClose, FirstTask
  <1>2. ConsOK(TaskDone(c), head)
    BY <1>1, TaskDoneOK
  <1>3. PICK cn : cn = ClosedCon(TaskDone(c), c)
    OBVIOUS
  <1>4. ConsOK(cn, head)
    BY <1>1, <1>2, <1>3, ClosedConOK
  <1>5. PICK r : r = CloseConnection(s, head, cn, c)
    OBVIOUS
  <1>6. r.s \in Sync(head, Reach)
    BY <1>1, <1>4, <1>5, CloseConnectionOK
  <1>7. Result(r, cn, c)
    BY <1>3, <1>5 DEF RunClose
  <1>8. s' \in Sync(head, Reach) /\ ConsOK(con', head)
    BY <1>1, <1>4, <1>6, <1>7, ResultOK
  <1> QED BY <1>8, InvKept DEF RunClose

\* sync_recv_block for a block that was applied or in the chain already
LEMMA RunRecvOK ==
    ASSUME Inv, NEW c \in Conns, RunRecv(c)
    PROVE  Inv'
  <1>1. /\ head \in 1..Best /\ s \in Sync(head, Reach) /\ Nexts(head, Reach)
        /\ ConsOK(con, head) /\ con[c].tasks # <<>>
    BY ReachIs DEF Inv, RunRecv, FirstTask
  <1>2. ConsOK(TaskDone(c), head) /\ con[c].tasks[1] \in Tasks(head)
    BY <1>1, TaskDoneOK
  <1>3. PICK n : n = con[c].tasks[1].from
    OBVIOUS
  <1>4. n \in 0..head
    <2>1. n \in Num /\ n <= head
      BY <1>2, <1>3 DEF RunRecv, FirstTask, Tasks
    <2>2. Num \subseteq Nat /\ head \in Nat
      BY <1>1, BestIs, SyncManagerAssumption DEF Num
    <2> HIDE DEF Num
    <2> QED BY <2>1, <2>2
  <1>5. PICK cn : cn = IF FirstTask(c, "applied") THEN [TaskDone(c) EXCEPT ![c].timer = FALSE]
                       ELSE TaskDone(c)
    OBVIOUS
  <1>6. ConsOK(cn, head)
    <2>1. PICK d : d = TaskDone(c)
      OBVIOUS
    <2>2. ConsOK(d, head)
      BY <1>2, <2>1
    <2>3. ConsOK([d EXCEPT ![c].timer = FALSE], head)
      BY <2>2, ConsFields
    <2> QED BY <1>5, <2>1, <2>2, <2>3
  <1>7. PICK x : x = SyncRecvBlock(cn, c, n, FirstTask(c, "applied"))
    OBVIOUS
  <1>8. x.r.s \in Sync(head, Reach) /\ ConsOK(x.con, head)
    <2>1. PICK a : a = FirstTask(c, "applied")
      OBVIOUS
    <2>2. n + 1 \in Reach
      <3>1. n + 1 \in 1..head + 1
        BY <1>1, <1>4, NumIs
      <3> QED BY <1>1, <3>1 DEF Nexts
    <2> QED BY <1>1, <1>6, <1>7, <2>1, <2>2, SyncRecvBlockOK
  <1>9. Result(x.r, x.con, c)
    BY <1>3, <1>5, <1>7 DEF RunRecv
  <1>10. s' \in Sync(head, Reach) /\ ConsOK(con', head)
    <2>1. PICK r : r = x.r
      OBVIOUS
    <2> QED BY <1>1, <1>8, <1>9, <2>1, ResultOK
  <1>11. seen' = seen \/ seen' \in SUBSET (Accounted \X Conns)
    <2>1. SUFFICES ASSUME seen' = seen \cup {<<n, c>>}, ~(n <= Lib)
                   PROVE  seen' \in SUBSET (Accounted \X Conns)
      BY <1>3 DEF RunRecv
    <2>2. n \in Accounted
      <3>1. LibOf(head) \in 1..head /\ Best \in Nat
        BY <1>1, LibIs, BestIs
      <3>2. n \in 1..Best /\ n <= head
        <4> HIDE DEF Best
        <4> QED BY <1>1, <1>4, <2>1, <3>1 DEF Lib
      <3> QED BY <3>2 DEF Accounted
    <2>3. seen \in SUBSET (Accounted \X Conns)
      BY DEF Inv
    <2> QED BY <2>1, <2>2, <2>3
  <1>12. chain' = chain /\ app' = app /\ faults' = faults
    BY DEF RunRecv
  <1> QED BY <1>10, <1>11, <1>12, InvKept

\* rejected_block
LEMMA RunRejectedOK ==
    ASSUME Inv, NEW c \in Conns, RunRejected(c)
    PROVE  Inv'
  <1>1. /\ head \in 1..Best /\ s \in Sync(head, Reach) /\ Nexts(head, Reach)
        /\ ConsOK(con, head) /\ con[c].tasks # <<>>
    BY ReachIs DEF Inv, RunRejected, FirstTask
  <1>2. ConsOK(TaskDone(c), head)
    BY <1>1, TaskDoneOK
  <1>3. ConsOK(Posted(TaskDone(c), c, Close), head)
    BY <1>1, <1>2, PlainTasks, PostedOK
  <1>4. ConsOK(Posted(TaskDone(c), c, Handshake), head)
    BY <1>1, <1>2, PlainTasks, PostedOK
  <1>5. PICK m : m = [s EXCEPT !.lastReq = 0]
    OBVIOUS
  <1>6. m \in Sync(head, Reach)
    <2>1. 0 \in 0..Best
      BY BestIs
    <2> QED BY <1>1, <1>5, <2>1, SyncFields
  <1>7. [m EXCEPT !.source = 0] \in Sync(head, Reach)
    BY <1>6, SyncFields
  <1>8. [s EXCEPT !.lastReq = 0, !.source = 0] \in Sync(head, Reach)
    BY <1>5, <1>7
  <1>9. s' \in Sync(head, Reach) /\ ConsOK(con', head)
    BY <1>3, <1>4, <1>5, <1>6, <1>8 DEF RunRejected
  <1>10. seen' \in SUBSET (Accounted \X Conns)
    BY DEF Inv, RunRejected
  <1>11. chain' = chain /\ app' = app /\ faults' = faults
    BY DEF RunRejected
  <1> QED BY <1>9, <1>10, <1>11, InvKept

\* The event of verify_catchup, and the request that follows it
LEMMA RunHeadCatchupOK ==
    ASSUME Inv, NEW c \in Conns, RunHeadCatchup(c)
    PROVE  Inv'
  <1>1. /\ head \in 1..Best /\ s \in Sync(head, Reach) /\ Nexts(head, Reach)
        /\ ConsOK(con, head) /\ con[c].tasks # <<>>
    BY ReachIs DEF Inv, RunHeadCatchup, FirstTask
  <1>2. PICK d : d = TaskDone(c)
    OBVIOUS
  <1>3. ConsOK(d, head) /\ con[c].tasks[1] \in Tasks(head)
    BY <1>1, <1>2, TaskDoneOK
  <1>4. PICK h : h = con[c].tasks[1].from
    OBVIOUS
  <1>5. h \in 1..Best
    <2>1. h \in Num /\ 1 <= h /\ h <= Best
      BY <1>3, <1>4 DEF Tasks, RunHeadCatchup, FirstTask
    <2>2. Num \subseteq Int /\ Best \in Nat
      BY BestIs, SyncManagerAssumption DEF Num
    <2> HIDE DEF Best, Num
    <2> QED BY <2>1, <2>2
  <1>6. ConsOK(CatchUpSent(d, c, h), head)
    BY <1>1, <1>3, <1>5, CatchUpSentOK
  <1>7. HeadCatchup(s).s \in Sync(head, Reach)
    BY <1>1, HeadCatchupOK
  <1>8. s' \in Sync(head, Reach) /\ ConsOK(con', head)
    BY <1>2, <1>4, <1>6, <1>7 DEF RunHeadCatchup
  <1> QED BY <1>8, InvKept DEF RunHeadCatchup

\* handle_message(handshake_message)
LEMMA RecvHandshakeOK ==
    ASSUME Inv, NEW c \in Conns, RecvHandshake(c)
    PROVE  Inv'
  <1>1. /\ head \in 1..Best /\ s \in Sync(head, Reach) /\ Nexts(head, Reach)
        /\ ConsOK(con, head) /\ con[c].inbox # <<>>
    BY ReachIs DEF Inv, RecvHandshake, FirstMessage
  <1>2. PICK d : d = MessageRead(c)
    OBVIOUS
  <1>3. ConsOK(d, head)
    BY <1>1, <1>2, MessageReadOK
  <1>4. PICK e : e = [d EXCEPT ![c].status = "up"]
    OBVIOUS
  <1>5. ConsOK(e, head)
    BY <1>3, <1>4, ConsFields
  <1>6. PICK l : l = PeerLib[c]
    OBVIOUS
  <1>7. PICK cn : cn = [e EXCEPT ![c].lib = l]
    OBVIOUS
  <1>8. ConsOK(cn, head)
    BY <1>5, <1>6, <1>7, ConsFields
  <1>9. cn = [MessageRead(c) EXCEPT ![c].status = "up", ![c].lib = PeerLib[c]]
    BY <1>2, <1>4, <1>6, <1>7
  <1>10. PICK s1 : s1 = SyncResetLibNum(s, PeerLib[c])
    OBVIOUS
  <1>11. s1 \in Sync(head, Reach)
    BY <1>1, <1>10, TopLibIs, SyncResetLibNumOK
  <1>12. ConsOK(Posted(cn, c, Handshake), head)
    BY <1>1, <1>8, PlainTasks, PostedOK
  <1>13. /\ s' = s1
         /\ con' = IF head < PeerLib[c] THEN Posted(cn, c, Handshake)
                   ELSE IF head + 1 < PeerHead[c] THEN VerifyCatchup(cn, c, PeerHead[c])
                   ELSE cn
    BY <1>9, <1>10 DEF RecvHandshake
  <1>14. s' \in Sync(head, Reach) /\ ConsOK(con', head)
    BY <1>1, <1>8, <1>11, <1>12, <1>13, VerifyCatchupOK
  <1> QED BY <1>14, InvKept DEF RecvHandshake

\* process_notice, last_irr_catch_up
LEMMA RecvLibNoticeOK ==
    ASSUME Inv, NEW c \in Conns, RecvLibNotice(c)
    PROVE  Inv'
  <1>1. /\ head \in 1..Best /\ s \in Sync(head, Reach) /\ Nexts(head, Reach)
        /\ ConsOK(con, head) /\ con[c].inbox # <<>>
    BY ReachIs DEF Inv, RecvLibNotice, FirstMessage
  <1>2. PICK d : d = MessageRead(c)
    OBVIOUS
  <1>3. ConsOK(d, head)
    BY <1>1, <1>2, MessageReadOK
  <1>4. PICK l : l = PeerLib[c]
    OBVIOUS
  <1>5. PICK cn : cn = [d EXCEPT ![c].lib = l]
    OBVIOUS
  <1>6. ConsOK(cn, head)
    BY <1>3, <1>4, <1>5, ConsFields
  <1>7. PICK r : r = LibCatchup(s, head, cn, l, c)
    OBVIOUS
  <1>8. r.s \in Sync(head, Reach)
    <2>1. l \in 0..TopLib(head)
      BY <1>1, <1>4, TopLibIs
    <2> QED BY <1>1, <1>7, <2>1, LibCatchupOK
  <1>9. PICK x : x = IF r.passed THEN cn ELSE Posted(cn, c, Handshake)
    OBVIOUS
  <1>10. ConsOK(x, head)
    BY <1>1, <1>6, <1>9, PlainTasks, PostedOK
  <1>11. Result(r, x, c)
    BY <1>2, <1>4, <1>5, <1>7, <1>9 DEF RecvLibNotice
  <1>12. s' \in Sync(head, Reach) /\ ConsOK(con', head)
    BY <1>1, <1>8, <1>10, <1>11, ResultOK
  <1> QED BY <1>12, InvKept DEF RecvLibNotice

\* process_notice, catch_up
LEMMA RecvCatchUpNoticeOK ==
    ASSUME Inv, NEW c \in Conns, RecvCatchUpNotice(c)
    PROVE  Inv'
  <1>1. /\ head \in 1..Best /\ s \in Sync(head, Reach) /\ Nexts(head, Reach)
        /\ ConsOK(con, head) /\ con[c].inbox # <<>>
    BY ReachIs DEF Inv, RecvCatchUpNotice, FirstMessage
  <1>2. PICK d : d = MessageRead(c)
    OBVIOUS
  <1>3. ConsOK(d, head)
    BY <1>1, <1>2, MessageReadOK
  <1>4. ConsOK(Posted(d, c, Handshake), head)
    BY <1>1, <1>3, PlainTasks, PostedOK
  <1>5. /\ s' = s
        /\ con' = Posted(d, c, Handshake) \/ con' = VerifyCatchup(d, c, PeerHead[c])
    BY <1>2 DEF RecvCatchUpNotice
  <1>6. s' \in Sync(head, Reach) /\ ConsOK(con', head)
    BY <1>1, <1>3, <1>4, <1>5, VerifyCatchupOK
  <1> QED BY <1>6, InvKept DEF RecvCatchUpNotice

\* go_away_message
LEMMA RecvGoAwayOK ==
    ASSUME Inv, NEW c \in Conns, RecvGoAway(c)
    PROVE  Inv'
  <1>1. /\ head \in 1..Best /\ s \in Sync(head, Reach) /\ Nexts(head, Reach)
        /\ ConsOK(con, head) /\ con[c].inbox # <<>>
    BY ReachIs DEF Inv, RecvGoAway, FirstMessage
  <1>2. ConsOK(MessageRead(c), head)
    BY <1>1, MessageReadOK
  <1>3. ConsOK(Posted(MessageRead(c), c, Close), head)
    BY <1>1, <1>2, PlainTasks, PostedOK
  <1> QED BY <1>1, <1>3, InvKept DEF RecvGoAway

\* process_next_block_message, for a block that was received before
LEMMA RecvKnownBlockOK ==
    ASSUME Inv, NEW c \in Conns, RecvKnownBlock(c)
    PROVE  Inv'
  <1>1. /\ head \in 1..Best /\ s \in Sync(head, Reach) /\ Nexts(head, Reach)
        /\ ConsOK(con, head) /\ con[c].inbox # <<>>
    BY ReachIs DEF Inv, RecvKnownBlock, FirstMessage
  <1>2. PICK d : d = MessageRead(c)
    OBVIOUS
  <1>3. ConsOK(d, head) /\ con[c].inbox[1] \in Messages
    BY <1>1, <1>2, MessageReadOK
  <1>4. PICK n : n = con[c].inbox[1].num
    OBVIOUS
  <1>5. n \in Accounted
    <2>1. n \in 1..Best
      BY <1>3, <1>4 DEF Messages, RecvKnownBlock, FirstMessage
    <2>2. n <= Lib \/ \E x \in seen : n = x[1]
      BY <1>4 DEF RecvKnownBlock, HaveBlock
    <2>3. CASE n <= Lib
      <3>1. LibOf(head) \in 1..head /\ Best \in Nat
        BY <1>1, LibIs, BestIs
      <3>2. n <= head
        <4> HIDE DEF Best
        <4> QED BY <1>1, <2>1, <2>3, <3>1 DEF Lib
      <3> QED BY <2>1, <3>2 DEF Accounted
    <2>4. CASE \E x \in seen : n = x[1]
      <3>1. seen \in SUBSET (Accounted \X Conns)
        BY DEF Inv
      <3> QED BY <2>4, <3>1
    <2> QED BY <2>2, <2>3, <2>4
  <1>6. PICK no \in BOOLEAN : no = FALSE
    OBVIOUS
  <1>7. PICK x : x = SyncRecvBlock(d, c, n, no)
    OBVIOUS
  <1>8. x.r.s \in Sync(head, Reach) /\ ConsOK(x.con, head)
    <2>1. n = s.nextExp \/ no => n + 1 \in Reach
      <3>1. s.nextExp \in Reach
        BY <1>1, SyncTypes
      <3> QED BY <1>5, <1>6, <3>1, ReachGrows
    <2> QED BY <1>1, <1>3, <1>7, <2>1, SyncRecvBlockOK
  <1>9. PICK r : r = x.r
    OBVIOUS
  <1>10. PICK y : y = x.con
    OBVIOUS
  <1>11. PICK z : z = [y EXCEPT ![c].timer = FALSE]
    OBVIOUS
  <1>12. ConsOK(z, head)
    BY <1>8, <1>10, <1>11, ConsFields
  <1>13. Result(r, z, c)
    BY <1>2, <1>4, <1>6, <1>7, <1>9, <1>10, <1>11 DEF RecvKnownBlock
  <1>14. s' \in Sync(head, Reach) /\ ConsOK(con', head)
    BY <1>1, <1>8, <1>9, <1>12, <1>13, ResultOK
  <1> QED BY <1>14, InvKept DEF RecvKnownBlock

\* process_next_block_message, for a block that was not received before
LEMMA RecvNewBlockOK ==
    ASSUME Inv, NEW c \in Conns, RecvNewBlock(c)
    PROVE  Inv'
  <1>1. /\ head \in 1..Best /\ s \in Sync(head, Reach) /\ Nexts(head, Reach)
        /\ ConsOK(con, head) /\ con[c].inbox # <<>>
        /\ app \in Seq(Conns \X (1..Best)) /\ faults \in 0..MaxFaults
    BY ReachIs DEF Inv, RecvNewBlock, FirstMessage
  <1>2. PICK d : d = MessageRead(c)
    OBVIOUS
  <1>3. ConsOK(d, head) /\ con[c].inbox[1] \in Messages
    BY <1>1, <1>2, MessageReadOK
  <1>4. PICK n : n = con[c].inbox[1].num
    OBVIOUS
  <1>5. n \in 1..Best
    BY <1>3, <1>4 DEF Messages, RecvNewBlock, FirstMessage
  <1>6. Append(app, <<c, n>>) \in Seq(Conns \X (1..Best))
    <2>1. <<c, n>> \in Conns \X (1..Best)
      BY <1>5
    <2> QED BY <1>1, <2>1, AppendProperties
  <1>7. ConsOK(Posted(d, c, Close), head)
    BY <1>1, <1>3, PlainTasks, PostedOK
  <1>8. PICK e : e = Posted(CancelSent(d, c), c, Handshake)
    OBVIOUS
  <1>9. ConsOK(e, head)
    <2>1. ConsOK(CancelSent(d, c), head)
      BY <1>1, <1>3, CancelSentOK
    <2> QED BY <1>1, <1>8, <2>1, PlainTasks, PostedOK
  <1>10. ConsOK([e EXCEPT ![c].timer = FALSE], head)
    BY <1>9, ConsFields
  <1>11. [s EXCEPT !.lastReq = 0] \in Sync(head, Reach)
    <2>1. 0 \in 0..Best
      BY BestIs
    <2> QED BY <1>1, <2>1, SyncFields
  <1>12. \/ app' = Append(app, <<c, n>>) /\ con' = d /\ s' = s
         \/ app' = app /\ con' = Posted(d, c, Close) /\ s' = s
         \/ app' = app /\ con' = [e EXCEPT ![c].timer = FALSE] /\ s' = [s EXCEPT !.lastReq = 0]
    BY <1>2, <1>4, <1>8 DEF RecvNewBlock
  <1>13. /\ s' \in Sync(head, Reach) /\ ConsOK(con', head)
         /\ app' \in Seq(Conns \X (1..Best))
    BY <1>1, <1>3, <1>6, <1>7, <1>10, <1>11, <1>12
  <1>14. head' = head /\ busy' = busy /\ refused' = refused /\ seen' = seen /\ faults' = faults
    BY DEF RecvNewBlock, chain
  <1>15. busy => app # <<>> /\ app' # <<>> /\ app'[1] = app[1]
    <2>1. SUFFICES ASSUME busy, app' = Append(app, <<c, n>>)
                   PROVE  app # <<>> /\ app' # <<>> /\ app'[1] = app[1]
      BY <1>12 DEF Inv
    <2>2. app # <<>>
      BY <2>1 DEF Inv
    <2>3. Len(app) \in Nat /\ Len(app) >= 1
      BY <1>1, <2>2, EmptySeq, LenProperties
    <2> QED BY <1>1, <2>1, <2>2, <2>3, AppendProperties
  <1>16. Accounted' = Accounted
    <2>1. CASE busy
      BY <1>14, <1>15, <2>1 DEF Accounted
    <2>2. CASE ~busy
      BY <1>14, <2>2 DEF Accounted
    <2> QED BY <2>1, <2>2
  <1>17. Reach' = Reach
    BY <1>16 DEF Reach
  <1>18. /\ busy \in BOOLEAN /\ seen \in SUBSET (Accounted \X Conns)
         /\ refused \in SUBSET (1..Best)
    BY DEF Inv
  <1>19. busy' \in BOOLEAN /\ (busy' => app' # <<>>)
    BY <1>14, <1>15, <1>18
  <1> QED BY <1>1, <1>13, <1>14, <1>16, <1>17, <1>18, <1>19 DEF Inv

\* What holds of a chain holds of a longer one.
LEMMA LongerChain ==
    ASSUME NEW h \in 1..Best, NEW k \in 1..Best, h <= k
    PROVE  /\ Tasks(h) \subseteq Tasks(k)
           /\ \A D, E : D \subseteq E => Sync(h, D) \subseteq Sync(k, E)
           /\ \A cn : ConsOK(cn, h) => ConsOK(cn, k)
  <1>1. Tasks(h) \subseteq Tasks(k)
    <2>1. SUFFICES ASSUME NEW t \in Tasks(h), t.type \in {"applied", "known"}
                   PROVE  t.from <= k
      BY DEF Tasks
    <2>2. t.from \in Num /\ t.from <= h
      BY <2>1 DEF Tasks
    <2>3. Num \subseteq Int /\ h \in Int /\ k \in Int
      BY BestIs, SyncManagerAssumption DEF Num
    <2>4. PICK f : f = t.from
      OBVIOUS
    <2>5. f \in Int /\ f <= h
      BY <2>2, <2>3, <2>4
    <2>6. f <= k
      BY <2>3, <2>5
    <2> QED BY <2>4, <2>6
  <1>2. ASSUME NEW D, NEW E, D \subseteq E PROVE Sync(h, D) \subseteq Sync(k, E)
    <2>1. 0..TopLib(h) \subseteq 0..TopLib(k)
      BY LibGrows, TopLibIs
    <2> QED BY <1>2, <2>1 DEF Sync
  <1>3. ASSUME NEW cn, ConsOK(cn, h) PROVE ConsOK(cn, k)
    <2>1. ASSUME NEW c \in Conns PROVE cn[c] \in Conn(c, k)
      <3>1. cn[c] \in Conn(c, h)
        BY <1>3 DEF ConsOK
      <3>2. cn[c].tasks \in Seq(Tasks(k))
        <4>1. cn[c].tasks \in Seq(Tasks(h))
          BY <3>1 DEF Conn
        <4> QED BY <1>1, <4>1, SeqMonotonic
      <3> QED BY <3>1, <3>2 DEF Conn
    <2> QED BY <1>3, <2>1 DEF ConsOK
  <1> QED BY <1>1, <1>2, <1>3

\* A task for a block that the main thread has dealt with
LEMMA BlockPosted ==
    ASSUME NEW h \in 1..Best, NEW cn, ConsOK(cn, h), NEW c \in Conns, NEW n \in 1..Best,
           NEW type \in {"known", "applied", "rejected"}, type # "rejected" => n <= h
    PROVE  ConsOK([cn EXCEPT ![c].tasks = Append(@, Task(type, n, 0))], h)
  <1>1. PICK t : t = Task(type, n, 0)
    OBVIOUS
  <1>2. t \in Tasks(h)
    <2>1. n \in Num /\ 0 \in Num
      BY NumIs, BestIs
    <2> QED BY <1>1, <2>1 DEF Task, Tasks
  <1>3. PICK q : q = Append(cn[c].tasks, t)
    OBVIOUS
  <1>4. q \in Seq(Tasks(h))
    BY <1>2, <1>3, ConnTypes, AppendProperties
  <1>5. ConsOK([cn EXCEPT ![c].tasks = q], h)
    BY <1>4, ConsFields
  <1> QED BY <1>1, <1>3, <1>5

\* What the main thread does accounts for more blocks, and for no fewer.
LEMMA InvGrown ==
    ASSUME Inv, s' = s, faults' = faults, head' \in 1..Best, head <= head',
           Accounted \subseteq Accounted', ConsOK(con', head'),
           app' \in Seq(Conns \X (1..Best)), busy' \in BOOLEAN, busy' => app' # <<>>,
           seen' \in SUBSET (Accounted' \X Conns), refused' \in SUBSET (1..Best)
    PROVE  Inv'
  <1>1. Reach \subseteq Reach'
    BY DEF Reach
  <1>2. PICK h : h = head'
    OBVIOUS
  <1>3. PICK E : E = Reach'
    OBVIOUS
  <1>4. Sync(head, Reach) \subseteq Sync(h, E)
    <2>1. head \in 1..Best /\ h \in 1..Best /\ head <= h /\ Reach \subseteq E
      BY <1>1, <1>2, <1>3 DEF Inv
    <2> QED BY <2>1, LongerChain
  <1>5. s' \in Sync(head', Reach')
    BY <1>2, <1>3, <1>4 DEF Inv
  <1>6. faults' \in 0..MaxFaults
    BY DEF Inv
  <1> QED BY <1>5, <1>6 DEF Inv

\* process_signed_block, up to accept_block
LEMMA BeginBlockOK ==
    ASSUME Inv, BeginBlock
    PROVE  Inv'
  <1>1. /\ head \in 1..Best /\ ConsOK(con, head) /\ head \in Nat
        /\ app \in Seq(Conns \X (1..Best)) /\ app # <<>> /\ ~busy
        /\ seen \in SUBSET (Accounted \X Conns) /\ refused \in SUBSET (1..Best)
    BY BestIs DEF Inv, BeginBlock
  <1>2. app[1] \in Conns \X (1..Best) /\ Tail(app) \in Seq(Conns \X (1..Best))
    BY <1>1, HeadTailProperties
  <1>3. PICK c \in Conns : c = app[1][1]
    BY <1>2
  <1>4. PICK n \in 1..Best : n = app[1][2]
    BY <1>2
  <1>5. s' = s /\ head' = head /\ refused' = refused /\ faults' = faults
    BY DEF BeginBlock
  <1>6. Accounted \subseteq Accounted'
    BY <1>1, <1>5 DEF Accounted
  <1>7. CASE app' = Tail(app) /\ con' = con /\ busy' = busy /\ seen' = seen
    <2>1. busy' \in BOOLEAN /\ ~busy'
      BY <1>1, <1>7 DEF Inv
    <2>2. ConsOK(con', head') /\ head' \in 1..Best /\ head <= head'
      BY <1>1, <1>5, <1>7
    <2>3. seen' \in SUBSET (Accounted' \X Conns)
      BY <1>1, <1>6, <1>7
    <2> QED BY <1>1, <1>2, <1>5, <1>6, <1>7, <2>1, <2>2, <2>3, InvGrown
  <1>8. CASE /\ n <= head /\ app' = Tail(app) /\ busy' = busy /\ seen' = seen
             /\ con' = [con EXCEPT ![c].tasks = Append(@, Task("known", n, 0))]
    <2>1. busy' \in BOOLEAN /\ ~busy'
      BY <1>1, <1>8 DEF Inv
    <2>2. ConsOK(con', head)
      <3>1. PICK type \in {"known", "applied", "rejected"} : type = "known"
        OBVIOUS
      <3>2. ConsOK([con EXCEPT ![c].tasks = Append(@, Task(type, n, 0))], head)
        BY <1>1, <1>8, <3>1, BlockPosted
      <3> QED BY <1>8, <3>1, <3>2
    <2>3. ConsOK(con', head') /\ head' \in 1..Best /\ head <= head'
      BY <1>1, <1>5, <2>2
    <2>4. seen' \in SUBSET (Accounted' \X Conns)
      BY <1>1, <1>6, <1>8
    <2> QED BY <1>1, <1>2, <1>5, <1>6, <1>8, <2>1, <2>3, <2>4, InvGrown
  <1>9. CASE busy' = TRUE /\ seen' = seen \cup {<<n, c>>} /\ app' = app /\ con' = con
    <2>1. n \in Accounted'
      BY <1>4, <1>9 DEF Accounted
    <2>2. seen' \in SUBSET (Accounted' \X Conns)
      <3>1. PICK A : A = Accounted'
        OBVIOUS
      <3>2. seen \subseteq A \X Conns
        BY <1>1, <1>6, <3>1
      <3>3. <<n, c>> \in A \X Conns
        BY <2>1, <3>1
      <3>4. seen' = seen \cup {<<n, c>>}
        BY <1>9
      <3> QED BY <3>1, <3>2, <3>3, <3>4, Zenon
    <2>3. ConsOK(con', head') /\ head' \in 1..Best /\ head <= head'
      BY <1>1, <1>5, <1>9
    <2>4. busy' \in BOOLEAN /\ app' # <<>> /\ app' \in Seq(Conns \X (1..Best))
      BY <1>1, <1>9
    <2> QED BY <1>1, <1>5, <1>6, <2>2, <2>3, <2>4, InvGrown
  <1> QED BY <1>3, <1>4, <1>7, <1>8, <1>9 DEF BeginBlock

\* accept_block: a block that is applied is in the chain then, one that is not is refused.
LEMMA AcceptBlockOK ==
    ASSUME Inv, AcceptBlock
    PROVE  Inv'
  <1>1. /\ head \in 1..Best /\ ConsOK(con, head) /\ head \in Nat
        /\ app \in Seq(Conns \X (1..Best)) /\ app # <<>> /\ busy
        /\ seen \in SUBSET (Accounted \X Conns) /\ refused \in SUBSET (1..Best)
    BY BestIs DEF Inv, AcceptBlock
  <1>2. app[1] \in Conns \X (1..Best) /\ Tail(app) \in Seq(Conns \X (1..Best))
    BY <1>1, HeadTailProperties
  <1>3. PICK c \in Conns : c = app[1][1]
    BY <1>2
  <1>4. PICK n \in 1..Best : n = app[1][2]
    BY <1>2
  <1>5. n \in Nat
    BY <1>4, BestIs
  <1>6. s' = s /\ faults' = faults /\ busy' = FALSE /\ app' = Tail(app)
    BY DEF AcceptBlock
  <1>7. busy' \in BOOLEAN /\ ~busy' /\ app' \in Seq(Conns \X (1..Best))
    BY <1>2, <1>6
  <1>8. CASE /\ n = head + 1 /\ head' = n
             /\ con' = [con EXCEPT ![c].tasks = Append(@, Task("applied", n, 0))]
             /\ seen' = {x \in seen : x[1] > LibOf(n)} /\ refused' = refused \ {n}
    <2>1. head' \in 1..Best /\ head <= head' /\ refused' \in SUBSET (1..Best)
      BY <1>1, <1>5, <1>8
    <2>2. ConsOK(con', n)
      <3>1. ConsOK(con, n)
        BY <1>1, <1>5, <1>8, LongerChain
      <3>2. PICK type \in {"known", "applied", "rejected"} : type = "applied"
        OBVIOUS
      <3>3. n <= n
        BY <1>5
      <3>4. ConsOK([con EXCEPT ![c].tasks = Append(@, Task(type, n, 0))], n)
        BY <3>1, <3>2, <3>3, BlockPosted
      <3> QED BY <1>8, <3>2, <3>4
    <2>3. Accounted \subseteq Accounted'
      <3>1. SUFFICES ASSUME NEW k \in Accounted PROVE k \in Accounted'
        OBVIOUS
      <3>2. k \in 1..Best /\ (k <= head \/ k \in refused \/ k = n)
        BY <1>1, <1>4 DEF Accounted
      <3>3. k \in Nat
        BY <3>2, BestIs
      <3>4. k <= head' \/ k \in refused'
        BY <1>1, <1>5, <1>8, <3>2, <3>3
      <3> QED BY <3>2, <3>4 DEF Accounted
    <2>4. ConsOK(con', head')
      BY <1>8, <2>2
    <2>5. seen' \in SUBSET (Accounted' \X Conns)
      <3>1. seen' \subseteq seen
        BY <1>8
      <3> QED BY <1>1, <2>3, <3>1
    <2> QED BY <1>6, <1>7, <2>1, <2>3, <2>4, <2>5, InvGrown
  <1>9. CASE /\ refused' = refused \cup {n} /\ head' = head /\ seen' = seen
             /\ con' = [con EXCEPT ![c].tasks = Append(@, Task("rejected", n, 0))]
    <2>1. head' \in 1..Best /\ head <= head' /\ refused' \in SUBSET (1..Best)
      BY <1>1, <1>9
    <2>2. ConsOK(con', head)
      <3>1. PICK type \in {"known", "applied", "rejected"} : type = "rejected"
        OBVIOUS
      <3>2. ConsOK([con EXCEPT ![c].tasks = Append(@, Task(type, n, 0))], head)
        BY <1>1, <3>1, BlockPosted
      <3> QED BY <1>9, <3>1, <3>2
    <2>3. Accounted \subseteq Accounted'
      BY <1>1, <1>4, <1>9 DEF Accounted
    <2>4. ConsOK(con', head')
      BY <1>9, <2>2
    <2>5. seen' \in SUBSET (Accounted' \X Conns)
      BY <1>1, <1>9, <2>3
    <2> QED BY <1>6, <1>7, <2>1, <2>3, <2>4, <2>5, InvGrown
  <1> QED BY <1>3, <1>4, <1>8, <1>9 DEF AcceptBlock

\* sync_timeout
LEMMA TimeoutOK ==
    ASSUME Inv, NEW c \in Conns, Timeout(c)
    PROVE  Inv'
  <1>1. /\ head \in 1..Best /\ s \in Sync(head, Reach) /\ Nexts(head, Reach) /\ ConsOK(con, head)
        /\ app \in Seq(Conns \X (1..Best)) /\ faults \in 0..MaxFaults
    BY ReachIs DEF Inv
  <1>2. PICK cn : cn = [con EXCEPT ![c].timer = FALSE]
    OBVIOUS
  <1>3. ConsOK(cn, head)
    BY <1>1, <1>2, ConsFields
  <1>4. PICK d : d = CancelSent(cn, c)
    OBVIOUS
  <1>5. ConsOK(d, head)
    BY <1>1, <1>3, <1>4, CancelSentOK
  <1>6. PICK r : r = ReassignFetch(s, head, d, c)
    OBVIOUS
  <1>7. r.s \in Sync(head, Reach)
    BY <1>1, <1>6, ReassignFetchOK
  <1>8. IF s.source # c THEN s' = s /\ con' = cn ELSE Result(r, d, c)
    BY <1>2, <1>4, <1>6 DEF Timeout
  <1>9. s' \in Sync(head, Reach) /\ ConsOK(con', head)
    BY <1>1, <1>3, <1>5, <1>7, <1>8, ResultOK
  <1>10. faults' \in 0..MaxFaults
    BY <1>1, PeerSyncAssumption DEF Timeout
  <1>11. chain' = chain /\ app' = app /\ seen' = seen
    BY DEF Timeout
  <1> QED BY <1>9, <1>10, <1>11, InvKept

\* check_heartbeat
LEMMA HeartbeatOK ==
    ASSUME Inv, NEW c \in Conns, Heartbeat(c)
    PROVE  Inv'
  <1>1. head \in 1..Best /\ s \in Sync(head, Reach) /\ Nexts(head, Reach) /\ ConsOK(con, head)
    BY ReachIs DEF Inv
  <1>2. ConsOK(Posted(con, c, Handshake), head)
    BY <1>1, PlainTasks, PostedOK
  <1> QED BY <1>1, <1>2, InvKept DEF Heartbeat

\* connect
LEMMA ConnectOK ==
    ASSUME Inv, NEW c \in Conns, Connect(c)
    PROVE  Inv'
  <1>1. head \in 1..Best /\ s \in Sync(head, Reach) /\ Nexts(head, Reach) /\ ConsOK(con, head)
    BY ReachIs DEF Inv
  <1>2. PICK d : d = Posted(con, c, Handshake)
    OBVIOUS
  <1>3. ConsOK(d, head)
    BY <1>1, <1>2, PlainTasks, PostedOK
  <1>4. ConsOK([d EXCEPT ![c].status = "connecting"], head)
    BY <1>3, ConsFields
  <1> QED BY <1>1, <1>2, <1>4, InvKept DEF Connect

\* A connection breaks.
LEMMA DisconnectOK ==
    ASSUME Inv, NEW c \in Conns, Disconnect(c)
    PROVE  Inv'
  <1>1. /\ head \in 1..Best /\ s \in Sync(head, Reach) /\ Nexts(head, Reach) /\ ConsOK(con, head)
        /\ app \in Seq(Conns \X (1..Best)) /\ faults \in 0..MaxFaults
    BY ReachIs DEF Inv
  <1>2. ConsOK(con', head)
    BY <1>1, PlainTasks, PostedOK DEF Disconnect
  <1>3. faults' \in 0..MaxFaults
    BY <1>1, PeerSyncAssumption DEF Disconnect
  <1>4. chain' = chain /\ app' = app /\ seen' = seen /\ s' = s
    BY DEF Disconnect
  <1> QED BY <1>1, <1>2, <1>3, <1>4, InvKept

\* enqueue_sync_block of a peer
LEMMA PeerSendsOK ==
    ASSUME Inv, NEW c \in Conns, NEW has \in BOOLEAN, PeerSends(c, has)
    PROVE  Inv'
  <1>1. /\ head \in 1..Best /\ s \in Sync(head, Reach) /\ Nexts(head, Reach) /\ ConsOK(con, head)
        /\ app \in Seq(Conns \X (1..Best)) /\ faults \in 0..MaxFaults
    BY ReachIs DEF Inv
  <1>2. PICK a \in con[c].asked :
           /\ faults' = IF has = (a[1] + 1 <= PeerHead[c]) THEN faults ELSE faults + 1
           /\ has => a[1] + 1 <= PeerHead[c]
           /\ con' = [con EXCEPT
                 ![c].asked = IF a[1] + 1 = a[2] THEN {} ELSE {<<a[1] + 1, a[2]>>},
                 ![c].inbox = Append(@, IF has THEN Message("block", a[1] + 1)
                                        ELSE Message("handshake", 0))]
    BY DEF PeerSends
  <1>3. PICK n : n = a[1] + 1
    OBVIOUS
  <1>4. PICK end : end = a[2]
    OBVIOUS
  <1>5. n \in 1..Best /\ end \in 1..Best /\ n <= end
    <2>1. a[1] \in Nat /\ a[2] \in Nat /\ a[1] < a[2] /\ a[2] <= Best /\ Best \in Nat
      BY <1>1, <1>2, ConnTypes, AskedIs, BestIs
    <2> HIDE DEF Best
    <2> QED BY <1>3, <1>4, <2>1
  <1>6. PICK A : A = IF n = end THEN {} ELSE {<<n, end>>}
    OBVIOUS
  <1>7. A \in SUBSET Asked
    <2>1. n \in 0..Best /\ end \in 0..Best /\ (n # end => n < end)
      BY <1>5, BestIs
    <2> QED BY <1>6, <2>1, AskedIs
  <1>8. PICK m : m = IF has THEN Message("block", n) ELSE Message("handshake", 0)
    OBVIOUS
  <1>9. m \in Messages
    <2>1. n \in Num
      BY <1>1, <1>5, NumIs, BestIs
    <2>2. Message("block", n) \in Messages
      BY <1>5, <2>1 DEF Message, Messages
    <2> QED BY <1>8, <2>2, PlainMessages
  <1>10. PICK q : q = Append(con[c].inbox, m)
    OBVIOUS
  <1>11. q \in Seq(Messages)
    BY <1>1, <1>9, <1>10, ConnTypes, AppendProperties
  <1>12. PICK d : d = [con EXCEPT ![c].asked = A]
    OBVIOUS
  <1>13. ConsOK(d, head)
    BY <1>1, <1>7, <1>12, ConsFields
  <1>14. ConsOK([d EXCEPT ![c].inbox = q], head)
    BY <1>11, <1>13, ConsFields
  <1>15. d[c].inbox = con[c].inbox
    <2>1. d[c] = [con[c] EXCEPT !.asked = A]
      BY <1>1, <1>12 DEF ConsOK
    <2>2. con[c] \in Conn(c, head)
      BY <1>1 DEF ConsOK
    <2> QED BY <2>1, <2>2 DEF Conn
  <1>16. con' = [d EXCEPT ![c].inbox = q]
    <2>1. con' = [con EXCEPT ![c].asked = A, ![c].inbox = Append(@, m)]
      BY <1>2, <1>3, <1>4, <1>6, <1>8
    <2> QED BY <2>1, <1>10, <1>12, <1>15
  <1>17. faults' \in 0..MaxFaults
    <2>1. faults' <= MaxFaults
      BY DEF PeerSends
    <2>2. faults' = faults \/ faults' = faults + 1
      BY <1>2
    <2> QED BY <1>1, <2>1, <2>2, PeerSyncAssumption
  <1>18. chain' = chain /\ app' = app /\ seen' = seen /\ s' = s
    BY DEF PeerSends
  <1> QED BY <1>1, <1>14, <1>16, <1>17, <1>18, InvKept

\* A peer announces its newest block.
LEMMA PeerAnnouncesOK ==
    ASSUME Inv, NEW c \in Conns, PeerAnnounces(c)
    PROVE  Inv'
  <1>1. /\ head \in 1..Best /\ s \in Sync(head, Reach) /\ Nexts(head, Reach) /\ ConsOK(con, head)
        /\ app \in Seq(Conns \X (1..Best)) /\ faults \in 0..MaxFaults
    BY ReachIs DEF Inv
  <1>2. PICK q : q = Append(con[c].inbox, Message("block", PeerHead[c]))
    OBVIOUS
  <1>3. q \in Seq(Messages)
    <2>1. PeerHead[c] \in 1..Best
      BY BestIs
    <2>2. PeerHead[c] \in Num
      BY <1>1, <2>1, NumIs, BestIs
    <2>3. Message("block", PeerHead[c]) \in Messages
      BY <2>1, <2>2 DEF Message, Messages
    <2> QED BY <1>1, <1>2, <2>3, ConnTypes, AppendProperties
  <1>4. ConsOK([con EXCEPT ![c].inbox = q], head)
    BY <1>1, <1>3, ConsFields
  <1>5. ConsOK(con', head)
    BY <1>2, <1>4 DEF PeerAnnounces
  <1>6. faults' \in 0..MaxFaults
    BY <1>1, PeerSyncAssumption DEF PeerAnnounces
  <1>7. chain' = chain /\ app' = app /\ seen' = seen /\ s' = s
    BY DEF PeerAnnounces
  <1> QED BY <1>1, <1>5, <1>6, <1>7, InvKept

-----------------------------------------------------------------------------
(* The theorems *)

\* A node with one block and no connection
LEMMA InitInv == Init => Inv
  <1>1. SUFFICES ASSUME Init PROVE Inv
    OBVIOUS
  <1>2. 1 \in 1..Best
    BY BestIs
  <1>3. head \in 1..Best
    BY <1>1, <1>2 DEF Init
  <1>4. s \in Sync(head, Reach)
    <2>1. 0 \in 0..TopLib(head) /\ 0 \in 0..Best /\ 1 \in Reach
      <3>1. 1 \in 1..head + 1
        BY <1>3, NumIs
      <3> QED BY <1>3, <3>1, TopLibIs, BestIs, ReachIs DEF Nexts
    <2> QED BY <1>1, <2>1 DEF Init, NewSyncManager, Sync
  <1>5. ConsOK(con, head)
    <2>1. ASSUME NEW c \in Conns PROVE Closed \in Conn(c, head)
      <3>1. 0 \in Num /\ <<>> \in Seq(Tasks(head)) /\ <<>> \in Seq(Messages)
        BY <1>3, NumIs, EmptySeq
      <3> QED BY <3>1 DEF Closed, Conn
    <2> QED BY <1>1, <2>1 DEF Init, ConsOK
  <1>6. app \in Seq(Conns \X (1..Best)) /\ faults \in 0..MaxFaults
    BY <1>1, EmptySeq, PeerSyncAssumption DEF Init
  <1>7. /\ busy \in BOOLEAN /\ ~busy /\ seen \in SUBSET (Accounted \X Conns)
        /\ refused \in SUBSET (1..Best)
    BY <1>1 DEF Init
  <1> QED BY <1>3, <1>4, <1>5, <1>6, <1>7 DEF Inv

\* Every step keeps the invariant.
LEMMA InvStep == Inv /\ [Next]_vars => Inv'
  <1>1. SUFFICES ASSUME Inv, [Next]_vars PROVE Inv'
    OBVIOUS
  <1>2. CASE Act
    BY <1>1, <1>2, ActOK
  <1>3. CASE BeginBlock \/ AcceptBlock
    BY <1>1, <1>3, BeginBlockOK, AcceptBlockOK
  <1>4. ASSUME NEW c \in Conns, Strand(c) PROVE Inv'
    BY <1>1, <1>4, RunHandshakeOK, RunRequestOK, RunCloseOK, RunRecvOK, RunRejectedOK,
       RunHeadCatchupOK, RecvHandshakeOK, RecvLibNoticeOK, RecvCatchUpNoticeOK, RecvGoAwayOK,
       RecvKnownBlockOK, RecvNewBlockOK DEF Strand
  <1>5. ASSUME NEW c \in Conns,
               \/ Timeout(c) \/ Heartbeat(c) \/ Connect(c) \/ Disconnect(c) \/ PeerAnnounces(c)
               \/ \E has \in BOOLEAN : PeerSends(c, has)
        PROVE  Inv'
    BY <1>1, <1>5, TimeoutOK, HeartbeatOK, ConnectOK, DisconnectOK, PeerAnnouncesOK, PeerSendsOK
  <1>6. CASE UNCHANGED vars
    <2>1. /\ chain' = chain /\ app' = app /\ seen' = seen /\ faults' = faults /\ s' = s
          /\ con' = con
      BY <1>6 DEF vars, chain
    <2>2. s' \in Sync(head, Reach) /\ ConsOK(con', head)
      BY <1>1, <2>1 DEF Inv
    <2> QED BY <1>1, <2>1, <2>2, InvKept
  <1> QED BY <1>1, <1>2, <1>3, <1>4, <1>5, <1>6 DEF Next

\* The invariant is strong enough for Consistent.
LEMMA InvConsistent == Inv => Consistent
  <1>1. SUFFICES ASSUME Inv PROVE Consistent
    OBVIOUS
  <1>2. /\ head \in 1..Best /\ s \in Sync(head, Reach) /\ Nexts(head, Reach)
        /\ ConsOK(con, head) /\ app \in Seq(Conns \X (1..Best)) /\ faults \in 0..MaxFaults
        /\ seen \in SUBSET (Accounted \X Conns) /\ refused \in SUBSET (1..Best)
    BY <1>1, ReachIs DEF Inv
  <1>3. NoGap
    <2>1. SUFFICES ASSUME NEW n \in head + 1..s.nextExp - 1
                   PROVE  n \in refused \/ (busy /\ app[1][2] = n)
      BY DEF NoGap
    <2>2. s.nextExp \in Reach /\ s.nextExp \in Nat /\ head \in Nat /\ 1 <= head
      BY <1>2, SyncTypes, BestIs
    <2>3. n \in 1..s.nextExp - 1 /\ ~(n <= head)
      BY <2>2
    <2>4. n \in Accounted
      BY <2>2, <2>3 DEF Reach
    <2> QED BY <2>3, <2>4 DEF Accounted
  <1>4. s \in SyncStates(Num, 0..TopLib(head))
    <2>1. 0..Best \subseteq Num /\ Reach \subseteq Num
      <3>1. Best \in Nat /\ Span \in Nat \ {0}
        BY BestIs, SyncManagerAssumption
      <3>2. Reach \subseteq 1..Best + 1
        BY DEF Reach
      <3> HIDE DEF Best, Reach
      <3> QED BY <3>1, <3>2 DEF Num
    <2> QED BY <1>2, <2>1 DEF Sync, SyncStates
  <1>5. con \in [Conns -> Connections]
    <2>1. ASSUME NEW c \in Conns PROVE con[c] \in Connections
      <3>1. con[c] \in Conn(c, head)
        BY <1>2 DEF ConsOK
      <3>2. 0 \in Num /\ PeerLib[c] \in Num
        BY <1>2, NumIs, BestIs
      <3>3. con[c].tasks \in
              Seq([type : {"handshake", "request", "close", "applied", "known", "rejected",
                           "head_catchup"}, from : Num, to : Num])
        <4>1. con[c].tasks \in Seq(Tasks(head))
          BY <3>1 DEF Conn
        <4>2. Tasks(head) \subseteq
                 [type : {"handshake", "request", "close", "applied", "known", "rejected",
                          "head_catchup"}, from : Num, to : Num]
          BY DEF Tasks
        <4> QED BY <4>1, <4>2, SeqMonotonic
      <3>4. con[c].inbox \in
              Seq([type : {"handshake", "lib", "catch_up", "go_away", "block"}, num : Num])
        <4>1. con[c].inbox \in Seq(Messages)
          BY <3>1 DEF Conn
        <4>2. Messages \subseteq
                 [type : {"handshake", "lib", "catch_up", "go_away", "block"}, num : Num]
          BY DEF Messages
        <4> QED BY <4>1, <4>2, SeqMonotonic
      <3>5. con[c].asked \in SUBSET (Num \X Num)
        BY <3>1 DEF Conn, Asked
      <3> QED BY <3>1, <3>2, <3>3, <3>4, <3>5 DEF Conn, Connections
    <2> QED BY <1>2, <2>1 DEF ConsOK
  <1>6. app \in Seq(Conns \X Num)
    <2>1. Conns \X (1..Best) \subseteq Conns \X Num
      BY <1>2, NumIs, BestIs
    <2> QED BY <1>2, <2>1, SeqMonotonic
  <1>7. seen \subseteq Num \X Conns /\ refused \subseteq Num
    <2>1. 1..Best \subseteq Num /\ Accounted \subseteq 1..Best
      BY <1>2, NumIs, BestIs DEF Accounted
    <2> HIDE DEF Num, Accounted, Best
    <2> QED BY <1>2, <2>1
  <1>8. busy \in BOOLEAN /\ (busy => app # <<>>)
    BY <1>1 DEF Inv
  <1> QED BY <1>2, <1>3, <1>4, <1>5, <1>6, <1>7, <1>8 DEF Consistent, TypeOK, TopLib, Lib

\* Whatever the peers send, in whatever order, and whichever connection breaks or times out
\* between the steps of a transition, the node asks for no block beyond the best peer's
\* and leaves out none but one that it is about to apply or that it has refused, as
\* another strand takes what the dispatcher knows for received.
THEOREM SyncConsistent == Spec => []Consistent
  <1>1. Spec => []Inv
    BY InitInv, InvStep, PTL DEF Spec
  <1> QED BY <1>1, InvConsistent, PTL
=============================================================================
