-------------------------- MODULE ControllerLemmas --------------------------
(***************************************************************************)
(* Facts about block trees, about the operations of the fork database and  *)
(* about those of the controller, for every block tree and every set of    *)
(* bad blocks.  The proofs about the specifications that are built from    *)
(* them cite these lemmas.                                                 *)
(*                                                                         *)
(* A fork database is well formed (FdbOK) when it is typed, Rooted,        *)
(* BestHead and ValidOnValid.  None of them is kept alone: that            *)
(* advance_root may not drop the head needs Rooted (the head descends from *)
(* the new root) and BestHead (the head is not the old root), Rooted of    *)
(* the result of remove_head needs that the head has no child, and so on.  *)
(* After some restarts ValidOnValid is lost; what does without it is       *)
(* stated for FdbWell.                                                     *)
(*                                                                         *)
(* A branch is Above(a, b): what is above block a on the branch of b.  All *)
(* the sets of blocks that the controller applies, pops, logs or gives up  *)
(* are such sets or prefixes of them, so each step moves the head from one *)
(* block of a branch to another (PopToSound, ApplyBlocksSound, AppliedIs). *)
(* Sound holds between any two steps of a handler, ControllerOK between    *)
(* two handlers of a node that only receives blocks, Leading between two   *)
(* handlers of one that produces.  Choosing is what is known when          *)
(* maybe_switch_forks is called: that only the block just added can be     *)
(* preferred over the head.  PushBlockOK and PushLeading put the steps     *)
(* together.                                                               *)
(*                                                                         *)
(* Induction along a branch is either over a closed set of blocks          *)
(* (AncInduction) or by the least number at which a claim fails            *)
(* (LeastNatural).                                                         *)
(***************************************************************************)
EXTENDS Controller, FiniteSetTheorems, WellFoundedInduction, TLAPS

-----------------------------------------------------------------------------
(* Least and greatest numbers.  The first is used in place of induction. *)

\* A set of natural numbers has a least element.
LEMMA LeastNatural ==
    ASSUME NEW T \in SUBSET Nat, T # {}
    PROVE  \E x \in T : \A y \in T : x <= y
  <1> DEFINE R == {ss \in Nat \X Nat : ss[1] < ss[2]}
  <1>1. IsWellFoundedOn(R, Nat)
    BY NatLessThanWellFounded DEF OpToRel
  <1>2. PICK x \in T : \A y \in T : ~(<<y, x>> \in R)
    <2> HIDE DEF R
    <2> QED BY <1>1, WFMin
  <1>3. \A y \in T : ~(y < x)
    BY <1>2
  <1>4. QED BY <1>3

\* A finite set of natural numbers has a greatest element.
LEMMA GreatestNatural ==
    ASSUME NEW T \in SUBSET Nat, T # {}, IsFiniteSet(T)
    PROVE  \E x \in T : \A y \in T : y <= x
  <1> DEFINE Has(S) == \E x \in S : \A y \in S : y <= x
             Fails == {n \in Nat : \E S \in SUBSET Nat :
                          S # {} /\ IsFiniteSet(S) /\ Cardinality(S) = n /\ ~Has(S)}
  <1>1. SUFFICES ASSUME ~Has(T) PROVE FALSE
    OBVIOUS
  <1>2. Cardinality(T) \in Fails
    BY <1>1, FS_CardinalityType
  <1>3. PICK n \in Fails : \A m \in Fails : n <= m
    <2> HIDE DEF Fails
    <2>1. Fails \in SUBSET Nat
      BY DEF Fails
    <2> QED BY <1>2, <2>1, LeastNatural
  <1>4. PICK S \in SUBSET Nat : S # {} /\ IsFiniteSet(S) /\ Cardinality(S) = n /\ ~Has(S)
    BY <1>3
  <1>5. PICK s \in S : TRUE
    BY <1>4
  <1>6. PICK U : U = S \ {s}
    OBVIOUS
  <1>7. U \in SUBSET Nat /\ IsFiniteSet(U) /\ Cardinality(U) = n - 1
    BY <1>4, <1>5, <1>6, FS_RemoveElement
  <1>8. U # {}
    BY <1>4, <1>5, <1>6
  <1>9. Cardinality(U) \in Nat
    BY <1>7, FS_CardinalityType
  <1>10. Has(U)
    <2>1. n - 1 \notin Fails
      BY <1>3
    <2> QED BY <2>1, <1>7, <1>8, <1>9
  <1>11. PICK u \in U : \A y \in U : y <= u
    BY <1>10
  <1>12. CASE u <= s
    BY <1>12, <1>4, <1>5, <1>6, <1>7, <1>11
  <1>13. CASE ~(u <= s)
    BY <1>13, <1>4, <1>5, <1>6, <1>7, <1>11
  <1> QED BY <1>12, <1>13

-----------------------------------------------------------------------------
(* The orders. *)

\* Block numbers are natural numbers (the part of the assumption that the
\* arithmetic of the proofs uses).
LEMMA Numbers == \A b \in Block : Num[b] \in Nat /\ Lib[b] \in Nat
  BY BlockTreeAssumption

\* FirstPreferred (first_preferred) is a strict weak order: irreflexive,
\* transitive, and so is the relation "not preferred over".
LEMMA FirstPreferredOrder ==
    ASSUME NEW a \in Block, NEW b \in Block, NEW c \in Block
    PROVE  /\ ~FirstPreferred(a, a)
           /\ FirstPreferred(a, b) => ~FirstPreferred(b, a)
           /\ FirstPreferred(a, b) /\ FirstPreferred(b, c) => FirstPreferred(a, c)
           /\ ~FirstPreferred(a, b) /\ ~FirstPreferred(b, c) => ~FirstPreferred(a, c)
  <1>1. /\ Num[a] \in Nat /\ Num[b] \in Nat /\ Num[c] \in Nat
        /\ Lib[a] \in Nat /\ Lib[b] \in Nat /\ Lib[c] \in Nat
    BY BlockTreeAssumption
  <1>2. QED BY <1>1 DEF FirstPreferred

\* IndexBefore (the by_lib_block_num order) is a strict total order.
LEMMA IndexBeforeOrder ==
    ASSUME NEW a \in Block, NEW b \in Block, NEW c \in Block
    PROVE  /\ a = b \/ IndexBefore(a, b) \/ IndexBefore(b, a)
           /\ IndexBefore(a, b) => a # b /\ ~IndexBefore(b, a)
           /\ IndexBefore(a, b) /\ IndexBefore(b, c) => IndexBefore(a, c)
           /\ IndexBefore(a, b) => ~FirstPreferred(b, a)
  <1>1. /\ Num[a] \in Nat /\ Num[b] \in Nat /\ Num[c] \in Nat
        /\ Lib[a] \in Nat /\ Lib[b] \in Nat /\ Lib[c] \in Nat
        /\ a \in Nat /\ b \in Nat /\ c \in Nat
    BY BlockTreeAssumption
  <1>2. QED BY <1>1 DEF IndexBefore, FirstPreferred

\* Every non-empty set of blocks has a first element in the index order.
LEMMA FirstExists ==
    ASSUME NEW S \in SUBSET Block, S # {}
    PROVE  \E b \in S : \A c \in S \ {b} : IndexBefore(b, c)
  <1> DEFINE HasFirst(U) == \E b \in U : \A c \in U \ {b} : IndexBefore(b, c)
             T == {U \in FiniteSubsetsOf(Block) : U # {} /\ ~HasFirst(U)}
             R == StrictSubsetOrdering(Block)
  <1>1. \A U \in SUBSET Block : U \in FiniteSubsetsOf(Block)
    BY BlockTreeAssumption, FS_Subset DEF FiniteSubsetsOf
  <1>2. SUFFICES ASSUME ~HasFirst(S) PROVE FALSE
    OBVIOUS
  <1>3. IsWellFoundedOn(R, FiniteSubsetsOf(Block))
    BY FS_StrictSubsetOrderingWellFounded
  <1>4. T \subseteq FiniteSubsetsOf(Block) /\ T # {}
    BY <1>1, <1>2
  <1>5. \E U \in T : \A V \in T : ~(<<V, U>> \in R)
    <2> HIDE DEF T, R
    <2> QED BY <1>3, <1>4, WFMin
  <1>6. PICK U \in T : \A V \in T : ~(<<V, U>> \in R)
    BY <1>5
  <1>7. U \in SUBSET Block /\ U # {} /\ ~HasFirst(U)
    BY DEF FiniteSubsetsOf
  <1>8. PICK u \in U : TRUE
    BY <1>7
  <1>9. U \ {u} # {}
    BY <1>7, <1>8
  <1>10. HasFirst(U \ {u})
    <2>1. U \ {u} \in SUBSET Block /\ U \ {u} \subseteq U /\ U \ {u} # U
      BY <1>7, <1>8
    <2>2. <<U \ {u}, U>> \in R
      BY <2>1, <1>7 DEF StrictSubsetOrdering
    <2>3. U \ {u} \notin T
      BY <2>2, <1>6
    <2> QED BY <2>1, <2>3, <1>1, <1>9
  <1>11. PICK v \in U \ {u} : \A c \in (U \ {u}) \ {v} : IndexBefore(v, c)
    BY <1>10
  <1>12. u \in Block /\ v \in Block /\ u # v
    BY <1>7, <1>8, <1>11
  <1>13. CASE IndexBefore(v, u)
    BY <1>13, <1>11, <1>12, <1>7
  <1>14. CASE IndexBefore(u, v)
    <2>1. \A c \in U \ {u} : IndexBefore(u, c)
      BY <1>14, <1>11, <1>12, <1>7, IndexBeforeOrder
    <2> QED BY <2>1, <1>7, <1>8
  <1>15. QED
    BY <1>12, <1>13, <1>14, IndexBeforeOrder

\* What FirstInIndex returns: a member that nothing else is preferred over.
LEMMA FirstInIndexIsFirst ==
    ASSUME NEW S \in SUBSET Block, S # {}
    PROVE  /\ FirstInIndex(S) \in S
           /\ \A c \in S \ {FirstInIndex(S)} : IndexBefore(FirstInIndex(S), c)
           /\ \A c \in S : ~FirstPreferred(c, FirstInIndex(S))
  <1>1. /\ FirstInIndex(S) \in S
        /\ \A c \in S \ {FirstInIndex(S)} : IndexBefore(FirstInIndex(S), c)
    BY FirstExists DEF FirstInIndex
  <1>2. \A c \in S : ~FirstPreferred(c, FirstInIndex(S))
    BY <1>1, IndexBeforeOrder, FirstPreferredOrder
  <1>3. QED BY <1>1, <1>2

-----------------------------------------------------------------------------
(* Ancestors. *)

\* The use of Anc's definition as an induction principle: a PrevClosed set
\* that contains b contains every ancestor of b.
LEMMA AncInduction ==
    ASSUME NEW b \in Block, NEW C \in SUBSET Block, b \in C, PrevClosed(C)
    PROVE  Anc[b] \subseteq C
  BY DEF Anc

\* Anc[b] contains b, is PrevClosed and lies in Block.
LEMMA AncBasic ==
    ASSUME NEW b \in Block
    PROVE  /\ Anc[b] \in SUBSET Block
           /\ b \in Anc[b]
           /\ PrevClosed(Anc[b])
  <1>1. Anc[b] \in SUBSET Block /\ b \in Anc[b]
    BY DEF Anc
  <1>2. ASSUME NEW x \in Anc[b] \ {Genesis} PROVE Prev[x] \in Anc[b]
    <2>1. x \in Block \ {Genesis} /\ Prev[x] \in Block
      BY <1>1, BlockTreeAssumption
    <2>2. ASSUME NEW C \in SUBSET Block, b \in C, PrevClosed(C) PROVE Prev[x] \in C
      BY <2>2, AncInduction DEF PrevClosed
    <2> QED BY <2>1, <2>2 DEF Anc
  <1>3. QED BY <1>1, <1>2 DEF PrevClosed

\* Ancestry is transitive.
LEMMA AncTransitive ==
    ASSUME NEW b \in Block, NEW a \in Anc[b]
    PROVE  a \in Block /\ Anc[a] \subseteq Anc[b]
  <1>1. a \in Block
    BY AncBasic
  <1>2. QED
    BY <1>1, AncBasic, AncInduction

\* The ancestors of a block are the block and the ancestors of its previous.
LEMMA AncStep ==
    ASSUME NEW b \in Block \ {Genesis}
    PROVE  Prev[b] \in Block /\ Anc[b] = {b} \cup Anc[Prev[b]]
  <1>1. Prev[b] \in Block
    BY BlockTreeAssumption
  <1>2. Prev[b] \in Anc[b]
    BY AncBasic DEF PrevClosed
  <1>3. Anc[Prev[b]] \subseteq Anc[b]
    BY <1>2, AncTransitive
  <1>4. {b} \cup Anc[Prev[b]] \in SUBSET Block
    BY <1>1, AncBasic
  <1>5. PrevClosed({b} \cup Anc[Prev[b]])
    BY <1>1, AncBasic DEF PrevClosed
  <1>6. Anc[b] \subseteq {b} \cup Anc[Prev[b]]
    BY <1>4, <1>5, AncInduction
  <1>7. QED BY <1>1, <1>3, <1>6, AncBasic

\* Along a branch block numbers grow and dpos_irreversible_blocknum does not
\* shrink, so a block is preferred over its proper ancestors.
LEMMA AncNumbers ==
    ASSUME NEW b \in Block, NEW a \in Anc[b]
    PROVE  /\ a \in Block
           /\ Lib[a] <= Lib[b]
           /\ Num[a] <= Num[b]
           /\ a = b \/ Num[a] < Num[b]
           /\ a = b \/ FirstPreferred(b, a)
  <1> DEFINE C == {x \in Block : Lib[x] <= Lib[b] /\ (x = b \/ Num[x] < Num[b])}
  <1>1. Num \in [Block -> Nat] /\ Lib \in [Block -> Nat]
    BY BlockTreeAssumption
  <1>2. C \in SUBSET Block /\ b \in C
    BY <1>1
  <1>3. ASSUME NEW x \in C \ {Genesis} PROVE Prev[x] \in C
    <2>1. x \in Block \ {Genesis} /\ Prev[x] \in Block
      BY BlockTreeAssumption
    <2>2. Num[x] = Num[Prev[x]] + 1 /\ Lib[Prev[x]] <= Lib[x]
      BY <2>1, BlockTreeAssumption
    <2> QED BY <2>1, <2>2, <1>1
  <1>4. PrevClosed(C)
    BY <1>3 DEF PrevClosed
  <1>5. a \in C
    <2> HIDE DEF C
    <2> QED BY <1>2, <1>4, AncInduction
  <1>6. QED BY <1>1, <1>5 DEF FirstPreferred

\* Two ancestors of one block are ancestors of one another.
LEMMA AncChain ==
    ASSUME NEW b \in Block, NEW a \in Anc[b], NEW c \in Anc[b]
    PROVE  a \in Anc[c] \/ c \in Anc[a]
  <1> DEFINE C == {x \in Block : x \in Anc[c] \/ c \in Anc[x]}
  <1>1. a \in Block /\ c \in Block
    BY AncBasic
  <1>2. C \in SUBSET Block /\ b \in C
    OBVIOUS
  <1>3. ASSUME NEW x \in C \ {Genesis} PROVE Prev[x] \in C
    <2>1. x \in Block \ {Genesis} /\ Prev[x] \in Block /\ Anc[x] = {x} \cup Anc[Prev[x]]
      BY AncStep
    <2>2. CASE x \in Anc[c]
      BY <2>1, <2>2, <1>1, AncBasic DEF PrevClosed
    <2>3. CASE x \notin Anc[c]
      <3>1. x # c /\ c \in Anc[x]
        BY <2>3, <1>1, AncBasic
      <3> QED BY <3>1, <2>1
    <2> QED BY <2>2, <2>3
  <1>4. PrevClosed(C)
    BY <1>3 DEF PrevClosed
  <1>5. a \in C
    <2> HIDE DEF C
    <2> QED BY <1>2, <1>4, AncInduction
  <1>6. QED BY <1>5

-----------------------------------------------------------------------------
(* Well-formed databases *)

FdbOK(fd) == fd \in ForkDb /\ Rooted(fd) /\ BestHead(fd) /\ ValidOnValid(fd)

\* What is left of it when blocks were executed on the state of another block: after some
\* restarts a block is validated on one that is not.
FdbWell(fd) == fd \in ForkDb /\ Rooted(fd) /\ BestHead(fd)

\* FdbOK is FdbWell and ValidOnValid.
LEMMA OKIsWell ==
    ASSUME NEW fd, FdbOK(fd)
    PROVE  FdbWell(fd)
  BY DEF FdbOK, FdbWell

-----------------------------------------------------------------------------
\* A block of the index is preferred over the root it descends from.
LEMMA IndexAboveRoot ==
    ASSUME NEW fd \in ForkDb, Rooted(fd), NEW b \in fd.index
    PROVE  /\ b \in Block \ {Genesis}
           /\ fd.root \in Block
           /\ b # fd.root
           /\ Num[fd.root] < Num[b]
           /\ FirstPreferred(b, fd.root)
  <1>1. fd.root \in Block /\ b \in Block
    BY DEF ForkDb
  <1>2. b # Genesis /\ b # fd.root /\ fd.root \in Anc[b]
    BY DEF Rooted
  <1>3. QED BY <1>1, <1>2, AncNumbers

\* While the root is the head nothing above it is validated.
LEMMA RootHeadMeansNoneValid ==
    ASSUME NEW fd, FdbWell(fd), fd.head = fd.root
    PROVE  fd.valid = {}
  BY IndexAboveRoot DEF FdbWell, BestHead

\* Every ancestor of a block of the index that lies above the root is in the
\* index: the walks of advance_root and fetch_branch_from never miss a block.
LEMMA BranchInIndex ==
    ASSUME NEW fd \in ForkDb, Rooted(fd), NEW x \in fd.index, NEW y \in Anc[x],
           fd.root \in Anc[y], y # fd.root
    PROVE  y \in fd.index
  <1> DEFINE C == {a \in Block : a \in fd.index \/ a \in Anc[fd.root]}
  <1>1. fd.root \in Block /\ x \in Block /\ fd.index \in SUBSET Block
    BY DEF ForkDb
  <1>2. y \in Block
    BY <1>1, AncBasic
  <1>3. C \in SUBSET Block /\ x \in C
    BY <1>1
  <1>4. ASSUME NEW a \in C \ {Genesis} PROVE Prev[a] \in C
    <2>1. a \in Block \ {Genesis} /\ Prev[a] \in Block
      BY BlockTreeAssumption
    <2>2. CASE a \in fd.index
      BY <2>1, <2>2, <1>1, AncBasic DEF Rooted, Known
    <2>3. CASE a \in Anc[fd.root]
      BY <2>1, <2>3, <1>1, AncBasic DEF PrevClosed
    <2> QED BY <2>2, <2>3
  <1>5. PrevClosed(C)
    BY <1>4 DEF PrevClosed
  <1>6. y \in C
    <2> HIDE DEF C
    <2> QED BY <1>1, <1>3, <1>5, AncInduction
  <1>7. ASSUME y \in Anc[fd.root] PROVE FALSE
    <2>1. Num[y] < Num[fd.root] /\ Num[fd.root] < Num[y]
      BY <1>1, <1>2, <1>7, AncNumbers
    <2> QED BY <2>1, <1>1, <1>2, Numbers
  <1>8. QED BY <1>6, <1>7

\* In a rooted database DescendantsIn is descent in the block tree.
LEMMA DescendantsInIndex ==
    ASSUME NEW fd \in ForkDb, Rooted(fd), NEW b \in fd.index
    PROVE  DescendantsIn(fd.index, b) = {x \in fd.index : b \in Anc[x]}
  <1>1. b \in Block /\ fd.root \in Block /\ fd.index \in SUBSET Block
    BY DEF ForkDb
  <1>2. fd.index \cup {b} = fd.index
    OBVIOUS
  <1>3. ASSUME NEW x \in fd.index, b \in Anc[x], NEW y \in Anc[x] \ {b}, b \in Anc[y]
        PROVE  y \in fd.index
    <2>1. x \in Block /\ y \in Block
      BY <1>1, AncBasic
    <2>2. fd.root \in Anc[b]
      BY DEF Rooted
    <2>3. fd.root \in Anc[y]
      BY <1>3, <2>1, <2>2, AncTransitive
    <2>4. y # fd.root
      <3>1. SUFFICES ASSUME y = fd.root PROVE FALSE
        OBVIOUS
      <3>2. Num[b] <= Num[fd.root]
        BY <1>3, <3>1, <1>1, AncNumbers
      <3>3. Num[fd.root] < Num[b]
        BY IndexAboveRoot
      <3> QED BY <3>2, <3>3, <1>1, Numbers
    <2> QED BY <2>1, <2>3, <2>4, BranchInIndex
  <1>4. QED BY <1>2, <1>3 DEF DescendantsIn

\* The root moves along the branch of the head and exactly the descendants of
\* the new root stay.
LEMMA AdvanceRootExact ==
    ASSUME NEW fd \in ForkDb, Rooted(fd), NEW b \in fd.index
    PROVE  fd.index \ RemovedByAdvance(fd, b) = {x \in fd.index \ {b} : b \in Anc[x]}
  <1> DEFINE S == fd.index \ {b}
             A == {a \in Anc[b] \ {b} : Num[a] >= Num[fd.root]}
  <1>1. /\ fd \in ForkDb /\ Rooted(fd)
        /\ b \in Block /\ fd.root \in Block /\ fd.index \in SUBSET Block
    BY DEF ForkDb
  <1>2. fd.root \in A
    <2>1. fd.root \in Anc[b] /\ fd.root # b
      BY DEF Rooted
    <2> QED BY <2>1, <1>1, Numbers
  <1>3. ASSUME NEW x \in S, b \notin Anc[x]
        PROVE  x \in DescendantsIn(S, fd.root)
    <2>1. x \in Block /\ fd.root \in Anc[x]
      BY <1>1 DEF Rooted
    <2>2. ASSUME NEW y \in Anc[x] \ {fd.root}, fd.root \in Anc[y] PROVE y \in S
      <3>1. y \in fd.index
        BY <2>2, <1>1, BranchInIndex
      <3>2. y # b
        BY <1>3, <2>2
      <3> QED BY <3>1, <3>2
    <2> QED BY <2>1, <2>2 DEF DescendantsIn
  <1>4. ASSUME NEW x \in S, b \in Anc[x], NEW a \in A
        PROVE  x \notin DescendantsIn(S, a)
    <2>1. a \in Block /\ x \in Block
      BY <1>1, AncBasic
    <2>2. a \in Anc[b] /\ a # b
      OBVIOUS
    <2>3. b \notin S
      OBVIOUS
    <2>4. b \in Anc[x] \ {a}
      BY <2>2, <1>4
    <2> QED BY <2>2, <2>3, <2>4 DEF DescendantsIn
  <1>5. RemovedByAdvance(fd, b) = {b} \cup UNION {DescendantsIn(S, a) : a \in A}
    BY DEF RemovedByAdvance
  <1> HIDE DEF A
  <1>6. ASSUME NEW x \in fd.index
        PROVE  x \in RemovedByAdvance(fd, b) <=> x = b \/ b \notin Anc[x]
    <2>1. CASE x = b
      BY <2>1, <1>5
    <2>2. CASE x # b /\ b \notin Anc[x]
      BY <2>2, <1>2, <1>3, <1>5
    <2>3. CASE x # b /\ b \in Anc[x]
      <3>1. x \in S
        BY <2>3
      <3>2. \A a \in A : x \notin DescendantsIn(S, a)
        BY <2>3, <3>1, <1>4
      <3> HIDE DEF S
      <3> QED BY <2>3, <3>2, <1>5
    <2> QED BY <2>1, <2>2, <2>3
  <1>7. b \in Anc[b]
    BY <1>1, AncBasic
  <1>8. QED BY <1>6, <1>7

-----------------------------------------------------------------------------
(* One lemma per operation. *)

\* fork_database::reset
LEMMA ResetOK ==
    ASSUME NEW b \in Block
    PROVE  FdbOK(ResetTo(b))
  BY DEF FdbOK, ResetTo, ForkDb, Rooted, BestHead, ValidOnValid

\* fork_database_impl::add
LEMMA AddWell ==
    ASSUME NEW fd, FdbWell(fd), NEW b \in Block, CanAdd(fd, b)
    PROVE  /\ FdbWell(Add(fd, b))
           /\ Add(fd, b).root = fd.root /\ Add(fd, b).index = fd.index \cup {b}
           /\ Add(fd, b).valid = fd.valid
  <1> DEFINE new == Add(fd, b)
  <1>1. fd \in ForkDb /\ fd.valid \in SUBSET Block
    BY DEF FdbWell, ForkDb
  <1>2. /\ new.root = fd.root /\ new.index = fd.index \cup {b}
        /\ new.valid = fd.valid /\ new.head = HeadAfterAdd(fd)
        /\ new \in [root : Block, index : SUBSET Block, valid : SUBSET Block, head : {HeadAfterAdd(fd)}]
    BY <1>1 DEF Add, ForkDb
  <1>3. /\ fd.valid # {} => HeadAfterAdd(fd) \in fd.valid
        /\ fd.valid = {} => HeadAfterAdd(fd) = fd.head
        /\ \A c \in fd.valid : ~FirstPreferred(c, HeadAfterAdd(fd))
    BY <1>1, FirstInIndexIsFirst DEF HeadAfterAdd
  <1>4. HeadAfterAdd(fd) \in Block
    BY <1>1, <1>3 DEF ForkDb
  <1>5. new \in ForkDb
    BY <1>2, <1>4 DEF ForkDb
  <1>6. Rooted(new)
    <2>1. b # Genesis /\ Prev[b] \in fd.index \cup {fd.root}
      BY DEF CanAdd, Known
    <2>2. fd.root \in Anc[Prev[b]] /\ fd.root # b
      <3>1. fd.root \in Anc[Prev[b]]
        BY <2>1, <1>1, AncBasic DEF FdbWell, Rooted, ForkDb
      <3>2. Prev[b] \in Block /\ Num[b] = Num[Prev[b]] + 1
        BY <2>1, BlockTreeAssumption
      <3>3. Num[fd.root] <= Num[Prev[b]]
        BY <3>1, <3>2, AncNumbers
      <3>4. fd.root \in Block
        BY <1>1 DEF ForkDb
      <3> QED BY <3>1, <3>2, <3>3, <3>4, Numbers
    <2>3. fd.root \in Anc[b]
      BY <2>1, <2>2, AncStep
    <2> HIDE DEF new
    <2> QED BY <1>2, <2>1, <2>2, <2>3 DEF FdbWell, Rooted, Known
  <1>7. BestHead(new)
    <2> HIDE DEF new
    <2> QED BY <1>2, <1>3 DEF FdbWell, BestHead
  <1>8. QED BY <1>2, <1>5, <1>6, <1>7 DEF FdbWell

\* add, where validated blocks are on validated ones
LEMMA AddOK ==
    ASSUME NEW fd, FdbOK(fd), NEW b \in Block, CanAdd(fd, b)
    PROVE  FdbOK(Add(fd, b))
  <1>1. FdbWell(fd)
    BY OKIsWell
  <1>2. PICK new : new = Add(fd, b)
    OBVIOUS
  <1>3. FdbWell(new) /\ new.root = fd.root /\ new.valid = fd.valid
    BY <1>1, <1>2, AddWell
  <1>4. ValidOnValid(new)
    BY <1>3 DEF FdbOK, ValidOnValid
  <1> QED BY <1>2, <1>3, <1>4 DEF FdbOK, FdbWell

\* fork_database::mark_valid
LEMMA MarkValidWell ==
    ASSUME NEW fd, FdbWell(fd), NEW b \in fd.index
    PROVE  /\ FdbWell(MarkValid(fd, b))
           /\ MarkValid(fd, b).root = fd.root /\ MarkValid(fd, b).index = fd.index
           /\ MarkValid(fd, b).valid = fd.valid \cup {b}
  <1>1. CASE b \in fd.valid
    BY <1>1 DEF MarkValid
  <1>2. CASE b \notin fd.valid
    <2> DEFINE new == MarkValid(fd, b)
               valid == fd.valid \cup {b}
               first == FirstInIndex(valid)
    <2>1. /\ fd \in ForkDb /\ valid \in SUBSET Block /\ valid # {}
          /\ fd.head \in Block /\ fd.index \in SUBSET Block
          /\ valid \subseteq fd.index
      BY DEF FdbWell, ForkDb, BestHead
    <2>2. /\ first \in valid
          /\ \A c \in valid : ~FirstPreferred(c, first)
      <3> HIDE DEF valid
      <3> QED BY <2>1, FirstInIndexIsFirst
    <2>3. new = [fd EXCEPT !.valid = valid,
                           !.head  = IF FirstPreferred(first, @) THEN first ELSE @]
      BY <1>2 DEF MarkValid
    <2> HIDE DEF first
    <2>4. /\ new.root = fd.root /\ new.index = fd.index /\ new.valid = valid
          /\ new.head = IF FirstPreferred(first, fd.head) THEN first ELSE fd.head
      BY <2>1, <2>3 DEF ForkDb
    <2>5. first \in Block
      BY <2>1, <2>2
    <2>6. new.head \in Block
      BY <2>1, <2>4, <2>5
    <2>7. new \in ForkDb
      BY <2>1, <2>3, <2>5 DEF ForkDb
    <2>8. Rooted(new)
      <3> HIDE DEF new
      <3> QED BY <2>4 DEF FdbWell, Rooted, Known
    <2>9. BestHead(new)
      <3>1. \A c \in valid : ~FirstPreferred(c, new.head)
        <4>1. CASE FirstPreferred(first, fd.head)
          BY <4>1, <2>2, <2>4
        <4>2. CASE ~FirstPreferred(first, fd.head)
          BY <4>2, <2>1, <2>2, <2>4, <2>5, FirstPreferredOrder
        <4> QED BY <4>1, <4>2
      <3>2. new.head = fd.root \/ new.head \in valid
        BY <2>2, <2>4 DEF FdbWell, BestHead
      <3> HIDE DEF new
      <3> QED BY <3>1, <3>2, <2>1, <2>4 DEF BestHead
    <2> QED BY <2>4, <2>7, <2>8, <2>9 DEF FdbWell
  <1>3. QED BY <1>1, <1>2

\* mark_valid, of a block on a validated one
LEMMA MarkValidOK ==
    ASSUME NEW fd, FdbOK(fd), NEW b \in fd.index, Prev[b] \in fd.valid \cup {fd.root}
    PROVE  FdbOK(MarkValid(fd, b))
  <1>1. FdbWell(fd)
    BY OKIsWell
  <1>2. PICK new : new = MarkValid(fd, b)
    OBVIOUS
  <1>3. FdbWell(new) /\ new.root = fd.root /\ new.valid = fd.valid \cup {b}
    BY <1>1, <1>2, MarkValidWell
  <1>4. ValidOnValid(new)
    BY <1>3 DEF FdbOK, ValidOnValid
  <1> QED BY <1>2, <1>3, <1>4 DEF FdbOK, FdbWell

\* fork_database::remove_fork
LEMMA RemoveForkWell ==
    ASSUME NEW fd, FdbWell(fd), NEW b \in fd.index, CanRemoveFork(fd, b)
    PROVE  /\ FdbWell(RemoveFork(fd, b))
           /\ RemoveFork(fd, b).root = fd.root
           /\ RemoveFork(fd, b).index = {x \in fd.index : b \notin Anc[x]}
           /\ RemoveFork(fd, b).valid = {x \in fd.valid : b \notin Anc[x]}
  <1> DEFINE new  == RemoveFork(fd, b)
             gone == {x \in fd.index : b \in Anc[x]}
  <1>1. fd \in ForkDb /\ fd.index \in SUBSET Block
    BY DEF FdbWell, ForkDb
  <1>2. DescendantsIn(fd.index, b) = gone
    BY <1>1, DescendantsInIndex DEF FdbWell
  <1>3. /\ new.root = fd.root /\ new.index = fd.index \ gone
        /\ new.valid = fd.valid \ gone /\ new.head = fd.head
        /\ new \in ForkDb
    BY <1>1, <1>2 DEF RemoveFork, ForkDb
  <1>4. ASSUME NEW x \in fd.index \ gone, Prev[x] \in fd.index
        PROVE  Prev[x] \in fd.index \ gone
    <2>1. x \in Block \ {Genesis}
      BY <1>1 DEF FdbWell, Rooted
    <2>2. Prev[x] \in Block /\ Anc[x] = {x} \cup Anc[Prev[x]]
      BY <2>1, AncStep
    <2> QED BY <1>4, <2>2
  <1>5. Rooted(new)
    <2> HIDE DEF new, gone
    <2> QED BY <1>3, <1>4 DEF FdbWell, Rooted, Known
  <1>6. BestHead(new)
    <2>1. fd.head \notin gone
      BY <1>2 DEF CanRemoveFork
    <2> HIDE DEF new, gone
    <2> QED BY <2>1, <1>3 DEF FdbWell, BestHead
  <1>7. /\ fd.index \ gone = {x \in fd.index : b \notin Anc[x]}
        /\ fd.valid \ gone = {x \in fd.valid : b \notin Anc[x]}
    BY DEF FdbWell, BestHead
  <1>8. QED BY <1>3, <1>5, <1>6, <1>7 DEF FdbWell

\* remove, where validated blocks are on validated ones
LEMMA RemoveForkOK ==
    ASSUME NEW fd, FdbOK(fd), NEW b \in fd.index, CanRemoveFork(fd, b)
    PROVE  FdbOK(RemoveFork(fd, b))
  <1>1. FdbWell(fd)
    BY OKIsWell
  <1>2. PICK new : new = RemoveFork(fd, b)
    OBVIOUS
  <1>3. FdbWell(new) /\ new.root = fd.root /\ new.valid = {x \in fd.valid : b \notin Anc[x]}
    BY <1>1, <1>2, RemoveForkWell
  <1>4. ASSUME NEW x \in new.valid, Prev[x] \in fd.valid PROVE Prev[x] \in new.valid
    <2>1. x \in Block \ {Genesis}
      BY <1>3 DEF FdbWell, ForkDb, Rooted, BestHead
    <2>2. Anc[x] = {x} \cup Anc[Prev[x]]
      BY <2>1, AncStep
    <2> QED BY <1>3, <1>4, <2>2
  <1>5. ValidOnValid(new)
    BY <1>3, <1>4 DEF FdbOK, ValidOnValid
  <1> QED BY <1>2, <1>3, <1>5 DEF FdbOK, FdbWell

\* fork_database::remove_head, for a head without children
LEMMA RemoveHeadOK ==
    ASSUME NEW fd, FdbOK(fd), fd.head # fd.root, \A x \in fd.index : Prev[x] # fd.head
    PROVE  FdbOK(RemoveHead(fd))
  <1> DEFINE new   == RemoveHead(fd)
             valid == fd.valid \ {fd.head}
             head  == IF valid = {} THEN fd.root ELSE FirstInIndex(valid)
  <1>1. fd \in ForkDb /\ fd.index \in SUBSET Block /\ valid \in SUBSET Block /\ fd.root \in Block
    BY DEF FdbOK, ForkDb
  <1>2. /\ (head = fd.root /\ valid = {}) \/ head \in valid
        /\ \A c \in valid : ~FirstPreferred(c, head)
    <2> HIDE DEF valid
    <2> QED BY <1>1, FirstInIndexIsFirst
  <1>3. new = [fd EXCEPT !.index = @ \ {fd.head}, !.valid = valid, !.head = head]
    BY DEF RemoveHead
  <1>4. head \in Block
    BY <1>1, <1>2
  <1> HIDE DEF head
  <1>5. /\ new.root = fd.root /\ new.index = fd.index \ {fd.head}
        /\ new.valid = valid /\ new.head = head
        /\ new \in ForkDb
    BY <1>1, <1>3, <1>4 DEF ForkDb
  <1> HIDE DEF new
  <1>6. Rooted(new)
    BY <1>5 DEF FdbOK, Rooted, Known
  <1>7. BestHead(new)
    BY <1>2, <1>5 DEF FdbOK, BestHead
  <1>8. ValidOnValid(new)
    BY <1>5 DEF FdbOK, BestHead, ValidOnValid
  <1>9. QED BY <1>5, <1>6, <1>7, <1>8 DEF FdbOK, new

\* fork_database::advance_root: exactly the descendants of the new root stay.
LEMMA AdvanceRootWell ==
    ASSUME NEW fd, FdbWell(fd), NEW b \in fd.index, CanAdvanceRoot(fd, b)
    PROVE  /\ FdbWell(AdvanceRoot(fd, b))
           /\ AdvanceRoot(fd, b).root = b /\ AdvanceRoot(fd, b).head = fd.head
           /\ LET kept == {x \in fd.index \ {b} : b \in Anc[x]}
              IN  /\ AdvanceRoot(fd, b).index = kept
                  /\ AdvanceRoot(fd, b).valid = fd.valid \cap kept
  <1> DEFINE new  == AdvanceRoot(fd, b)
             kept == {x \in fd.index \ {b} : b \in Anc[x]}
  <1>1. /\ fd \in ForkDb /\ Rooted(fd) /\ fd.valid \subseteq fd.index
        /\ fd.index \in SUBSET Block /\ fd.head \in Block /\ fd.root \in Block
        /\ b \in Block /\ b \in fd.valid
    BY DEF FdbWell, ForkDb, BestHead, CanAdvanceRoot
  <1>2. fd.index \ RemovedByAdvance(fd, b) = kept
    BY <1>1, AdvanceRootExact
  <1>3. /\ new.root = b /\ new.index = kept
        /\ new.valid = fd.valid \cap kept /\ new.head = fd.head
        /\ new \in ForkDb
    BY <1>1, <1>2 DEF AdvanceRoot, ForkDb
  <1>4. fd.head \in fd.valid
    BY <1>1, RootHeadMeansNoneValid DEF FdbWell, BestHead
  <1>5. fd.head \in kept \cup {b}
    <2>1. fd.head \notin RemovedByAdvance(fd, b) \ {b} /\ fd.head \in fd.index
      BY <1>1, <1>4 DEF CanAdvanceRoot
    <2> HIDE DEF kept
    <2> QED BY <2>1, <1>2
  <1>6. ASSUME NEW x \in kept
        PROVE  x # Genesis /\ Prev[x] \in kept \cup {b} /\ b \in Anc[x]
    <2>1. x \in Block \ {Genesis} /\ b \in Anc[x] /\ x # b
      BY <1>1 DEF Rooted
    <2>2. Prev[x] \in Block /\ b \in Anc[Prev[x]]
      BY <2>1, AncStep
    <2>3. Num[fd.root] < Num[b] /\ (Prev[x] = b \/ Num[b] < Num[Prev[x]])
      BY <1>1, <2>2, AncNumbers, IndexAboveRoot
    <2>4. Prev[x] # fd.root
      BY <2>2, <2>3, <1>1, Numbers
    <2>5. Prev[x] \in fd.index
      BY <1>1, <2>4 DEF Rooted, Known
    <2> QED BY <2>1, <2>2, <2>5
  <1>7. Rooted(new)
    <2>1. b \notin kept
      OBVIOUS
    <2> HIDE DEF new, kept
    <2> QED BY <2>1, <1>3, <1>6 DEF Rooted, Known
  <1>8. BestHead(new)
    <2>1. kept \subseteq fd.index
      OBVIOUS
    <2> HIDE DEF new, kept
    <2> QED BY <2>1, <1>1, <1>3, <1>4, <1>5 DEF FdbWell, BestHead
  <1>9. QED BY <1>3, <1>7, <1>8 DEF FdbWell

\* fork_database::advance_root, along the branch of the head, does not throw.
LEMMA AdvanceRootOK ==
    ASSUME NEW fd, FdbOK(fd), NEW b \in fd.valid, b \in Anc[fd.head]
    PROVE  /\ FdbOK(AdvanceRoot(fd, b))
           /\ CanAdvanceRoot(fd, b)
           /\ LET kept == {x \in fd.index \ {b} : b \in Anc[x]}
              IN  /\ AdvanceRoot(fd, b).index = kept
                  /\ AdvanceRoot(fd, b).valid = fd.valid \cap kept
                  /\ fd.head \in kept \cup {b}
  <1> DEFINE kept == {x \in fd.index \ {b} : b \in Anc[x]}
  <1>1. /\ FdbWell(fd) /\ fd \in ForkDb /\ Rooted(fd)
        /\ fd.valid \subseteq fd.index /\ b \in fd.index
    BY DEF FdbOK, FdbWell, BestHead
  <1>2. fd.index \ RemovedByAdvance(fd, b) = kept
    BY <1>1, AdvanceRootExact
  <1>3. fd.head \in fd.valid
    BY <1>1, RootHeadMeansNoneValid DEF FdbWell, BestHead
  <1>4. fd.head \in kept \cup {b}
    BY <1>1, <1>3
  <1>5. CanAdvanceRoot(fd, b)
    <2>1. fd.head \in kept => fd.head \notin RemovedByAdvance(fd, b)
      BY <1>2
    <2> HIDE DEF kept
    <2> QED BY <2>1, <1>4 DEF CanAdvanceRoot
  <1>6. PICK new : new = AdvanceRoot(fd, b)
    OBVIOUS
  <1>7. FdbWell(new) /\ new.root = b /\ new.index = kept /\ new.valid = fd.valid \cap kept
    BY <1>1, <1>5, <1>6, AdvanceRootWell
  <1>8. ASSUME NEW x \in fd.valid \cap kept PROVE Prev[x] \in (fd.valid \cap kept) \cup {b}
    <2>1. Prev[x] \in kept \cup {b}
      <3> HIDE DEF kept
      <3> QED BY <1>7 DEF FdbWell, Rooted, Known
    <2>2. Prev[x] \in fd.valid \cup {fd.root}
      BY DEF FdbOK, ValidOnValid
    <2>3. fd.root \notin fd.index
      BY <1>1 DEF Rooted
    <2> QED BY <2>1, <2>2, <2>3
  <1>9. ValidOnValid(new)
    <2> HIDE DEF kept
    <2> QED BY <1>7, <1>8 DEF ValidOnValid
  <1> QED BY <1>4, <1>5, <1>6, <1>7, <1>9 DEF FdbOK, FdbWell

\* fork_database::rollback_head_to_root
LEMMA RollbackOK ==
    ASSUME NEW fd, FdbOK(fd)
    PROVE  FdbOK(RollbackHeadToRoot(fd))
  <1> DEFINE new == RollbackHeadToRoot(fd)
  <1>1. /\ new.root = fd.root /\ new.index = fd.index
        /\ new.valid = {} /\ new.head = fd.root /\ new \in ForkDb
    BY DEF FdbOK, RollbackHeadToRoot, ForkDb
  <1> HIDE DEF new
  <1>2. Rooted(new)
    BY <1>1 DEF FdbOK, Rooted, Known
  <1>3. FdbOK(new)
    BY <1>1, <1>2 DEF FdbOK, BestHead, ValidOnValid
  <1>4. QED BY <1>3 DEF new

\* The same, when a validated block may stand on one that is not.
LEMMA RollbackWell ==
    ASSUME NEW fd, FdbWell(fd)
    PROVE  FdbWell(RollbackHeadToRoot(fd)) /\ RollbackHeadToRoot(fd).root = fd.root
  <1>1. PICK new : new = RollbackHeadToRoot(fd)
    OBVIOUS
  <1>2. fd \in ForkDb
    BY DEF FdbWell
  <1>3. /\ new \in ForkDb /\ new.root = fd.root /\ new.index = fd.index
        /\ new.valid = {} /\ new.head = fd.root
    BY <1>1, <1>2, Zenon DEF RollbackHeadToRoot, ForkDb
  <1> QED BY <1>1, <1>3 DEF FdbWell, Rooted, Known, BestHead

\* pending_head is at least as good as every block of the index.
LEMMA PendingHeadBest ==
    ASSUME NEW fd, FdbWell(fd), NEW b \in fd.index
    PROVE  ~FirstPreferred(b, PendingHead(fd))
  <1> DEFINE U    == fd.index \ fd.valid
             best == FirstInIndex(U)
  <1>1. fd.index \in SUBSET Block /\ fd.head \in Block /\ b \in Block /\ U \in SUBSET Block
    BY DEF FdbWell, ForkDb
  <1>2. U # {} => best \in U /\ \A c \in U : ~FirstPreferred(c, best)
    <2> HIDE DEF U
    <2> QED BY <1>1, FirstInIndexIsFirst
  <1>3. PendingHead(fd) = IF U # {} /\ FirstPreferred(best, fd.head) THEN best ELSE fd.head
    BY DEF PendingHead
  <1> HIDE DEF best
  <1>4. CASE b \in fd.valid
    <2>1. ~FirstPreferred(b, fd.head)
      BY <1>4 DEF FdbWell, BestHead
    <2>2. CASE U # {} /\ FirstPreferred(best, fd.head)
      <3>1. best \in Block /\ ~FirstPreferred(fd.head, best)
        BY <2>2, <1>1, <1>2, FirstPreferredOrder
      <3> QED BY <3>1, <2>1, <2>2, <1>1, <1>3, FirstPreferredOrder
    <2>3. CASE ~(U # {} /\ FirstPreferred(best, fd.head))
      BY <2>1, <2>3, <1>3
    <2> QED BY <2>2, <2>3
  <1>5. CASE b \in U
    <2>1. best \in Block /\ ~FirstPreferred(b, best)
      BY <1>5, <1>1, <1>2
    <2>2. CASE FirstPreferred(best, fd.head)
      BY <2>1, <2>2, <1>3, <1>5
    <2>3. CASE ~FirstPreferred(best, fd.head)
      BY <2>1, <2>3, <1>1, <1>3, FirstPreferredOrder
    <2> QED BY <2>2, <2>3
  <1>6. QED BY <1>4, <1>5

-----------------------------------------------------------------------------
(* Branches *)

\* The oldest and the newest block of a set.
LEMMA OldestIs ==
    ASSUME NEW S \in SUBSET Block, S # {}
    PROVE  Oldest(S) \in S /\ \A x \in S : Num[Oldest(S)] <= Num[x]
  <1>1. Num \in [Block -> Nat]
    BY BlockTreeAssumption
  <1>2. PICK n \in {Num[x] : x \in S} : \A m \in {Num[x] : x \in S} : n <= m
    <2>1. {Num[x] : x \in S} \in SUBSET Nat /\ {Num[x] : x \in S} # {}
      BY <1>1
    <2> QED BY <2>1, LeastNatural
  <1>3. \E b \in S : \A x \in S : Num[b] <= Num[x]
    BY <1>2
  <1> QED BY <1>3 DEF Oldest

\* Sets of blocks are finite, so there is a newest one.
LEMMA NewestIs ==
    ASSUME NEW S \in SUBSET Block, S # {}
    PROVE  Newest(S) \in S /\ \A x \in S : Num[x] <= Num[Newest(S)]
  <1>1. Num \in [Block -> Nat] /\ IsFiniteSet(Block)
    BY BlockTreeAssumption
  <1> DEFINE T == {Num[x] : x \in S}
  <1>2. IsFiniteSet(T)
    <2>1. IsFiniteSet(S)
      BY <1>1, FS_Subset
    <2>2. [x \in S |-> Num[x]] \in Surjection(S, T)
      BY DEF Surjection
    <2> HIDE DEF T
    <2> QED BY <2>1, <2>2, FS_Surjection
  <1>3. T \in SUBSET Nat /\ T # {}
    BY <1>1
  <1>4. PICK n \in T : \A m \in T : m <= n
    <2> HIDE DEF T
    <2> QED BY <1>2, <1>3, GreatestNatural
  <1>5. \E b \in S : \A x \in S : Num[x] <= Num[b]
    BY <1>4
  <1> QED BY <1>5 DEF Newest

\* No block number is beyond MaxNum.
LEMMA MaxNumIs ==
    MaxNum \in Nat /\ \A b \in Block : Num[b] <= MaxNum
  <1>1. Block \in SUBSET Block /\ Block # {} /\ Num \in [Block -> Nat]
    BY BlockTreeAssumption
  <1>2. \E n \in {Num[b] : b \in Block} : \A b \in Block : Num[b] <= n
    BY <1>1, NewestIs
  <1> QED BY <1>1, <1>2 DEF MaxNum

\* Two blocks of one branch with one number are the same.
LEMMA SameNumber ==
    ASSUME NEW b \in Block, NEW x \in Anc[b], NEW y \in Anc[b], Num[x] = Num[y]
    PROVE  x = y
  <1>1. x \in Block /\ y \in Block /\ Num[x] \in Nat
    BY AncBasic, Numbers
  <1>2. x \in Anc[y] \/ y \in Anc[x]
    BY AncChain
  <1> QED BY <1>1, <1>2, AncNumbers

\* The block of a branch with the number of one of its blocks is that block.
LEMMA OnBranchIs ==
    ASSUME NEW b \in Block, NEW a \in Anc[b]
    PROVE  OnBranch(b, Num[a]) = a
  BY SameNumber DEF OnBranch

\* Of two blocks of a branch the older one is an ancestor of the newer one.
LEMMA OlderIsAncestor ==
    ASSUME NEW b \in Block, NEW x \in Anc[b], NEW y \in Anc[b], Num[x] <= Num[y]
    PROVE  x \in Anc[y]
  <1>1. x \in Block /\ y \in Block /\ Num[x] \in Nat /\ Num[y] \in Nat
    BY AncBasic, Numbers
  <1>2. CASE x \in Anc[y]
    BY <1>2
  <1>3. CASE y \in Anc[x]
    <2>1. x = y
      BY <1>1, <1>3, AncNumbers
    <2> QED BY <2>1, <1>1, AncBasic
  <1> QED BY <1>2, <1>3, AncChain

\* Every branch starts at the block without a previous one.
LEMMA GenesisFirst ==
    ASSUME NEW b \in Block
    PROVE  Genesis \in Anc[b]
  <1>1. Anc[b] \in SUBSET Block /\ Anc[b] # {}
    BY AncBasic
  <1>2. PICK o : o = Oldest(Anc[b])
    OBVIOUS
  <1>3. o \in Anc[b] /\ \A x \in Anc[b] : Num[o] <= Num[x]
    BY <1>1, <1>2, OldestIs
  <1>4. SUFFICES ASSUME o # Genesis PROVE FALSE
    BY <1>3
  <1>5. o \in Block \ {Genesis} /\ Prev[o] \in Anc[b] /\ Prev[o] \in Block
    BY <1>1, <1>3, <1>4, AncBasic DEF PrevClosed
  <1>6. Num[o] = Num[Prev[o]] + 1 /\ Num[Prev[o]] \in Nat /\ Num[o] <= Num[Prev[o]]
    BY <1>3, <1>5, BlockTreeAssumption
  <1> QED BY <1>6

\* A branch has a block for each number from that of a on.
LEMMA NumberOnBranch ==
    ASSUME NEW b \in Block, NEW a \in Anc[b], NEW k \in Nat, Num[a] <= k, k <= Num[b]
    PROVE  \E x \in Anc[b] : Num[x] = k /\ a \in Anc[x]
  <1> DEFINE S == {x \in Anc[b] : a \in Anc[x] /\ k <= Num[x]}
  <1>1. a \in Block /\ Num \in [Block -> Nat] /\ Anc[b] \in SUBSET Block /\ b \in Anc[b]
    BY AncBasic, BlockTreeAssumption
  <1>2. S \in SUBSET Block /\ S # {}
    BY <1>1
  <1>3. PICK o \in S : \A x \in S : Num[o] <= Num[x]
    <2> HIDE DEF S
    <2> QED BY <1>2, OldestIs
  <1>4. SUFFICES ASSUME k # Num[o] PROVE FALSE
    BY <1>1, <1>3
  <1>5. o \in Block /\ o \in Anc[b] /\ a \in Anc[o] /\ k < Num[o] /\ o # a /\ Num[a] < Num[o]
    BY <1>1, <1>3, <1>4
  <1>6. o # Genesis
    BY <1>1, <1>5, GenesisFirst, AncNumbers
  <1>7. PICK p \in Block : p = Prev[o] /\ Num[o] = Num[p] + 1 /\ Anc[o] = {o} \cup Anc[p]
    BY <1>5, <1>6, AncStep, BlockTreeAssumption
  <1>8. p \in Anc[b] /\ a \in Anc[p] /\ k <= Num[p]
    BY <1>1, <1>5, <1>6, <1>7, AncBasic DEF PrevClosed
  <1>9. Num[o] <= Num[p] /\ Num[p] \in Nat
    BY <1>1, <1>3, <1>7, <1>8
  <1> QED BY <1>7, <1>9

\* The blocks of the branch of b above its block a.
Above(a, b) == Anc[b] \ Anc[a]

\* S are the first blocks of the branch of b above a.
Prefix(S, a, b) ==
    S \subseteq Above(a, b) /\ \A x \in S, y \in Above(a, b) : Num[y] <= Num[x] => y \in S

\* What is above a on the branch of b descends from a.
LEMMA AboveDescends ==
    ASSUME NEW b \in Block, NEW a \in Anc[b], NEW x \in Above(a, b)
    PROVE  /\ x \in Block \ {Genesis} /\ x \in Anc[b] /\ x # a
           /\ a \in Anc[x] /\ a \in Anc[Prev[x]] /\ Num[a] < Num[x]
  <1>1. a \in Block /\ x \in Block /\ x \in Anc[b] /\ x \notin Anc[a]
    BY AncBasic DEF Above
  <1>2. a \in Anc[x] /\ x # a /\ x # Genesis
    BY <1>1, AncBasic, AncChain, GenesisFirst
  <1>3. Anc[x] = {x} \cup Anc[Prev[x]] /\ Num[a] < Num[x]
    BY <1>1, <1>2, AncStep, AncNumbers
  <1> QED BY <1>1, <1>2, <1>3

\* A branch has one block for each number.
LEMMA CountAbove ==
    ASSUME NEW b \in Block, NEW a \in Anc[b]
    PROVE  IsFiniteSet(Above(a, b)) /\ Cardinality(Above(a, b)) = Num[b] - Num[a]
  <1> DEFINE Counted(x) == Cardinality(Above(a, x)) = Num[x] - Num[a]
             Fails == {k \in Nat : \E x \in Block : a \in Anc[x] /\ Num[x] = k /\ ~Counted(x)}
  <1>1. a \in Block /\ Num \in [Block -> Nat]
    BY AncBasic, BlockTreeAssumption
  <1>2. ASSUME NEW x \in Block PROVE IsFiniteSet(Above(a, x))
    BY BlockTreeAssumption, AncBasic, FS_Subset DEF Above
  <1>3. SUFFICES ASSUME ~Counted(b) PROVE FALSE
    BY <1>2
  <1>4. Num[b] \in Fails
    BY <1>1, <1>3
  <1>5. PICK k \in Fails : \A m \in Fails : k <= m
    <2> HIDE DEF Fails
    <2>1. Fails \in SUBSET Nat
      BY DEF Fails
    <2> QED BY <1>4, <2>1, LeastNatural
  <1>6. PICK x \in Block : a \in Anc[x] /\ Num[x] = k /\ ~Counted(x)
    BY <1>5
  <1>7. x # a
    <2>1. Above(a, a) = {}
      BY DEF Above
    <2>2. Cardinality(Above(a, a)) = 0 /\ Num[a] - Num[a] = 0
      BY <2>1, <1>1, FS_EmptySet
    <2>3. Counted(a)
      BY <2>2
    <2> QED BY <2>3, <1>6
  <1>8. x # Genesis
    BY <1>1, <1>6, <1>7, GenesisFirst, AncNumbers
  <1>9. PICK p \in Block : p = Prev[x] /\ Num[x] = Num[p] + 1 /\ Anc[x] = {x} \cup Anc[p]
    BY <1>6, <1>8, AncStep, BlockTreeAssumption
  <1>10. a \in Anc[p] /\ Num[p] \in Nat
    BY <1>1, <1>6, <1>7, <1>9
  <1>11. Counted(p)
    <2>1. Num[p] \notin Fails
      BY <1>1, <1>5, <1>6, <1>9, <1>10
    <2> QED BY <2>1, <1>10
  <1>12. x \notin Anc[p] /\ x \notin Anc[a]
    BY <1>1, <1>6, <1>7, <1>9, <1>10, AncNumbers
  <1>13. Above(a, x) = Above(a, p) \cup {x} /\ x \notin Above(a, p)
    BY <1>9, <1>12 DEF Above
  <1>14. Cardinality(Above(a, x)) = Cardinality(Above(a, p)) + 1
    BY <1>2, <1>13, FS_AddElement
  <1> QED BY <1>1, <1>6, <1>9, <1>10, <1>11, <1>14

\* The first block of such a prefix stands on a, and the prefix is all there is above a on
\* the branch of its newest block.
LEMMA PrefixIs ==
    ASSUME NEW b \in Block, NEW a \in Anc[b], NEW S, Prefix(S, a, b), S # {}
    PROVE  /\ S \in SUBSET Block
           /\ Oldest(S) \in S /\ Oldest(S) # Genesis /\ Prev[Oldest(S)] = a
           /\ Newest(S) \in S /\ Newest(S) \in Anc[b] /\ Newest(S) # a
           /\ a \in Anc[Newest(S)] /\ S = Above(a, Newest(S))
  <1>1. a \in Block /\ S \in SUBSET Block /\ \A x \in Block : Num[x] \in Nat
    BY AncBasic, Numbers DEF Prefix, Above
  <1>2. PICK o : o = Oldest(S)
    OBVIOUS
  <1>3. o \in S /\ \A x \in S : Num[o] <= Num[x]
    BY <1>1, <1>2, OldestIs
  <1>4. o \in Block \ {Genesis} /\ o \in Anc[b] /\ a \in Anc[Prev[o]]
    BY <1>3, AboveDescends DEF Prefix
  <1>5. Prev[o] \in Block /\ Num[o] = Num[Prev[o]] + 1 /\ Prev[o] \in Anc[b]
    BY <1>4, AncStep, AncBasic, BlockTreeAssumption DEF PrevClosed
  <1>6. Prev[o] \in Anc[a]
    <2>1. Prev[o] \notin S
      BY <1>1, <1>3, <1>5
    <2>2. Num[Prev[o]] <= Num[o]
      BY <1>1, <1>4, <1>5
    <2> QED BY <2>1, <2>2, <1>3, <1>5 DEF Prefix, Above
  <1>7. Prev[o] = a
    BY <1>1, <1>4, <1>5, <1>6, AncNumbers
  <1>8. PICK n : n = Newest(S)
    OBVIOUS
  <1>9. n \in S /\ \A x \in S : Num[x] <= Num[n]
    BY <1>1, <1>8, NewestIs
  <1>10. n \in Block /\ n \in Anc[b] /\ a \in Anc[n] /\ n # a
    BY <1>9, AboveDescends DEF Prefix
  <1>11. S \subseteq Above(a, n)
    <2>1. ASSUME NEW x \in S PROVE x \in Anc[n] /\ x \notin Anc[a]
      BY <1>9, <1>10, OlderIsAncestor DEF Prefix, Above
    <2> QED BY <2>1 DEF Above
  <1>12. Above(a, n) \subseteq S
    <2>1. ASSUME NEW x \in Above(a, n) PROVE x \in S
      <3>1. x \in Anc[b] /\ x \notin Anc[a] /\ Num[x] <= Num[n]
        BY <1>10, AncTransitive, AncNumbers DEF Above
      <3> QED BY <3>1, <1>9 DEF Prefix, Above
    <2> QED BY <2>1
  <1> QED BY <1>1, <1>2, <1>3, <1>4, <1>7, <1>8, <1>9, <1>10, <1>11, <1>12

\* All that is above a on the branch of b.
LEMMA AboveIs ==
    ASSUME NEW b \in Block, NEW a \in Anc[b], a # b
    PROVE  /\ Above(a, b) # {} /\ Above(a, b) \in SUBSET Block
           /\ Prefix(Above(a, b), a, b)
           /\ Oldest(Above(a, b)) # Genesis /\ Prev[Oldest(Above(a, b))] = a
           /\ Newest(Above(a, b)) = b
  <1>1. a \in Block /\ b \in Above(a, b) /\ \A x \in Block : Num[x] \in Nat
    BY AncBasic, AncNumbers, Numbers DEF Above
  <1>2. Prefix(Above(a, b), a, b)
    BY DEF Prefix
  <1>3. PICK n : n = Newest(Above(a, b))
    OBVIOUS
  <1>4. /\ Above(a, b) \in SUBSET Block /\ n \in Above(a, b)
        /\ \A x \in Above(a, b) : Num[x] <= Num[n]
    BY <1>1, <1>3, NewestIs, AncBasic DEF Above
  <1>5. n = b
    BY <1>1, <1>4, AncNumbers DEF Above
  <1> QED BY <1>1, <1>2, <1>3, <1>4, <1>5, PrefixIs

\* The common ancestors of two blocks are the branch of the newest of them.
LEMMA CommonAncestorIs ==
    ASSUME NEW x \in Block, NEW y \in Block
    PROVE  /\ CommonAncestor(x, y) \in Anc[x] \cap Anc[y]
           /\ Anc[CommonAncestor(x, y)] = Anc[x] \cap Anc[y]
  <1>1. Anc[x] \cap Anc[y] \in SUBSET Block /\ Anc[x] \cap Anc[y] # {}
    BY AncBasic, GenesisFirst
  <1>2. PICK a : a = CommonAncestor(x, y)
    OBVIOUS
  <1>3. a \in Anc[x] \cap Anc[y] /\ \A z \in Anc[x] \cap Anc[y] : Num[z] <= Num[a]
    BY <1>1, <1>2, NewestIs DEF CommonAncestor
  <1>4. ASSUME NEW z \in Anc[x] \cap Anc[y] PROVE z \in Anc[a]
    BY <1>3, OlderIsAncestor
  <1>5. Anc[a] \subseteq Anc[x] \cap Anc[y]
    BY <1>3, AncTransitive
  <1> QED BY <1>2, <1>3, <1>4, <1>5

-----------------------------------------------------------------------------
(* Marking the blocks of a branch valid *)

\* f is what MarkAllValid defines by recursion.
IsMarking(f, fd, from, hi, S) ==
    f = [n \in from - 1 .. hi |->
            IF n < from THEN fd ELSE MarkValid(f[n - 1], CHOOSE b \in S : Num[b] = n)]

\* There is such a function.
LEMMA MarkingExists ==
    ASSUME NEW fd, NEW from \in Nat \ {0}, NEW hi \in Nat, from - 1 <= hi, NEW S
    PROVE  \E f : IsMarking(f, fd, from, hi, S)
  <1> DEFINE Fails == {m \in Nat : from - 1 <= m /\ ~\E f : IsMarking(f, fd, from, m, S)}
             B(n) == CHOOSE b \in S : Num[b] = n
  <1>1. SUFFICES ASSUME hi \in Fails PROVE FALSE
    OBVIOUS
  <1>2. PICK m \in Fails : \A x \in Fails : m <= x
    <2> HIDE DEF Fails
    <2>1. Fails \in SUBSET Nat
      BY DEF Fails
    <2> QED BY <1>1, <2>1, LeastNatural
  <1>3. m \in Nat /\ from - 1 <= m /\ ~\E f : IsMarking(f, fd, from, m, S)
    BY <1>2
  <1>4. CASE m = from - 1
    <2>1. PICK f : f = [k \in from - 1 .. m |-> fd]
      OBVIOUS
    <2>2. \A k \in from - 1 .. m : k < from
      BY <1>4
    <2>3. IsMarking(f, fd, from, m, S)
      BY <2>1, <2>2 DEF IsMarking
    <2> QED BY <2>3, <1>3
  <1>5. CASE m # from - 1
    <2>1. m - 1 \in Nat /\ from - 1 <= m - 1 /\ m - 1 \notin Fails
      BY <1>2, <1>3, <1>5
    <2>2. PICK g : IsMarking(g, fd, from, m - 1, S)
      BY <2>1
    <2> HIDE DEF B
    <2>3. PICK f : f = [k \in from - 1 .. m |-> IF k <= m - 1 THEN g[k] ELSE MarkValid(g[m - 1], B(m))]
      OBVIOUS
    <2>4. ASSUME NEW k \in from - 1 .. m
          PROVE  f[k] = IF k < from THEN fd ELSE MarkValid(f[k - 1], B(k))
      <3>1. CASE k <= m - 1
        <4>1. k \in from - 1 .. m-1 /\ f[k] = g[k]
          BY <3>1, <2>3
        <4>2. g[k] = IF k < from THEN fd ELSE MarkValid(g[k - 1], B(k))
          BY <4>1, <2>2 DEF IsMarking, B
        <4>3. ~(k < from) => f[k - 1] = g[k - 1]
          BY <3>1, <4>1, <2>3
        <4> QED BY <4>1, <4>2, <4>3
      <3>2. CASE ~(k <= m - 1)
        <4>1. k = m /\ ~(k < from) /\ m - 1 \in from - 1 .. m /\ m - 1 <= m - 1
          BY <3>2, <2>1, <1>3
        <4>2. f[k] = MarkValid(g[m - 1], B(m)) /\ f[m - 1] = g[m - 1]
          BY <3>2, <4>1, <2>3
        <4> QED BY <4>1, <4>2
      <3> QED BY <3>1, <3>2
    <2>5. f = [k \in from - 1 .. m |-> IF k < from THEN fd ELSE MarkValid(f[k - 1], B(k))]
      BY <2>3, <2>4
    <2>6. IsMarking(f, fd, from, m, S)
      BY <2>5 DEF IsMarking, B
    <2> QED BY <2>6, <1>3
  <1> QED BY <1>4, <1>5

\* MarkAllValid marks one block after the other.
LEMMA MarkAllValidSteps ==
    ASSUME NEW fd, NEW S, S # {}, Num[Oldest(S)] \in Nat \ {0}, Num[Oldest(S)] - 1 <= MaxNum
    PROVE  \E f : /\ IsMarking(f, fd, Num[Oldest(S)], MaxNum, S)
                  /\ MarkAllValid(fd, S) = f[Num[Newest(S)]]
  <1>1. MarkAllValid(fd, S) =
           (CHOOSE f : IsMarking(f, fd, Num[Oldest(S)], MaxNum, S))[Num[Newest(S)]]
    BY DEF MarkAllValid, IsMarking
  <1>2. \E f : IsMarking(f, fd, Num[Oldest(S)], MaxNum, S)
    BY MaxNumIs, MarkingExists
  <1> QED BY <1>1, <1>2

\* The blocks of the branch of a validated block, down to the root, are validated.
LEMMA ValidBranch ==
    ASSUME NEW fd, FdbOK(fd), NEW v \in fd.valid \cup {fd.root},
           NEW x \in Anc[v], fd.root \in Anc[x]
    PROVE  x \in fd.valid \cup {fd.root}
  <1> DEFINE C == {y \in Block : fd.root \in Anc[y] => y \in fd.valid \cup {fd.root}}
  <1>1. /\ fd.root \in Block /\ fd.valid \subseteq fd.index /\ fd.index \in SUBSET Block
        /\ v \in Block
    BY DEF FdbOK, ForkDb, BestHead
  <1>2. v \in C /\ C \in SUBSET Block
    BY <1>1
  <1>3. ASSUME NEW y \in C \ {Genesis} PROVE Prev[y] \in C
    <2>1. Prev[y] \in Block /\ Anc[y] = {y} \cup Anc[Prev[y]] /\ Num[y] = Num[Prev[y]] + 1
          /\ Num[Prev[y]] \in Nat
      BY AncStep, BlockTreeAssumption
    <2>2. SUFFICES ASSUME fd.root \in Anc[Prev[y]]
                   PROVE  Prev[y] \in fd.valid \cup {fd.root}
      BY <2>1
    <2>3. y # fd.root
      BY <2>1, <2>2, AncNumbers
    <2> QED BY <2>1, <2>2, <2>3 DEF FdbOK, ValidOnValid
  <1>4. Anc[v] \subseteq C
    <2> HIDE DEF C
    <2> QED BY <1>1, <1>2, <1>3, AncInduction DEF PrevClosed
  <1> QED BY <1>4

\* The blocks between two blocks of a branch, above the root, are in the index.
LEMMA AboveInIndex ==
    ASSUME NEW fd, FdbWell(fd), NEW t \in fd.index \cup {fd.root},
           NEW a \in Anc[t], fd.root \in Anc[a]
    PROVE  Above(a, t) \subseteq fd.index
  <1>1. fd \in ForkDb /\ Rooted(fd) /\ fd.root \in Block /\ t \in Block
    BY DEF FdbWell, ForkDb
  <1>2. SUFFICES ASSUME NEW y \in Above(a, t) PROVE y \in fd.index
    OBVIOUS
  <1>3. y \in Block /\ y \in Anc[t] /\ y \notin Anc[a] /\ a \in Anc[y]
    BY <1>1, AboveDescends DEF Above
  <1>4. fd.root \in Anc[y] /\ y # fd.root
    BY <1>1, <1>3, AncTransitive
  <1>5. CASE t \in fd.index
    BY <1>1, <1>3, <1>4, <1>5, BranchInIndex
  <1>6. CASE t = fd.root
    BY <1>1, <1>3, <1>4, <1>6, AncNumbers, Numbers
  <1> QED BY <1>5, <1>6

\* A known block descends from the root.
LEMMA KnownDescends ==
    ASSUME NEW fd, FdbWell(fd), NEW t \in fd.index \cup {fd.root}
    PROVE  t \in Block /\ fd.root \in Block /\ fd.root \in Anc[t]
  BY AncBasic DEF FdbWell, ForkDb, Rooted

\* Marking one block.
LEMMA MarkValidIs ==
    ASSUME NEW fd, FdbOK(fd), NEW b \in fd.index, Prev[b] \in fd.valid \cup {fd.root}
    PROVE  /\ FdbOK(MarkValid(fd, b))
           /\ MarkValid(fd, b).root = fd.root /\ MarkValid(fd, b).index = fd.index
           /\ MarkValid(fd, b).valid = fd.valid \cup {b}
           /\ b \in fd.valid => MarkValid(fd, b) = fd
  <1>1. FdbOK(MarkValid(fd, b))
    BY MarkValidOK
  <1>2. CASE b \in fd.valid
    BY <1>1, <1>2 DEF MarkValid
  <1>3. CASE b \notin fd.valid
    <2>1. fd \in ForkDb
      BY DEF FdbOK
    <2>2. /\ MarkValid(fd, b).root = fd.root /\ MarkValid(fd, b).index = fd.index
          /\ MarkValid(fd, b).valid = fd.valid \cup {b}
      BY <1>3, <2>1, Zenon DEF MarkValid, ForkDb
    <2> QED BY <1>1, <1>3, <2>2
  <1> QED BY <1>2, <1>3

\* What marking the blocks S makes of fd.
Marked(new, fd, S) ==
    /\ FdbOK(new) /\ new.root = fd.root /\ new.index = fd.index
    /\ new.valid = fd.valid \cup S
    /\ S \subseteq fd.valid => new = fd

\* Marking all blocks of a branch, from a validated block or the root on.
LEMMA MarkAllValidOK ==
    ASSUME NEW fd, FdbOK(fd), NEW n \in Block, NEW a \in Anc[n],
           a \in fd.valid \cup {fd.root}, Above(a, n) \subseteq fd.index
    PROVE  Marked(MarkAllValid(fd, Above(a, n)), fd, Above(a, n))
  <1>1. CASE a = n
    <2>1. Above(a, n) = {}
      BY <1>1 DEF Above
    <2> QED BY <2>1 DEF MarkAllValid, Marked
  <1>2. CASE a # n
    <2> DEFINE S == Above(a, n)
               Upto(k) == {x \in S : Num[x] <= k}
    <2>1. a \in Block /\ Num \in [Block -> Nat]
      BY AncBasic, BlockTreeAssumption
    <2>2. /\ S # {} /\ S \in SUBSET Block /\ Oldest(S) \in S /\ Prev[Oldest(S)] = a
          /\ Oldest(S) \in Block \ {Genesis}
          /\ Newest(S) = n
      BY <1>2, AboveIs, OldestIs
    <2>3. PICK from : from = Num[Oldest(S)]
      OBVIOUS
    <2>4. from = Num[a] + 1 /\ from \in Nat \ {0} /\ from - 1 = Num[a]
      <3>1. Num[Oldest(S)] = Num[Prev[Oldest(S)]] + 1
        BY <2>2, BlockTreeAssumption
      <3>2. Num[a] \in Nat /\ from = Num[a] + 1
        BY <2>1, <2>2, <2>3, <3>1
      <3> QED BY <3>2
    <2>5. MaxNum \in Nat /\ Num[a] <= MaxNum /\ Num[n] <= MaxNum /\ Num[a] < Num[n]
      BY <2>1, <1>2, MaxNumIs, AncNumbers
    <2>6. PICK f : IsMarking(f, fd, from, MaxNum, S) /\ MarkAllValid(fd, S) = f[Num[n]]
      <3> HIDE DEF S
      <3> QED BY <2>2, <2>3, <2>4, <2>5, MarkAllValidSteps
    <2> DEFINE Fails == {k \in Nat : k \in from - 1 .. Num[n] /\ ~Marked(f[k], fd, Upto(k))}
    <2>7. SUFFICES ASSUME Fails # {} PROVE FALSE
      <3>1. Num[n] \in Nat /\ Num[n] \in from - 1 .. Num[n]
        BY <2>1, <2>4, <2>5
      <3>2. Num[n] \notin Fails
        BY <2>7
      <3>3. Marked(f[Num[n]], fd, Upto(Num[n]))
        BY <3>1, <3>2
      <3>4. Upto(Num[n]) = S
        BY AncNumbers DEF Above
      <3> QED BY <2>6, <3>3, <3>4
    <2>8. PICK k \in Fails : \A m \in Fails : k <= m
      <3> HIDE DEF Fails
      <3>1. Fails \in SUBSET Nat
        BY DEF Fails
      <3> QED BY <2>7, <3>1, LeastNatural
    <2>9. k \in Nat /\ k \in from - 1 .. Num[n] /\ ~Marked(f[k], fd, Upto(k)) /\ k \in from - 1 .. MaxNum
      BY <2>1, <2>4, <2>5, <2>8
    <2>10. CASE k < from
      <3>1. f[k] = fd
        <4> HIDE DEF S
        <4> QED BY <2>6, <2>9, <2>10 DEF IsMarking
      <3>2. Upto(k) = {}
        <4>1. \A x \in S : Num[a] < Num[x] /\ Num[x] \in Nat
          BY <2>1, AboveDescends
        <4> HIDE DEF S
        <4> QED BY <4>1, <2>1, <2>4, <2>9, <2>10
      <3> QED BY <2>9, <3>1, <3>2 DEF Marked
    <2>11. CASE ~(k < from)
      <3>1. PICK j \in Nat : j = k - 1 /\ k = j + 1 /\ j \in from - 1 .. Num[n] /\ j \notin Fails
        BY <2>1, <2>4, <2>8, <2>9, <2>11
      <3>2. PICK b : b = CHOOSE x \in S : Num[x] = k
        OBVIOUS
      <3>3. f[k] = MarkValid(f[j], b)
        <4> HIDE DEF S
        <4> QED BY <2>6, <2>9, <2>11, <3>1, <3>2 DEF IsMarking
      <3>4. Marked(f[j], fd, Upto(j))
        BY <3>1
      <3>5. b \in S /\ Num[b] = k
        <4>1. Num[a] < k /\ k <= Num[n] /\ Num[a] \in Nat
          BY <2>1, <2>4, <2>9, <2>11
        <4>2. PICK x \in Anc[n] : Num[x] = k
          BY <4>1, <2>9, NumberOnBranch
        <4>3. x \in S
          BY <2>1, <4>1, <4>2, AncNumbers DEF Above
        <4> QED BY <4>2, <4>3, <3>2
      <3>6. b \in Block \ {Genesis} /\ b \in Anc[n] /\ a \in Anc[Prev[b]]
        BY <3>5, AboveDescends
      <3>7. Prev[b] \in Block /\ Num[Prev[b]] = j /\ Prev[b] \in Anc[n]
        <4>1. Prev[b] \in Block /\ Num[b] = Num[Prev[b]] + 1 /\ Num[Prev[b]] \in Nat
          BY <2>1, <3>6, BlockTreeAssumption
        <4>2. Prev[b] \in Anc[n]
          BY <3>6, AncBasic DEF PrevClosed
        <4> QED BY <4>1, <4>2, <3>5, <3>1
      <3>8. Prev[b] \in Upto(j) \cup {a}
        <4>1. CASE Prev[b] \in Anc[a]
          BY <4>1, <2>1, <3>6, <3>7, AncNumbers, Numbers
        <4>2. CASE Prev[b] \notin Anc[a]
          BY <4>2, <3>1, <3>7 DEF Above
        <4> QED BY <4>1, <4>2
      <3>9. Upto(k) = Upto(j) \cup {b}
        <4>1. ASSUME NEW x \in S, Num[x] = k PROVE x = b
          BY <4>1, <3>5, SameNumber DEF Above
        <4>2. \A x \in S : Num[x] \in Nat
          BY <2>1, <2>2
        <4>3. \A m \in Nat : m <= k <=> m <= j \/ m = k
          BY <3>1
        <4> HIDE DEF S
        <4> QED BY <4>1, <4>2, <4>3, <3>5, <2>9
      <3>10. Marked(f[k], fd, Upto(k))
        <4> HIDE DEF Upto, S
        <4>1. /\ FdbOK(f[j]) /\ f[j].root = fd.root /\ f[j].index = fd.index
              /\ f[j].valid = fd.valid \cup Upto(j)
              /\ Upto(j) \subseteq fd.valid => f[j] = fd
          BY <3>4 DEF Marked
        <4>2. b \in f[j].index /\ Prev[b] \in f[j].valid \cup {f[j].root}
          BY <4>1, <3>5, <3>8 DEF S
        <4>3. PICK g : g = f[j]
          OBVIOUS
        <4>4. /\ FdbOK(MarkValid(g, b))
              /\ MarkValid(g, b).root = g.root /\ MarkValid(g, b).index = g.index
              /\ MarkValid(g, b).valid = g.valid \cup {b}
              /\ b \in g.valid => MarkValid(g, b) = g
          BY <4>1, <4>2, <4>3, MarkValidIs
        <4> QED BY <4>1, <4>3, <4>4, <3>3, <3>9 DEF Marked
      <3> QED BY <3>10, <2>9
    <2> QED BY <2>10, <2>11
  <1> QED BY <1>1, <1>2

-----------------------------------------------------------------------------
(* The state of the controller between two of its steps *)

\* What the steps of one handler leave alone, but for log_irreversible.
SameLog(r, c) == r.mode = c.mode /\ r.base = c.base /\ r.blog = c.blog

\* The state database holds the state of the head, and can be undone to the last block of
\* the log.  (A head without a block, from a snapshot, is met in irreversible mode only.)
Synced(c) ==
    /\ c \in Controllers
    /\ c.sparse => Irreversible(c)
    /\ c.db = c.head
    /\ c.rev = Num[c.head]

\* A change of the outcome.
LEMMA EndedIs ==
    ASSUME NEW c \in Controllers, NEW how \in Outcomes
    PROVE  /\ Ended(c, how) \in Controllers /\ Ended(c, how).outcome = how
           /\ SameLog(Ended(c, how), c) /\ Ended(c, how).fdb = c.fdb
           /\ Ended(c, how).head = c.head /\ Ended(c, how).sparse = c.sparse
           /\ Ended(c, how).db = c.db /\ Ended(c, how).rev = c.rev
  BY DEF Ended, Controllers, SameLog

\* pop_block down to a block that is not below the last commit.
LEMMA PopToIs ==
    ASSUME NEW c, Synced(c), NEW a \in Anc[c.head], c.base <= Num[a]
    PROVE  /\ Synced(PopTo(c, a)) /\ PopTo(c, a).head = a
           /\ SameLog(PopTo(c, a), c) /\ PopTo(c, a).fdb = c.fdb
           /\ PopTo(c, a).outcome = c.outcome
  <1>1. c \in Controllers /\ c.head \in Block /\ c.base \in Nat /\ c.db = c.head
        /\ c.rev = Num[c.head] /\ a \in Block
    BY AncBasic DEF Synced, Controllers
  <1>2. Num[a] \in Nat /\ Num[c.head] \in Nat /\ Num[a] <= Num[c.head]
    BY <1>1, Numbers, AncNumbers
  <1>3. CASE a = c.head
    BY <1>3 DEF PopTo, SameLog
  <1>4. CASE a # c.head
    <2> DEFINE n == Num[c.head] - Num[a]
    <2>1. AtMost(n, c.rev - c.base) = n /\ c.rev - n = Num[a] /\ Num[c.head] - n = Num[a]
      BY <1>1, <1>2 DEF AtMost
    <2>2. c.db # Mixed
      BY <1>1, BlockTreeAssumption DEF Mixed
    <2>3. OnBranch(c.db, Num[c.db] - AtMost(n, c.rev - c.base)) = a
      BY <1>1, <2>1, OnBranchIs
    <2>4. PICK u : u = Undo(c, n)
      OBVIOUS
    <2>5. u = [c EXCEPT !.rev = Num[a], !.db = a]
      <3>1. u = [c EXCEPT !.rev = c.rev - AtMost(n, c.rev - c.base),
                          !.db = OnBranch(c.db, Num[c.db] - AtMost(n, c.rev - c.base))]
        <4> HIDE DEF n
        <4> QED BY <2>2, <2>4, Zenon DEF Undo
      <3> QED BY <2>1, <2>3, <3>1, Zenon
    <2>6. /\ u \in Controllers /\ u.rev = Num[a] /\ u.db = a
          /\ u.mode = c.mode /\ u.base = c.base /\ u.blog = c.blog
          /\ u.fdb = c.fdb /\ u.outcome = c.outcome
      BY <1>1, <1>2, <2>5, Zenon DEF Controllers
    <2>7. PICK r : r = [u EXCEPT !.head = a, !.sparse = FALSE]
      OBVIOUS
    <2>8. /\ r \in Controllers /\ r.head = a /\ ~r.sparse
          /\ r.mode = u.mode /\ r.base = u.base /\ r.blog = u.blog
          /\ r.fdb = u.fdb /\ r.outcome = u.outcome
          /\ r.rev = u.rev /\ r.db = u.db
      BY <1>1, <2>6, <2>7, Zenon DEF Controllers
    <2>9. PopTo(c, a) = r
      BY <1>4, <2>4, <2>7, Zenon DEF PopTo
    <2> QED BY <2>6, <2>8, <2>9 DEF Synced, SameLog
  <1> QED BY <1>3, <1>4

\* The blocks of the branch of n above the head are applied.
LEMMA MovedToIs ==
    ASSUME NEW c, Synced(c), NEW n \in Block, c.head \in Anc[n]
    PROVE  LET r == MovedTo(c, Above(c.head, n))
           IN  /\ Synced(r) /\ r.head = n /\ SameLog(r, c)
               /\ r.fdb = c.fdb /\ r.outcome = c.outcome
  <1>1. c \in Controllers /\ c.head \in Block /\ c.db = c.head
        /\ c.rev = Num[c.head]
    BY DEF Synced, Controllers
  <1>2. Num[n] \in Nat /\ Num[c.head] \in Nat
    BY <1>1, Numbers
  <1>3. CASE n = c.head
    <2>1. Above(c.head, n) = {}
      BY <1>3 DEF Above
    <2> QED BY <1>3, <2>1 DEF MovedTo, SameLog
  <1>4. CASE n # c.head
    <2>1. PICK S : S = Above(c.head, n)
      OBVIOUS
    <2>2. S # {} /\ Newest(S) = n
      BY <1>4, <2>1, AboveIs
    <2>3. c.rev + Cardinality(S) = Num[n]
      <3>1. Cardinality(S) = Num[n] - Num[c.head]
        BY <2>1, CountAbove
      <3> QED BY <3>1, <1>1, <1>2
    <2>4. PICK r : r = MovedTo(c, S)
      OBVIOUS
    <2>5. r = [c EXCEPT !.head = Newest(S), !.sparse = FALSE,
                        !.rev = c.rev + Cardinality(S), !.db = Newest(S)]
      BY <2>2, <2>4, <1>1, Zenon DEF MovedTo
    <2>6. r = [c EXCEPT !.head = n, !.sparse = FALSE, !.rev = Num[n], !.db = n]
      BY <2>2, <2>3, <2>5, Zenon
    <2>7. /\ r.head = n /\ r.sparse = FALSE /\ r.rev = Num[n] /\ r.db = n
          /\ r.mode = c.mode /\ r.base = c.base /\ r.blog = c.blog
          /\ r.fdb = c.fdb /\ r.outcome = c.outcome
      BY <2>6, <1>1, Zenon DEF Controllers
    <2>8. r \in Controllers
      BY <2>6, <1>1, <1>2, Zenon DEF Controllers
    <2> QED BY <2>1, <2>4, <2>7, <2>8 DEF Synced, SameLog
  <1> QED BY <1>3, <1>4

\* What holds between any two steps of push_block: head, state, fork database and block log
\* fit together and no bad block was applied.
Sound(c) ==
    /\ Synced(c)
    /\ FdbOK(c.fdb)
    /\ c.fdb.root = c.blog
    /\ c.base = Num[c.blog]
    /\ c.head \in c.fdb.valid \cup {c.fdb.root}
    /\ Anc[c.blog] \cap Bad = {}
    /\ c.fdb.valid \cap Bad = {}

\* Facts about a sound controller in the form the steps below need them.
LEMMA SoundFacts ==
    ASSUME NEW c, Sound(c)
    PROVE  /\ Synced(c) /\ c \in Controllers /\ c.head \in Block /\ c.blog \in Block
           /\ FdbOK(c.fdb) /\ c.fdb.root = c.blog /\ c.base = Num[c.blog]
           /\ c.fdb.valid \subseteq c.fdb.index /\ c.fdb.index \in SUBSET Block
           /\ c.blog \in Anc[c.head]
           /\ c.head \in c.fdb.index \cup {c.fdb.root}
           /\ c.fdb.head \in Block /\ c.fdb.head \in c.fdb.valid \cup {c.fdb.root}
  <1>1. /\ c \in Controllers /\ FdbOK(c.fdb) /\ c.fdb.root = c.blog
        /\ c.head \in c.fdb.valid \cup {c.fdb.root}
    BY DEF Sound, Synced
  <1>2. c.head \in Block /\ c.blog \in Block
    BY <1>1 DEF Controllers
  <1>3. PICK fd : fd = c.fdb
    OBVIOUS
  <1>4. /\ fd.valid \subseteq fd.index /\ fd.index \in SUBSET Block
        /\ fd.head \in Block /\ fd.head \in fd.valid \cup {fd.root}
    BY <1>1, <1>3 DEF FdbOK, ForkDb, BestHead
  <1>5. fd.root \in Anc[c.head]
    BY <1>1, <1>3, <1>4, OKIsWell, KnownDescends
  <1> QED BY <1>1, <1>2, <1>3, <1>4, <1>5 DEF Sound

\* No bad block is on the branch of a validated block.
LEMMA NoBadBranch ==
    ASSUME NEW c, Sound(c), NEW v \in c.fdb.valid \cup {c.fdb.root}
    PROVE  Anc[v] \cap Bad = {}
  <1>1. PICK fd : fd = c.fdb
    OBVIOUS
  <1>2. /\ FdbOK(fd) /\ v \in fd.valid \cup {fd.root} /\ fd.valid \subseteq fd.index
        /\ Anc[fd.root] \cap Bad = {} /\ fd.valid \cap Bad = {}
    BY <1>1, SoundFacts DEF Sound
  <1>3. v \in Block /\ fd.root \in Block /\ fd.root \in Anc[v]
    BY <1>2, OKIsWell, KnownDescends
  <1>4. SUFFICES ASSUME NEW x \in Anc[v], x \in Bad PROVE FALSE
    OBVIOUS
  <1>5. x \in Anc[fd.root] \/ fd.root \in Anc[x]
    BY <1>3, AncChain
  <1>6. CASE fd.root \in Anc[x]
    <2>1. x \in fd.valid \cup {fd.root}
      BY <1>2, <1>6, ValidBranch
    <2>2. fd.root \in Anc[fd.root]
      BY <1>3, AncBasic
    <2> QED BY <1>2, <1>4, <2>1, <2>2
  <1> QED BY <1>2, <1>4, <1>5, <1>6

\* A block on the branch of the head, not below the log.
LEMMA PopToSound ==
    ASSUME NEW c, Sound(c), NEW a \in Anc[c.head], c.blog \in Anc[a]
    PROVE  /\ Sound(PopTo(c, a)) /\ PopTo(c, a).head = a
           /\ SameLog(PopTo(c, a), c) /\ PopTo(c, a).fdb = c.fdb
           /\ PopTo(c, a).outcome = c.outcome
  <1>1. /\ Synced(c) /\ c.head \in Block /\ FdbOK(c.fdb) /\ c.fdb.root = c.blog
        /\ c.base = Num[c.blog] /\ c.head \in c.fdb.valid \cup {c.fdb.root}
    BY SoundFacts DEF Sound
  <1>2. a \in Block /\ c.base <= Num[a]
    BY <1>1, AncBasic, AncNumbers
  <1>3. /\ Synced(PopTo(c, a)) /\ PopTo(c, a).head = a
        /\ SameLog(PopTo(c, a), c) /\ PopTo(c, a).fdb = c.fdb
        /\ PopTo(c, a).outcome = c.outcome
    BY <1>1, <1>2, PopToIs
  <1>4. a \in c.fdb.valid \cup {c.fdb.root}
    <2>1. PICK fd : fd = c.fdb
      OBVIOUS
    <2> QED BY <1>1, <2>1, ValidBranch
  <1> QED BY <1>3, <1>4 DEF Sound, SameLog

\* Blocks of a branch on top of the head are applied and marked valid.
LEMMA ApplyBlocksSound ==
    ASSUME NEW c, Sound(c), NEW n \in c.fdb.index \cup {c.fdb.root}, c.head \in Anc[n],
           Above(c.head, n) \cap Bad = {}
    PROVE  LET r == ApplyBlocks(c, Above(c.head, n))
           IN  /\ Sound(r) /\ r.head = n /\ SameLog(r, c) /\ r.outcome = c.outcome
               /\ Marked(r.fdb, c.fdb, Above(c.head, n))
  <1>1. PICK fd : fd = c.fdb
    OBVIOUS
  <1>2. PICK S : S = Above(c.head, n)
    OBVIOUS
  <1>3. /\ Synced(c) /\ c.head \in Block /\ FdbOK(fd) /\ fd.root = c.blog
        /\ c.base = Num[c.blog] /\ c.head \in fd.valid \cup {fd.root}
        /\ fd.root \in Anc[c.head] /\ n \in fd.index \cup {fd.root}
    BY <1>1, SoundFacts DEF Sound
  <1>4. n \in Block /\ S \subseteq fd.index
    BY <1>2, <1>3, KnownDescends, OKIsWell, AboveInIndex
  <1>5. Marked(MarkAllValid(fd, S), fd, S)
    BY <1>2, <1>3, <1>4, MarkAllValidOK
  <1>6. PICK m : m = MovedTo(c, S)
    OBVIOUS
  <1>7. /\ Synced(m) /\ m.head = n /\ SameLog(m, c)
        /\ m.fdb = fd /\ m.outcome = c.outcome
    BY <1>1, <1>2, <1>3, <1>4, <1>6, MovedToIs
  <1>8. PICK r : r = ApplyBlocks(c, S)
    OBVIOUS
  <1>9. r = [m EXCEPT !.fdb = MarkAllValid(fd, S)]
    BY <1>6, <1>7, <1>8 DEF ApplyBlocks
  <1>10. MarkAllValid(fd, S) \in ForkDb
    BY <1>5 DEF Marked, FdbOK
  <1>11. /\ r \in Controllers /\ r.fdb = MarkAllValid(fd, S) /\ r.head = n
         /\ r.sparse => Irreversible(r)
         /\ r.db = n /\ r.rev = Num[n] /\ SameLog(r, c) /\ r.outcome = c.outcome
    BY <1>7, <1>9, <1>10 DEF Synced, SameLog, Controllers, Irreversible
  <1>12. n \in r.fdb.valid \cup {r.fdb.root}
    <2>1. r.fdb.valid = fd.valid \cup S /\ r.fdb.root = fd.root
      BY <1>5, <1>11 DEF Marked
    <2>2. CASE n = c.head
      BY <2>1, <2>2, <1>3
    <2>3. CASE n # c.head
      <3>1. n \in S
        BY <1>2, <1>3, <1>4, <2>3, AncBasic, AncNumbers, Numbers DEF Above
      <3> QED BY <2>1, <3>1
    <2> QED BY <2>2, <2>3
  <1>13. Sound(r)
    <2>1. FdbOK(r.fdb) /\ r.fdb.root = r.blog /\ r.base = Num[r.blog]
      BY <1>3, <1>5, <1>11 DEF Marked, SameLog
    <2>2. r.fdb.valid \cap Bad = {} /\ Anc[r.blog] \cap Bad = {}
      BY <1>1, <1>2, <1>5, <1>11 DEF Marked, SameLog, Sound
    <2> QED BY <1>11, <1>12, <2>1, <2>2 DEF Sound, Synced
  <1> QED BY <1>1, <1>2, <1>5, <1>8, <1>11, <1>13

\* The blocks of the branch of n that are applied on the head: all up to a block g, above
\* which comes a bad one.
LEMMA AppliedIs ==
    ASSUME NEW c, Synced(c), NEW n \in Block, c.head \in Anc[n]
    PROVE  \E g \in Anc[n] :
              /\ c.head \in Anc[g]
              /\ Applied(c, Above(c.head, n), Bad) = Above(c.head, g)
              /\ Above(c.head, g) \cap Bad = {}
              /\ g # n => \E f \in Above(c.head, n) \ Above(c.head, g) :
                             /\ f = Oldest(Above(c.head, n) \ Above(c.head, g))
                             /\ f \in Bad
  <1>1. PICK h : h = c.head
    OBVIOUS
  <1>2. PICK B : B = Above(h, n)
    OBVIOUS
  <1>3. h \in Block /\ h \in Anc[n] /\ c.rev = Num[h] /\ n \in Anc[n] /\ h \in Anc[h]
    BY <1>1, AncBasic DEF Synced, Controllers
  <1>4. B \in SUBSET Block /\ \A x \in B : Num[x] \in Nat
    BY <1>2, AncBasic, Numbers DEF Above
  <1>5. PICK P : P = Applied(c, B, Bad)
    OBVIOUS
  <1>6. CASE h = n
    <2>1. B = {} /\ P = {} /\ Above(h, n) = {}
      BY <1>2, <1>5, <1>6 DEF Above, Applied, Linked
    <2> QED BY <1>1, <1>2, <1>3, <1>5, <1>6, <2>1
  <1>7. CASE h # n
    <2>1. B # {} /\ Prev[Oldest(B)] = h /\ Newest(B) = n
      BY <1>2, <1>3, <1>7, AboveIs
    <2>2. P = {b \in B : \A x \in B : Num[x] <= Num[b] => x \notin Bad}
      BY <1>1, <1>3, <1>5, <2>1 DEF Applied, Linked
    <2>3. P \cap Bad = {} /\ P \subseteq B
      BY <1>4, <2>2
    <2>4. Prefix(P, h, n)
      <3>1. ASSUME NEW x \in P, NEW y \in B, Num[y] <= Num[x] PROVE y \in P
        <4>1. \A z \in B : Num[z] <= Num[y] => Num[z] <= Num[x]
          BY <1>4, <2>3, <3>1
        <4> QED BY <2>2, <4>1
      <3> QED BY <1>2, <2>3, <3>1 DEF Prefix
    <2>5. PICK g \in Anc[n] : h \in Anc[g] /\ P = Above(h, g) /\ (P = B => g = n)
      <3>1. CASE P = {}
        BY <1>3, <2>1, <3>1 DEF Above
      <3>2. CASE P # {}
        BY <1>3, <2>1, <2>4, <3>2, PrefixIs
      <3> QED BY <3>1, <3>2
    <2>6. ASSUME g # n
          PROVE  \E f \in B \ P : f = Oldest(B \ P) /\ f \in Bad
      <3>1. PICK D : D = B \ P
        OBVIOUS
      <3>2. D # {} /\ D \in SUBSET Block
        BY <1>4, <2>3, <2>5, <2>6, <3>1
      <3>3. PICK f \in D : f = Oldest(D) /\ \A x \in D : Num[f] <= Num[x]
        BY <3>2, OldestIs
      <3>4. PICK x \in B : Num[x] <= Num[f] /\ x \in Bad
        BY <2>2, <3>1, <3>3
      <3>5. x \in D
        BY <2>3, <3>1, <3>4
      <3>6. Num[x] = Num[f]
        BY <1>4, <3>1, <3>3, <3>4, <3>5
      <3>7. x = f
        BY <1>2, <3>1, <3>3, <3>4, <3>6, SameNumber DEF Above
      <3> QED BY <3>1, <3>3, <3>4, <3>7
    <2> QED BY <1>1, <1>2, <1>5, <2>3, <2>5, <2>6
  <1> QED BY <1>6, <1>7

-----------------------------------------------------------------------------
(* log_irreversible *)

\* What is said of the controller between two handlers: in speculative mode its head is a
\* best block known; in irreversible mode nothing but the head is validated, and that only
\* when the head could not be appended to the block log.
Best(c) == \A b \in c.fdb.index : ~FirstPreferred(b, c.head)
ControllerOK(c) ==
    /\ Sound(c)
    /\ c.outcome \in {"ok", "threw"}
    /\ IF Irreversible(c) THEN c.fdb.valid = {c.head} \ {c.blog} ELSE Best(c)

\* What a handler may make of the controller c.
Follows(r, c) ==
    /\ ControllerOK(r)
    /\ r.mode = c.mode
    /\ ~FirstPreferred(c.head, r.head)
    /\ c.blog \in Anc[r.blog]

\* A handler that makes the good branch of t the chain ends well when the log has room.
EndsWell(r, t, room) == Anc[t] \cap Bad = {} /\ room = MaxNum => r.outcome = "ok"

\* In irreversible mode the head follows the log as long as the log has room.
LogsAll(r, c, room) == c.head = c.blog /\ room = MaxNum => r.head = r.blog

\* A change of the outcome keeps all that.
LEMMA EndedSound ==
    ASSUME NEW c, Sound(c), NEW how \in Outcomes
    PROVE  Sound(Ended(c, how))
  BY EndedIs, SoundFacts DEF Sound, Synced, SameLog, Irreversible

\* The end of log_irreversible changes the outcome only, and that only if it failed.
LEMMA EndedLoggingIs ==
    ASSUME NEW c, ControllerOK(c), NEW done
    PROVE  /\ ControllerOK(EndedLogging(c, done))
           /\ EndedLogging(c, done).mode = c.mode /\ EndedLogging(c, done).head = c.head
           /\ EndedLogging(c, done).blog = c.blog
           /\ done => EndedLogging(c, done).outcome = c.outcome
  <1>1. c \in Controllers /\ Sound(c)
    BY SoundFacts DEF ControllerOK
  <1>2. PICK r : r = Ended(c, "threw")
    OBVIOUS
  <1>3. /\ r.outcome = "threw" /\ SameLog(r, c) /\ r.fdb = c.fdb /\ r.head = c.head
        /\ Sound(r)
    BY <1>1, <1>2, EndedIs, EndedSound DEF Outcomes
  <1>4. ControllerOK(r)
    BY <1>3 DEF ControllerOK, SameLog, Irreversible, Best
  <1>5. /\ EndedLogging(c, done) = c \/ EndedLogging(c, done) = r
        /\ done => EndedLogging(c, done) = c
    BY <1>2 DEF EndedLogging
  <1> QED BY <1>3, <1>4, <1>5 DEF SameLog

\* The root of the fork database and the block log move to a block of the branch of the
\* head: advance_root does not throw and leaves the head.
LEMMA RootMovedSound ==
    ASSUME NEW c, Sound(c), NEW n \in c.fdb.valid, n \in Anc[c.head], n \in Anc[c.fdb.head]
    PROVE  LET r == RootMoved(c, n)
           IN  /\ Sound(r) /\ r.mode = c.mode /\ r.head = c.head /\ r.outcome = c.outcome
               /\ r.blog = n /\ c.blog \in Anc[n]
               /\ r.fdb.index \subseteq c.fdb.index
               /\ r.fdb.valid = {x \in c.fdb.valid \ {n} : n \in Anc[x]}
  <1>1. PICK fd : fd = c.fdb
    OBVIOUS
  <1>2. /\ FdbOK(fd) /\ n \in fd.valid /\ n \in fd.index /\ fd.valid \subseteq fd.index
        /\ n \in Anc[fd.head] /\ fd.root = c.blog /\ fd.index \in SUBSET Block
        /\ c \in Controllers /\ c.head \in Block /\ c.rev = Num[c.head]
        /\ c.base = Num[fd.root] /\ c.head \in fd.valid \cup {fd.root}
    BY <1>1, SoundFacts DEF Sound, Synced
  <1>3. /\ n \in Block /\ fd.root \in Block /\ fd.root \in Anc[n]
        /\ Num[fd.root] < Num[n] /\ Num[n] <= Num[c.head]
    <2>1. fd \in ForkDb /\ Rooted(fd)
      BY <1>2 DEF FdbOK
    <2> QED BY <1>2, <2>1, IndexAboveRoot, OKIsWell, KnownDescends, AncNumbers
  <1>4. Num[n] \in Nat /\ Num[fd.root] \in Nat /\ Num[c.head] \in Nat
    BY <1>2, <1>3, Numbers
  <1>5. PICK new : new = AdvanceRoot(fd, n)
    OBVIOUS
  <1>6. /\ FdbOK(new) /\ CanAdvanceRoot(fd, n)
        /\ new.index = {x \in fd.index \ {n} : n \in Anc[x]}
        /\ new.valid = fd.valid \cap {x \in fd.index \ {n} : n \in Anc[x]}
    BY <1>2, <1>5, AdvanceRootOK
  <1>7. new.root = n /\ new \in ForkDb
    <2>1. fd \in ForkDb /\ new \in ForkDb
      BY <1>2, <1>6 DEF FdbOK
    <2> QED BY <1>5, <2>1, Zenon DEF AdvanceRoot, ForkDb
  <1>8. PICK k : k = Commit(c, Num[n])
    OBVIOUS
  <1>9. AtLeast(c.base, AtMost(Num[n], c.rev)) = Num[n]
    BY <1>2, <1>3, <1>4 DEF AtLeast, AtMost
  <1>10. k = [c EXCEPT !.base = Num[n]]
    BY <1>8, <1>9 DEF Commit
  <1>11. /\ k \in Controllers /\ k.base = Num[n] /\ k.mode = c.mode /\ k.head = c.head
         /\ k.outcome = c.outcome /\ k.fdb = fd /\ k.sparse = c.sparse /\ k.db = c.db
         /\ k.rev = c.rev
    BY <1>1, <1>2, <1>4, <1>10 DEF Controllers
  <1>12. PICK r : r = RootMoved(c, n)
    OBVIOUS
  <1>13. r = [k EXCEPT !.blog = n, !.fdb = new]
    <2>1. r = [k EXCEPT !.blog = n, !.fdb = AdvanceRoot(k.fdb, n)]
      BY <1>1, <1>6, <1>8, <1>12, Zenon DEF RootMoved
    <2> QED BY <2>1, <1>5, <1>11, Zenon
  <1>14. /\ r \in Controllers /\ r.base = k.base /\ r.mode = k.mode /\ r.head = k.head
         /\ r.outcome = k.outcome /\ r.fdb = new /\ r.sparse = k.sparse /\ r.db = k.db
         /\ r.rev = k.rev /\ r.blog = n
    BY <1>3, <1>7, <1>11, <1>13, Zenon DEF Controllers
  <1>15. new.valid = {x \in fd.valid \ {n} : n \in Anc[x]}
    BY <1>2, <1>6
  <1>16. c.head \in new.valid \cup {n}
    BY <1>2, <1>3, <1>4, <1>15, AncNumbers
  <1>17. Anc[n] \cap Bad = {} /\ new.valid \cap Bad = {}
    BY <1>1, <1>2, <1>15, NoBadBranch DEF Sound
  <1>18. Sound(r)
    <2>1. Synced(r)
      BY <1>11, <1>14 DEF Sound, Synced, Irreversible
    <2> QED BY <2>1, <1>6, <1>7, <1>11, <1>14, <1>16, <1>17 DEF Sound
  <1> QED BY <1>1, <1>2, <1>3, <1>6, <1>11, <1>12, <1>14, <1>15, <1>18

\* In speculative mode, with the head of the fork database the head of the controller.
LEMMA LogSpeculative ==
    ASSUME NEW c, Sound(c), ~Irreversible(c), Best(c), c.fdb.head = c.head,
           c.outcome = "ok", NEW room
    PROVE  LET r == LogIrreversible(c, Bad, room)
           IN  Follows(r, c) /\ r.head = c.head /\ EndsWell(r, c.head, room)
  <1>1. PICK fd : fd = c.fdb
    OBVIOUS
  <1>2. PICK h : h = c.head
    OBVIOUS
  <1>3. PICK r : r = LogIrreversible(c, Bad, room)
    OBVIOUS
  <1>4. /\ FdbOK(fd) /\ fd.valid \subseteq fd.index /\ fd.head = h /\ fd.root = c.blog
        /\ h \in Block /\ c.blog \in Block /\ h \in fd.valid \cup {fd.root}
    BY <1>1, <1>2, SoundFacts DEF Sound
  <1>5. ~FirstPreferred(h, h) /\ c.blog \in Anc[c.blog]
    BY <1>4, FirstPreferredOrder, AncBasic
  <1>6. ControllerOK(c)
    BY DEF ControllerOK
  <1>7. CASE Lib[h] <= Num[c.blog]
    <2>1. r = c
      BY <1>1, <1>2, <1>3, <1>4, <1>7 DEF LogIrreversible, LogUpTo, ForkHead
    <2> QED BY <1>2, <1>3, <1>5, <1>6, <2>1 DEF Follows, EndsWell
  <1>8. CASE ~(Lib[h] <= Num[c.blog])
    <2>1. PICK branch : branch = FetchBranch(fd, h, Lib[h])
      OBVIOUS
    <2>2. PICK done : done = Logged(branch, room)
      OBVIOUS
    <2>3. r = EndedLogging(RootFollows(c, done), done = branch)
      <3>1. LogIrreversible(c, Bad, room) = LogBranch(c, branch, Bad, room)
        BY <1>1, <1>2, <1>4, <1>8, <2>1 DEF LogIrreversible, LogUpTo, ForkHead
      <3>2. LogBranch(c, branch, Bad, room) = LogBlocks(c, branch, branch, room)
        BY DEF LogBranch
      <3>3. LogBlocks(c, branch, branch, room)
              = EndedLogging(RootFollows(c, done), done = branch)
        BY <2>2 DEF LogBlocks
      <3> QED BY <1>3, <3>1, <3>2, <3>3
    <2>4. PICK m : m = RootFollows(c, done)
      OBVIOUS
    <2>5. /\ ControllerOK(m) /\ m.mode = c.mode /\ m.head = h /\ c.blog \in Anc[m.blog]
          /\ m.outcome = "ok"
      <3>1. CASE done = {}
        BY <1>2, <1>5, <1>6, <2>4, <3>1 DEF RootFollows
      <3>2. CASE done # {}
        <4>1. done \in SUBSET Block /\ done \subseteq fd.index /\ done \subseteq Anc[h]
          BY <1>4, <2>1, <2>2, AncBasic DEF Logged, FetchBranch
        <4>2. PICK n : n = Newest(done)
          OBVIOUS
        <4>3. n \in done /\ n \in fd.index /\ n \in Anc[h]
          BY <3>2, <4>1, <4>2, NewestIs
        <4>4. n \in fd.valid
          <5>1. fd.root \in Anc[n] /\ n # fd.root
            BY <1>4, <4>3 DEF FdbOK, Rooted
          <5> QED BY <1>4, <4>3, <5>1, ValidBranch
        <4>5. m = RootMoved(c, n)
          BY <2>4, <3>2, <4>2 DEF RootFollows
        <4>6. /\ Sound(m) /\ m.mode = c.mode /\ m.head = c.head /\ m.outcome = c.outcome
              /\ m.blog = n /\ c.blog \in Anc[n] /\ m.fdb.index \subseteq c.fdb.index
          BY <1>1, <1>2, <1>4, <4>3, <4>4, <4>5, RootMovedSound
        <4> QED BY <1>2, <4>6 DEF ControllerOK, Irreversible, Best
      <3> QED BY <3>1, <3>2
    <2>6. /\ ControllerOK(r) /\ r.mode = m.mode /\ r.head = m.head /\ r.blog = m.blog
          /\ done = branch => r.outcome = m.outcome
      BY <2>3, <2>4, <2>5, EndedLoggingIs
    <2>7. room = MaxNum => done = branch
      BY <1>4, <2>1, <2>2, MaxNumIs, AncBasic DEF Logged, FetchBranch
    <2> QED BY <1>2, <1>3, <1>5, <2>5, <2>6, <2>7 DEF Follows, EndsWell
  <1> QED BY <1>7, <1>8

\* A prefix of a branch is what is above a on the branch of one of its blocks.
LEMMA PrefixTop ==
    ASSUME NEW b \in Block, NEW a \in Anc[b], NEW S, Prefix(S, a, b)
    PROVE  \E y \in Anc[b] : a \in Anc[y] /\ S = Above(a, y)
  <1>1. a \in Anc[a] /\ Above(a, a) = {}
    BY AncBasic DEF Above
  <1>2. CASE S = {}
    BY <1>1, <1>2
  <1>3. CASE S # {}
    BY <1>3, PrefixIs
  <1> QED BY <1>2, <1>3

\* fetch_branch returns the blocks of the branch from the root on.
LEMMA FetchBranchPrefix ==
    ASSUME NEW fd, FdbWell(fd), NEW top \in fd.index \cup {fd.root}, NEW k \in Nat
    PROVE  Prefix(FetchBranch(fd, top, k), fd.root, top)
  <1>1. top \in Block /\ fd.root \in Block /\ fd.root \in Anc[top]
    BY KnownDescends
  <1>2. Above(fd.root, top) \subseteq fd.index
    BY <1>1, AncBasic, AboveInIndex
  <1>3. ASSUME NEW x \in FetchBranch(fd, top, k) PROVE x \in Above(fd.root, top)
    <2>1. x \in Anc[top] /\ x \in fd.index /\ fd \in ForkDb /\ Rooted(fd)
      BY DEF FetchBranch, FdbWell
    <2>2. Num[fd.root] < Num[x] /\ x \in Block
      BY <2>1, IndexAboveRoot
    <2> QED BY <1>1, <2>1, <2>2, AncNumbers, Numbers DEF Above
  <1>4. ASSUME NEW x \in FetchBranch(fd, top, k), NEW y \in Above(fd.root, top),
               Num[y] <= Num[x]
        PROVE  y \in FetchBranch(fd, top, k)
    <2>1. Num[x] <= k /\ x \in Block /\ y \in Block /\ y \in Anc[top]
      BY <1>1, AncBasic DEF FetchBranch, Above
    <2>2. Num[x] \in Nat /\ Num[y] \in Nat
      BY <2>1, Numbers
    <2>3. Num[y] <= k
      BY <1>4, <2>1, <2>2
    <2> QED BY <1>2, <2>1, <2>3 DEF FetchBranch
  <1> QED BY <1>3, <1>4 DEF Prefix

\* pending_head is a known block: the head, or a block not validated that is preferred
\* over it.
LEMMA PendingHeadIs ==
    ASSUME NEW fd, FdbWell(fd)
    PROVE  /\ PendingHead(fd) \in fd.index \cup {fd.root}
           /\ \/ PendingHead(fd) = fd.head
              \/ PendingHead(fd) \in fd.index \ fd.valid /\ FirstPreferred(PendingHead(fd), fd.head)
  <1>1. fd.head \in fd.index \cup {fd.root} /\ fd.index \in SUBSET Block
    BY DEF FdbWell, BestHead, ForkDb
  <1>2. ASSUME fd.index \ fd.valid # {} PROVE FirstInIndex(fd.index \ fd.valid) \in fd.index \ fd.valid
    BY <1>1, <1>2, FirstInIndexIsFirst
  <1> QED BY <1>1, <1>2 DEF PendingHead

\* When the block log takes the blocks up to l of the branch of u, the only block applied
\* above l is u.
LEMMA TriedIs ==
    ASSUME NEW h \in Block, NEW g \in Block, h \in Anc[g], NEW room \in Nat
    PROVE  \E u \in Anc[g], l \in Anc[g] :
              /\ h \in Anc[l] /\ l \in Anc[u]
              /\ Tried(Above(h, g), room) = Above(h, u)
              /\ Logged(Above(h, g), room) = Above(h, l)
              /\ {x \in Above(h, u) \ {l} : l \in Anc[x]} = {u} \ {l}
              /\ room = MaxNum => u = l
  <1>1. PICK E : E = Above(h, g)
    OBVIOUS
  <1>2. E \in SUBSET Block /\ \A x \in E : Num[x] \in Nat
    BY <1>1, AncBasic, Numbers DEF Above
  <1>3. Prefix(Tried(E, room), h, g)
    <2>1. ASSUME NEW x \in Tried(E, room), NEW y \in E, Num[y] <= Num[x]
          PROVE  y \in Tried(E, room)
      <3>1. x \in E /\ \A z \in E : Num[z] < Num[x] => Num[z] <= room
        BY DEF Tried
      <3>2. \A z \in E : Num[z] < Num[y] => Num[z] < Num[x]
        BY <1>2, <2>1, <3>1
      <3> QED BY <3>1, <3>2 DEF Tried
    <2> QED BY <1>1, <2>1 DEF Prefix, Tried
  <1>4. Prefix(Logged(E, room), h, g)
    <2>1. ASSUME NEW x \in Logged(E, room), NEW y \in E, Num[y] <= Num[x]
          PROVE  y \in Logged(E, room)
      BY <1>2, <2>1 DEF Logged
    <2> QED BY <1>1, <2>1 DEF Prefix, Logged
  <1>5. PICK u \in Anc[g] : h \in Anc[u] /\ Tried(E, room) = Above(h, u)
    BY <1>3, PrefixTop
  <1>6. PICK l \in Anc[g] : h \in Anc[l] /\ Logged(E, room) = Above(h, l)
    BY <1>4, PrefixTop
  <1>7. u \in Block /\ l \in Block /\ h \in Anc[h] /\ u \in Anc[u] /\ l \in Anc[l]
    BY AncBasic
  <1>8. Logged(E, room) \subseteq Tried(E, room)
    <2>1. ASSUME NEW x \in Logged(E, room), NEW z \in E, Num[z] < Num[x] PROVE Num[z] <= room
      BY <1>2, <2>1 DEF Logged
    <2> QED BY <2>1 DEF Logged, Tried
  <1>9. l \in Anc[u]
    <2>1. CASE l = h
      BY <2>1, <1>5
    <2>2. CASE l # h
      <3>1. l \in Above(h, l)
        BY <2>2, <1>6, <1>7, AncNumbers, Numbers DEF Above
      <3> QED BY <3>1, <1>5, <1>6, <1>8 DEF Above
    <2> QED BY <2>1, <2>2
  <1>10. ASSUME NEW x \in Above(h, u), x # l, l \in Anc[x] PROVE x = u
    <2>1. x \in Block /\ x \in Anc[u] /\ Num[h] < Num[x]
      BY <1>5, <1>7, AboveDescends
    <2>2. x \notin Logged(E, room)
      <3>1. x \notin Anc[l]
        BY <1>7, <1>10, <2>1, AncNumbers, Numbers
      <3> QED BY <3>1, <1>6 DEF Above
    <2>3. x \in E /\ ~(Num[x] <= room)
      BY <1>5, <2>2 DEF Tried, Logged
    <2>4. SUFFICES ASSUME x # u PROVE FALSE
      OBVIOUS
    <2>5. Num[x] < Num[u] /\ u \notin Anc[h]
      BY <1>7, <2>1, <2>4, AncNumbers, Numbers
    <2>6. u \in Tried(E, room)
      BY <1>5, <1>7, <2>5 DEF Above
    <2> QED BY <2>3, <2>5, <2>6 DEF Tried
  <1>11. ASSUME u # l PROVE u \in Above(h, u)
    <2>1. u \notin Anc[h]
      BY <1>5, <1>6, <1>7, <1>9, <1>11, AncNumbers, Numbers
    <2> QED BY <2>1, <1>7 DEF Above
  <1>12. {x \in Above(h, u) \ {l} : l \in Anc[x]} = {u} \ {l}
    BY <1>9, <1>10, <1>11
  <1>13. ASSUME room = MaxNum PROVE u = l
    <2>1. Logged(E, room) = E /\ Tried(E, room) = E
      BY <1>2, <1>13, MaxNumIs DEF Logged, Tried
    <2>2. Above(h, u) = Above(h, l)
      BY <1>5, <1>6, <2>1
    <2>3. SUFFICES ASSUME u # l PROVE FALSE
      OBVIOUS
    <2>4. u \in Anc[l]
      BY <1>11, <2>2, <2>3 DEF Above
    <2> QED BY <1>7, <1>9, <2>3, <2>4, AncNumbers, Numbers
  <1> QED BY <1>1, <1>5, <1>6, <1>9, <1>12, <1>13

\* Applying no block.
LEMMA ApplyNothing ==
    ASSUME NEW c \in Controllers
    PROVE  ApplyBlocks(c, {}) = c
  <1>1. MovedTo(c, {}) = c /\ MarkAllValid(c.fdb, {}) = c.fdb
    BY DEF MovedTo, MarkAllValid
  <1> QED BY <1>1 DEF ApplyBlocks, Controllers

\* In irreversible mode: the blocks that became irreversible are applied and logged up to
\* the first that fails; after a block that was applied but not logged nothing more happens.
LEMMA LogInIrreversibleMode ==
    ASSUME NEW c, Sound(c), Irreversible(c), c.fdb.valid = {c.head} \ {c.blog},
           c.outcome = "ok", NEW room \in Nat
    PROVE  /\ Follows(LogIrreversible(c, Bad, room), c)
           /\ LogsAll(LogIrreversible(c, Bad, room), c, room)
  <1>1. PICK fd : fd = c.fdb
    OBVIOUS
  <1>2. PICK h : h = c.head
    OBVIOUS
  <1>3. PICK r : r = LogIrreversible(c, Bad, room)
    OBVIOUS
  <1>4. PICK top : top = PendingHead(fd)
    OBVIOUS
  <1>5. /\ Synced(c) /\ c \in Controllers /\ FdbOK(fd) /\ fd.valid \subseteq fd.index
        /\ fd.root = c.blog /\ h \in Block /\ c.blog \in Block /\ h \in fd.valid \cup {fd.root}
        /\ c.blog \in Anc[h] /\ fd.valid = {h} \ {fd.root} /\ fd.index \in SUBSET Block
    BY <1>1, <1>2, SoundFacts DEF Sound
  <1>6. ~FirstPreferred(h, h) /\ c.blog \in Anc[c.blog]
    BY <1>5, FirstPreferredOrder, AncBasic
  <1>7. ControllerOK(c) /\ Follows(c, c)
    BY <1>2, <1>6 DEF ControllerOK, Follows
  <1>8. top \in fd.index \cup {fd.root} /\ top \in Block /\ fd.root \in Anc[top]
    BY <1>4, <1>5, PendingHeadIs, OKIsWell, KnownDescends
  <1>9. CASE Lib[top] <= Num[c.blog]
    <2>1. r = c
      BY <1>1, <1>3, <1>4, <1>5, <1>9 DEF LogIrreversible, LogUpTo, ForkHead
    <2> QED BY <1>3, <1>7, <2>1 DEF LogsAll
  <1>10. CASE ~(Lib[top] <= Num[c.blog])
    <2>1. PICK branch : branch = FetchBranch(fd, top, Lib[top])
      OBVIOUS
    <2>2. Prefix(branch, fd.root, top)
      BY <1>5, <1>8, <2>1, OKIsWell, FetchBranchPrefix, Numbers
    <2>3. PICK ex : ex = Applied(c, branch, Bad)
      OBVIOUS
    <2>4. PICK done : done = Logged(ex, room)
      OBVIOUS
    <2>5. PICK tried : tried = Tried(ex, room)
      OBVIOUS
    <2>6. r = EndedLogging(RootFollows(ApplyBlocks(c, tried), done), done = branch)
      <3>1. LogIrreversible(c, Bad, room) = LogBranch(c, branch, Bad, room)
        BY <1>1, <1>4, <1>5, <1>10, <2>1 DEF LogIrreversible, LogUpTo, ForkHead
      <3>2. LogBranch(c, branch, Bad, room) = LogBlocks(c, branch, ex, room)
        BY <2>3 DEF LogBranch
      <3>3. LogBlocks(c, branch, ex, room)
              = EndedLogging(RootFollows(ApplyBlocks(c, tried), done), done = branch)
        BY <2>4, <2>5 DEF LogBlocks
      <3> QED BY <1>3, <3>1, <3>2, <3>3
    <2>7. PICK m : m = ApplyBlocks(c, tried)
      OBVIOUS
    <2>8. PICK q : q = RootFollows(m, done)
      OBVIOUS
    <2>9. CASE h # c.blog
      <3>1. Prev[Oldest(branch)] = h /\ branch # {} => FALSE
        BY <1>5, <1>8, <2>2, <2>9, PrefixIs
      <3>2. ex = {}
        BY <1>2, <2>3, <3>1 DEF Applied, Linked
      <3>3. tried = {} /\ done = {}
        BY <2>4, <2>5, <3>2 DEF Tried, Logged
      <3>4. q = c
        BY <1>5, <2>7, <2>8, <3>3, ApplyNothing DEF RootFollows
      <3> QED BY <1>2, <1>3, <1>7, <2>6, <2>7, <2>8, <2>9, <3>4, EndedLoggingIs DEF Follows, LogsAll
    <2>10. CASE h = c.blog
      <3>1. PICK y \in Anc[top] : h \in Anc[y] /\ branch = Above(h, y)
        BY <1>5, <1>8, <2>2, <2>10, PrefixTop
      <3>2. y \in Block
        BY <1>8, <3>1, AncBasic
      <3>3. PICK g \in Anc[y] : /\ h \in Anc[g] /\ ex = Above(h, g)
                                /\ Above(h, g) \cap Bad = {}
        BY <1>2, <1>5, <2>3, <3>1, <3>2, AppliedIs
      <3>4. g \in Block /\ g \in Anc[top]
        BY <1>8, <3>1, <3>2, <3>3, AncBasic, AncTransitive
      <3>5. PICK u \in Anc[g] : \E l \in Anc[g] :
                  /\ h \in Anc[l] /\ l \in Anc[u] /\ tried = Above(h, u) /\ done = Above(h, l)
                  /\ {x \in Above(h, u) \ {l} : l \in Anc[x]} = {u} \ {l}
                  /\ room = MaxNum => u = l
        BY <1>5, <2>4, <2>5, <3>3, <3>4, TriedIs
      <3>6. PICK l \in Anc[g] :
                  /\ h \in Anc[l] /\ l \in Anc[u] /\ tried = Above(h, u) /\ done = Above(h, l)
                  /\ {x \in Above(h, u) \ {l} : l \in Anc[x]} = {u} \ {l}
                  /\ room = MaxNum => u = l
        BY <3>5
      <3>7. u \in Block /\ l \in Block /\ h \in Anc[u] /\ u \in Anc[top] /\ u \in Anc[u] /\ h \in Anc[h]
        BY <1>5, <1>8, <3>4, <3>6, AncBasic, AncTransitive
      <3>8. u \in fd.index \cup {fd.root}
        <4>1. CASE u = h
          BY <4>1, <1>5, <2>10
        <4>2. CASE u # h
          <5>1. u \in Above(h, top)
            BY <4>2, <1>5, <3>7, AncNumbers, Numbers DEF Above
          <5>2. Above(fd.root, top) \subseteq fd.index
            BY <1>5, <1>8, AncBasic, OKIsWell, AboveInIndex
          <5> QED BY <5>1, <5>2, <1>5, <2>10
        <4> QED BY <4>1, <4>2
      <3>9. tried \cap Bad = {}
        <4>1. Above(h, u) \subseteq Above(h, g)
          BY <3>4, AncTransitive DEF Above
        <4> QED BY <4>1, <3>3, <3>6
      <3>10. /\ Sound(m) /\ m.head = u /\ SameLog(m, c) /\ m.outcome = c.outcome
             /\ Marked(m.fdb, fd, tried)
        BY <1>1, <1>2, <2>7, <3>6, <3>7, <3>8, <3>9, ApplyBlocksSound
      <3>11. m.fdb.valid = tried /\ m.mode = c.mode /\ m.blog = h
        BY <1>5, <2>10, <3>10 DEF Marked, SameLog
      <3>12. m.fdb.head = u
        <4>1. PICK fm : fm = m.fdb
          OBVIOUS
        <4>2. /\ fm.head \in tried \cup {h} /\ \A x \in tried : ~FirstPreferred(x, fm.head)
              /\ u \in tried \cup {h}
          BY <1>5, <2>10, <3>10, <3>11, <4>1 DEF Marked, FdbOK, BestHead, Sound
        <4>3. fm.head \in Anc[u]
          BY <4>2, <3>6, <3>7 DEF Above
        <4>4. u \in tried \/ fm.head = u
          BY <4>2, <3>6 DEF Above
        <4> QED BY <4>1, <4>2, <4>3, <4>4, <3>7, AncNumbers
      <3>13. ControllerOK(q) /\ q.mode = c.mode /\ q.head = u /\ h \in Anc[q.blog] /\ q.blog = l
        <4>1. CASE done = {}
          <5>1. l = h
            BY <4>1, <3>6, <3>7, AncBasic, AncNumbers, Numbers DEF Above
          <5>2. \A x \in Above(h, u) : x # h /\ h \in Anc[x]
            BY <3>7, AboveDescends
          <5>3. tried = {u} \ {h}
            BY <3>6, <5>1, <5>2
          <5>4. q = m
            BY <4>1, <2>8 DEF RootFollows
          <5> QED BY <5>1, <5>3, <5>4, <3>7, <3>10, <3>11 DEF ControllerOK, Irreversible
        <4>2. CASE done # {}
          <5>1. l # h
            BY <4>2, <3>6 DEF Above
          <5>2. Newest(done) = l
            BY <5>1, <3>6, <3>7, AboveIs
          <5>3. l \in tried
            BY <5>1, <1>5, <3>6, <3>7, AncNumbers, Numbers DEF Above
          <5>4. q = RootMoved(m, l)
            BY <4>2, <2>8, <5>2 DEF RootFollows
          <5>5. /\ Sound(q) /\ q.mode = m.mode /\ q.head = m.head /\ q.outcome = m.outcome
                /\ q.blog = l /\ q.fdb.valid = {x \in m.fdb.valid \ {l} : l \in Anc[x]}
            BY <3>6, <3>10, <3>11, <3>12, <5>3, <5>4, RootMovedSound
          <5>6. q.fdb.valid = {u} \ {l}
            BY <5>5, <3>6, <3>11
          <5> QED BY <5>5, <5>6, <3>6, <3>10, <3>11 DEF ControllerOK, Irreversible
        <4> QED BY <4>1, <4>2
      <3>14. ~FirstPreferred(h, u)
        BY <1>5, <3>7, AncNumbers, FirstPreferredOrder
      <3> QED BY <1>2, <1>3, <2>6, <2>7, <2>8, <2>10, <3>6, <3>13, <3>14, EndedLoggingIs
           DEF Follows, LogsAll
    <2> QED BY <2>9, <2>10
  <1> QED BY <1>9, <1>10

-----------------------------------------------------------------------------
(* maybe_switch_forks *)

\* pending_head, once its branch is applied, is the head of the fork database.
LEMMA MarkedHead ==
    ASSUME NEW fd, FdbOK(fd), NEW a, a \in fd.valid \cup {fd.root}, NEW t, t = PendingHead(fd),
           a \in Anc[t], NEW new, Marked(new, fd, Above(a, t))
    PROVE  new.head = t
  <1>1. /\ t \in fd.index \cup {fd.root}
        /\ t = fd.head \/ (t \in fd.index \ fd.valid /\ FirstPreferred(t, fd.head))
    BY OKIsWell, PendingHeadIs
  <1>2. /\ fd.valid \subseteq fd.index /\ fd.index \in SUBSET Block /\ fd.head \in Block
        /\ fd.head \in fd.valid \cup {fd.root} /\ \A x \in fd.valid : ~FirstPreferred(x, fd.head)
    BY DEF FdbOK, BestHead, ForkDb
  <1>3. t \in Block /\ fd.root \in Block /\ fd.root \in Anc[t] /\ t \in Anc[t]
    BY <1>1, OKIsWell, KnownDescends, AncBasic
  <1>4. a \in Block /\ fd.root \in Anc[a]
    BY <1>2, OKIsWell, KnownDescends
  <1>5. CASE t = fd.head
    <2>1. ASSUME NEW x \in Above(a, t) PROVE x \in fd.valid
      <3>1. x \in Anc[t] /\ x \notin Anc[a] /\ a \in Anc[x] /\ x \in Block
        BY <1>3, AboveDescends DEF Above
      <3>2. fd.root \in Anc[x] /\ x # fd.root
        BY <1>4, <3>1, AncTransitive
      <3> QED BY <1>2, <1>5, <3>1, <3>2, ValidBranch
    <2>2. new = fd
      BY <2>1 DEF Marked
    <2> QED BY <1>5, <2>2
  <1>6. CASE t \in fd.index \ fd.valid /\ FirstPreferred(t, fd.head)
    <2>1. t # fd.root /\ t # a
      BY <1>6 DEF FdbOK, Rooted
    <2>2. t \in Above(a, t)
      BY <1>3, <1>4, <2>1, AncNumbers, Numbers DEF Above
    <2>3. /\ new.head \in fd.valid \cup Above(a, t) \cup {fd.root} /\ ~FirstPreferred(t, new.head)
      BY <2>2 DEF Marked, FdbOK, BestHead
    <2>4. CASE new.head \in Anc[t]
      BY <1>3, <2>3, <2>4, AncNumbers
    <2>5. CASE new.head \in fd.valid
      BY <1>2, <1>3, <1>6, <2>3, <2>5, FirstPreferredOrder
    <2> QED BY <1>3, <2>3, <2>4, <2>5 DEF Above
  <1> QED BY <1>1, <1>5, <1>6

\* The branch of pending_head is applied without a failure.
LEMMA ApplyTop ==
    ASSUME NEW c, Sound(c), ~Irreversible(c), c.outcome = "ok",
           NEW t, t = PendingHead(c.fdb), c.head \in Anc[t], Above(c.head, t) \cap Bad = {},
           NEW room
    PROVE  LET r == LogIrreversible(ApplyBlocks(c, Above(c.head, t)), Bad, room)
           IN  /\ ControllerOK(r) /\ r.head = t /\ r.mode = c.mode /\ c.blog \in Anc[r.blog]
               /\ EndsWell(r, t, room)
  <1>1. PICK fd : fd = c.fdb
    OBVIOUS
  <1>2. FdbOK(fd) /\ c.head \in fd.valid \cup {fd.root} /\ t = PendingHead(fd)
    BY <1>1, SoundFacts DEF Sound
  <1>3. t \in fd.index \cup {fd.root}
    BY <1>2, OKIsWell, PendingHeadIs
  <1>4. PICK m : m = ApplyBlocks(c, Above(c.head, t))
    OBVIOUS
  <1>5. /\ Sound(m) /\ m.head = t /\ SameLog(m, c) /\ m.outcome = c.outcome
        /\ Marked(m.fdb, fd, Above(c.head, t))
    BY <1>1, <1>3, <1>4, ApplyBlocksSound
  <1>6. m.fdb.head = m.head
    BY <1>2, <1>5, MarkedHead
  <1>7. Best(m)
    <2>1. m.fdb.index = fd.index
      BY <1>5 DEF Marked
    <2>2. \A x \in fd.index : ~FirstPreferred(x, t)
      BY <1>2, OKIsWell, PendingHeadBest
    <2> QED BY <1>5, <2>1, <2>2 DEF Best
  <1>8. ~Irreversible(m)
    BY <1>5 DEF SameLog, Irreversible
  <1>9. PICK r : r = LogIrreversible(m, Bad, room)
    OBVIOUS
  <1>10. Follows(r, m) /\ r.head = m.head /\ EndsWell(r, m.head, room)
    BY <1>5, <1>6, <1>7, <1>8, <1>9, LogSpeculative
  <1> QED BY <1>4, <1>5, <1>9, <1>10 DEF Follows, SameLog

\* remove_fork of a bad block, which no validated block descends from, does not throw.
LEMMA ForgetForkIs ==
    ASSUME NEW c, Sound(c), NEW f \in c.fdb.index, f \in Bad
    PROVE  LET r == ForgetFork(c, f)
           IN  /\ Sound(r) /\ r.head = c.head /\ SameLog(r, c) /\ r.outcome = "threw"
               /\ r.fdb.index = {x \in c.fdb.index : f \notin Anc[x]}
               /\ r.fdb.valid = c.fdb.valid
  <1>1. PICK fd : fd = c.fdb
    OBVIOUS
  <1>2. /\ FdbOK(fd) /\ fd.head \in fd.valid \cup {fd.root} /\ f \in fd.index
        /\ fd.valid \subseteq fd.index /\ c \in Controllers
    BY <1>1, SoundFacts
  <1>3. \A v \in fd.valid \cup {fd.root} : f \notin Anc[v]
    BY <1>1, NoBadBranch
  <1>4. PICK gone : gone = DescendantsIn(fd.index, f)
    OBVIOUS
  <1>5. gone = {x \in fd.index : f \in Anc[x]}
    BY <1>2, <1>4, DescendantsInIndex DEF FdbOK
  <1>6. CanRemoveFork(fd, f)
    BY <1>2, <1>3, <1>4, <1>5 DEF CanRemoveFork
  <1>7. PICK new : new = RemoveFork(fd, f)
    OBVIOUS
  <1>8. FdbOK(new)
    BY <1>2, <1>6, <1>7, RemoveForkOK
  <1>9. new.index = fd.index \ gone /\ new.valid = fd.valid \ gone /\ new.root = fd.root
    <2>1. fd \in ForkDb
      BY <1>2 DEF FdbOK
    <2> QED BY <1>4, <1>7, <2>1, Zenon DEF RemoveFork, ForkDb
  <1>10. new.index = {x \in fd.index : f \notin Anc[x]} /\ new.valid = fd.valid
    BY <1>3, <1>5, <1>9
  <1>11. PICK m : m = [c EXCEPT !.fdb = new]
    OBVIOUS
  <1>12. new \in ForkDb
    BY <1>8 DEF FdbOK
  <1>13. /\ m \in Controllers /\ m.fdb = new /\ m.head = c.head /\ SameLog(m, c)
         /\ m.db = c.db /\ m.rev = c.rev /\ m.sparse = c.sparse
    BY <1>2, <1>11, <1>12 DEF Controllers, SameLog
  <1>14. Sound(m)
    <2>1. Synced(m)
      BY <1>13 DEF Sound, Synced, SameLog, Irreversible
    <2> QED BY <1>1, <1>8, <1>9, <1>10, <1>13, <2>1 DEF Sound, SameLog
  <1>15. ForgetFork(c, f) = Ended(m, "threw")
    BY <1>1, <1>6, <1>7, <1>11 DEF ForgetFork
  <1>16. PICK r : r = Ended(m, "threw")
    OBVIOUS
  <1>17. Sound(r) /\ r.outcome = "threw" /\ SameLog(r, m) /\ r.fdb = new /\ r.head = m.head
    BY <1>13, <1>14, <1>16, EndedIs, EndedSound DEF Outcomes
  <1> QED BY <1>1, <1>10, <1>13, <1>15, <1>16, <1>17 DEF SameLog

\* The controller once a block b was added: b is the only block that may be preferred over
\* the head.
Choosing(c, b) ==
    /\ Sound(c) /\ ~Irreversible(c) /\ c.outcome = "ok"
    /\ b \in c.fdb.index \ c.fdb.valid
    /\ \A x \in c.fdb.index \ {b} : ~FirstPreferred(x, c.head)

\* pending_head is at least as good as the head, and validated unless it is b.
LEMMA TopIs ==
    ASSUME NEW c, NEW b, Choosing(c, b), NEW t, t = PendingHead(c.fdb)
    PROVE  /\ t \in c.fdb.index \cup {c.fdb.root} /\ t \in Block /\ c.blog \in Anc[t]
           /\ ~FirstPreferred(c.head, t)
           /\ \A x \in c.fdb.index : ~FirstPreferred(x, t)
           /\ t = b \/ t \in c.fdb.valid \cup {c.fdb.root}
  <1>1. PICK fd : fd = c.fdb
    OBVIOUS
  <1>2. /\ FdbOK(fd) /\ c.head \in fd.valid \cup {fd.root} /\ t = PendingHead(fd)
        /\ fd.root = c.blog /\ c.head \in Block /\ fd.valid \subseteq fd.index
        /\ fd.index \in SUBSET Block /\ fd.head \in Block /\ fd.head \in fd.valid \cup {fd.root}
    BY <1>1, SoundFacts DEF Sound, Choosing
  <1>3. /\ t \in fd.index \cup {fd.root}
        /\ t = fd.head \/ (t \in fd.index \ fd.valid /\ FirstPreferred(t, fd.head))
    BY <1>2, OKIsWell, PendingHeadIs
  <1>4. t \in Block /\ fd.root \in Block /\ fd.root \in Anc[t] /\ fd.root \in Anc[fd.head]
    BY <1>2, <1>3, OKIsWell, KnownDescends
  <1>5. \A x \in fd.index : ~FirstPreferred(x, t)
    BY <1>2, OKIsWell, PendingHeadBest
  <1>6. ~FirstPreferred(c.head, t)
    BY <1>2, <1>4, <1>5, AncNumbers, FirstPreferredOrder
  <1>7. ~FirstPreferred(c.head, fd.head)
    <2>1. CASE c.head \in fd.valid
      BY <1>2, <2>1 DEF FdbOK, BestHead
    <2>2. CASE c.head = fd.root
      BY <1>2, <1>4, <2>2, AncNumbers, FirstPreferredOrder
    <2> QED BY <1>2, <2>1, <2>2
  <1>8. t = b \/ t \in fd.valid \cup {fd.root}
    <2>1. SUFFICES ASSUME t # b, t # fd.head PROVE FALSE
      BY <1>2
    <2>2. t \in fd.index \ {b} /\ FirstPreferred(t, fd.head)
      BY <1>3, <2>1
    <2>3. ~FirstPreferred(t, c.head)
      BY <1>1, <2>2 DEF Choosing
    <2> QED BY <1>2, <1>4, <1>7, <2>2, <2>3, FirstPreferredOrder
  <1> QED BY <1>1, <1>2, <1>3, <1>4, <1>5, <1>6, <1>8

\* pending_head is on top of the head.
LEMMA ExtendHeadOK ==
    ASSUME NEW c, NEW b, Choosing(c, b), NEW t, t = PendingHead(c.fdb),
           t # Genesis, Prev[t] = c.head, NEW room
    PROVE  /\ Follows(ExtendHead(c, t, Bad, room), c)
           /\ EndsWell(ExtendHead(c, t, Bad, room), t, room)
  <1>1. PICK h : h = c.head
    OBVIOUS
  <1>2. /\ Sound(c) /\ ~Irreversible(c) /\ c.outcome = "ok" /\ Synced(c) /\ h \in Block
        /\ c.blog \in Block /\ c.blog \in Anc[h] /\ c.fdb.root = c.blog
    BY <1>1, SoundFacts DEF Choosing
  <1>3. /\ t \in c.fdb.index \cup {c.fdb.root} /\ t \in Block /\ ~FirstPreferred(h, t)
        /\ t = b \/ t \in c.fdb.valid \cup {c.fdb.root}
    BY <1>1, TopIs
  <1>4. /\ Anc[t] = {t} \cup Anc[h] /\ h \in Anc[h] /\ t \in Anc[t] /\ t \notin Anc[h]
        /\ Num[h] < Num[t]
    <2>1. Num[t] = Num[h] + 1 /\ Num[h] \in Nat
      BY <1>1, <1>2, <1>3, BlockTreeAssumption
    <2> QED BY <1>1, <1>2, <1>3, <2>1, AncStep, AncBasic, AncNumbers
  <1>5. Above(h, t) = {t} /\ h \in Anc[t]
    BY <1>4 DEF Above
  <1>6. PICK g \in Anc[t] :
              /\ Applied(c, {t}, Bad) = Above(h, g)
              /\ Above(h, g) \cap Bad = {}
              /\ g # t => t \in Bad
    <2>1. PICK g \in Anc[t] :
              /\ c.head \in Anc[g]
              /\ Applied(c, Above(c.head, t), Bad) = Above(c.head, g)
              /\ Above(c.head, g) \cap Bad = {}
              /\ g # t => \E f \in Above(c.head, t) \ Above(c.head, g) :
                             /\ f = Oldest(Above(c.head, t) \ Above(c.head, g))
                             /\ f \in Bad
      BY <1>1, <1>2, <1>3, <1>5, AppliedIs
    <2> QED BY <1>1, <1>5, <2>1
  <1>7. CASE g = t
    <2>1. PICK r : r = LogIrreversible(ApplyBlocks(c, Above(h, t)), Bad, room)
      OBVIOUS
    <2>2. /\ ControllerOK(r) /\ r.head = t /\ r.mode = c.mode /\ c.blog \in Anc[r.blog]
          /\ EndsWell(r, t, room)
      BY <1>1, <1>2, <1>5, <1>6, <1>7, <2>1, ApplyTop
    <2>3. ExtendHead(c, t, Bad, room) = r
      BY <1>5, <1>6, <1>7, <2>1 DEF ExtendHead
    <2> QED BY <1>1, <1>3, <2>2, <2>3 DEF Follows
  <1>8. CASE g # t
    <2>1. t \in Bad
      BY <1>6, <1>8
    <2>2. Applied(c, {t}, Bad) # {t}
      BY <1>6, <2>1
    <2>3. t \in c.fdb.index /\ t = b
      BY <1>2, <1>3, <1>4, <2>1, AncNumbers, Numbers DEF Sound
    <2>4. PICK r : r = ForgetFork(c, t)
      OBVIOUS
    <2>5. /\ Sound(r) /\ r.head = h /\ SameLog(r, c) /\ r.outcome = "threw"
          /\ r.fdb.index = {x \in c.fdb.index : t \notin Anc[x]}
      BY <1>1, <1>2, <2>1, <2>3, <2>4, ForgetForkIs
    <2>6. Best(r)
      BY <1>1, <1>4, <2>3, <2>5 DEF Best, Choosing
    <2>7. ExtendHead(c, t, Bad, room) = r
      BY <2>2, <2>4 DEF ExtendHead
    <2>8. ~FirstPreferred(h, h) /\ c.blog \in Anc[c.blog]
      BY <1>2, FirstPreferredOrder, AncBasic
    <2>9. EndsWell(r, t, room)
      BY <1>4, <2>1 DEF EndsWell
    <2> QED BY <1>1, <1>2, <2>5, <2>6, <2>7, <2>8, <2>9
            DEF Follows, ControllerOK, SameLog, Irreversible
  <1> QED BY <1>7, <1>8

\* A switch that failed at block f, after the new branch was applied up to g: the blocks
\* up to f are popped and the old branch is applied again.
LEMMA RestoreOK ==
    ASSUME NEW c, NEW b, Choosing(c, b), NEW a \in Anc[c.head], c.blog \in Anc[a], a # c.head,
           NEW m, Sound(m), SameLog(m, c), m.outcome = "threw", a \in Anc[m.head],
           m.fdb.index \subseteq c.fdb.index \ {b}, c.fdb.valid \subseteq m.fdb.valid
    PROVE  LET r == RestoreBranch(m, a, Above(a, c.head), Bad)
           IN  Follows(r, c)
  <1>1. PICK h : h = c.head
    OBVIOUS
  <1>2. /\ Sound(c) /\ ~Irreversible(c) /\ h \in Block /\ c.fdb.root = c.blog /\ c.blog \in Block
        /\ h \in c.fdb.valid \cup {c.fdb.root} /\ a \in Anc[h] /\ a \in Block
    BY <1>1, SoundFacts, AncBasic DEF Choosing, Sound
  <1>3. PICK p : p = PopTo(m, a)
    OBVIOUS
  <1>4. /\ Sound(p) /\ p.head = a /\ SameLog(p, m) /\ p.fdb = m.fdb /\ p.outcome = m.outcome
    BY <1>3, PopToSound DEF SameLog
  <1>5. Synced(p)
    BY <1>4, SoundFacts
  <1>6. PICK g \in Anc[h] : /\ Applied(p, Above(a, h), Bad) = Above(a, g)
                            /\ g # h => \E f \in Above(a, h) \ Above(a, g) : f \in Bad
    BY <1>2, <1>4, <1>5, AppliedIs
  <1>7. g = h
    <2>1. Anc[h] \cap Bad = {}
      BY <1>2, NoBadBranch
    <2> QED BY <1>6, <2>1 DEF Above
  <1>8. PICK r : r = MovedTo(p, Above(a, h))
    OBVIOUS
  <1>9. Synced(r) /\ r.head = h /\ SameLog(r, p) /\ r.fdb = p.fdb /\ r.outcome = p.outcome
    BY <1>2, <1>4, <1>5, <1>8, MovedToIs
  <1>10. RestoreBranch(m, a, Above(a, h), Bad) = r
    <2>1. Above(a, h) # {}
      BY <1>1, <1>2, AboveIs
    <2> QED BY <1>3, <1>6, <1>7, <1>8, <2>1 DEF RestoreBranch, Reapply
  <1>11. Sound(r)
    <2>1. FdbOK(r.fdb) /\ r.fdb.root = r.blog /\ r.base = Num[r.blog]
      BY <1>4, <1>9 DEF Sound, SameLog
    <2>2. r.fdb.root = c.fdb.root /\ r.head \in r.fdb.valid \cup {r.fdb.root}
      BY <1>2, <1>4, <1>9, <2>1 DEF SameLog
    <2>3. Anc[r.blog] \cap Bad = {} /\ r.fdb.valid \cap Bad = {}
      BY <1>4, <1>9 DEF Sound, SameLog
    <2> QED BY <1>9, <2>1, <2>2, <2>3 DEF Sound
  <1>12. Best(r)
    BY <1>1, <1>4, <1>9 DEF Best, Choosing
  <1>13. ~FirstPreferred(h, h) /\ c.blog \in Anc[c.blog]
    BY <1>2, FirstPreferredOrder, AncBasic
  <1> QED BY <1>1, <1>2, <1>4, <1>9, <1>10, <1>11, <1>12, <1>13
          DEF Follows, ControllerOK, SameLog, Irreversible

\* pending_head is on another branch.
LEMMA SwitchForksOK ==
    ASSUME NEW c, NEW b, Choosing(c, b), NEW t, t = PendingHead(c.fdb),
           t # c.head, t = Genesis \/ Prev[t] # c.head, NEW room
    PROVE  /\ Follows(SwitchForks(c, t, Bad, room), c)
           /\ EndsWell(SwitchForks(c, t, Bad, room), t, room)
  <1>1. PICK h : h = c.head
    OBVIOUS
  <1>2. PICK fd : fd = c.fdb
    OBVIOUS
  <1>3. /\ Sound(c) /\ ~Irreversible(c) /\ c.outcome = "ok" /\ ~c.sparse /\ h \in Block
        /\ c.blog \in Block /\ c.blog \in Anc[h] /\ fd.root = c.blog /\ FdbOK(fd)
        /\ h \in fd.index \cup {fd.root} /\ h \in fd.valid \cup {fd.root}
        /\ fd.valid \subseteq fd.index /\ fd.index \in SUBSET Block
    BY <1>1, <1>2, SoundFacts DEF Choosing, Sound, Synced
  <1>4. /\ t \in fd.index \cup {fd.root} /\ t \in Block /\ c.blog \in Anc[t]
        /\ ~FirstPreferred(h, t)
        /\ t = b \/ t \in fd.valid \cup {fd.root}
    BY <1>1, <1>2, TopIs
  <1>5. PICK a : a = CommonAncestor(t, h)
    OBVIOUS
  <1>6. /\ a \in Anc[t] /\ a \in Anc[h] /\ Anc[a] = Anc[t] \cap Anc[h] /\ a \in Block
        /\ c.blog \in Anc[a]
    <2>1. /\ CommonAncestor(t, h) \in Anc[t] \cap Anc[h]
          /\ Anc[CommonAncestor(t, h)] = Anc[t] \cap Anc[h]
      BY <1>3, <1>4, CommonAncestorIs
    <2> QED BY <1>3, <1>4, <1>5, <2>1, AncBasic
  <1>7. Anc[t] \ Anc[h] = Above(a, t) /\ Anc[h] \ Anc[t] = Above(a, h)
    BY <1>6 DEF Above
  <1>8. PICK p : p = PopTo(c, a)
    OBVIOUS
  <1>9. Sound(p) /\ p.head = a /\ SameLog(p, c) /\ p.fdb = fd /\ p.outcome = "ok"
    BY <1>1, <1>2, <1>3, <1>6, <1>8, PopToSound
  <1>10. Synced(p) /\ ~Irreversible(p) /\ t = PendingHead(p.fdb)
    BY <1>2, <1>3, <1>9, SoundFacts DEF SameLog, Irreversible
  <1>11. PICK g \in Anc[t] :
              /\ a \in Anc[g]
              /\ Applied(p, Above(a, t), Bad) = Above(a, g)
              /\ Above(a, g) \cap Bad = {}
              /\ g # t => \E f \in Above(a, t) \ Above(a, g) :
                             /\ f = Oldest(Above(a, t) \ Above(a, g))
                             /\ f \in Bad
    <2>1. p.head \in Anc[t]
      BY <1>6, <1>9
    <2>2. \E g \in Anc[t] :
              /\ p.head \in Anc[g]
              /\ Applied(p, Above(p.head, t), Bad) = Above(p.head, g)
              /\ Above(p.head, g) \cap Bad = {}
              /\ g # t => \E f \in Above(p.head, t) \ Above(p.head, g) :
                             /\ f = Oldest(Above(p.head, t) \ Above(p.head, g))
                             /\ f \in Bad
      BY <1>4, <1>10, <2>1, AppliedIs
    <2> QED BY <1>9, <2>2, Zenon
  <1>12. PICK r : r = TryBranch(p, Above(a, t), Above(a, g), Above(a, h), Bad, room)
    OBVIOUS
  <1>13. SwitchForks(c, t, Bad, room) = r
    <2>1. Known(c.fdb, c.head)
      BY <1>1, <1>2, <1>3 DEF Known
    <2> QED BY <1>1, <1>3, <1>5, <1>7, <1>8, <1>11, <1>12, <2>1 DEF SwitchForks, ApplyNewBranch
  <1>14. CASE g = t
    <2>1. r = LogIrreversible(ApplyBlocks(p, Above(a, t)), Bad, room)
      BY <1>12, <1>14 DEF TryBranch
    <2>2. /\ ControllerOK(r) /\ r.head = t /\ r.mode = p.mode /\ p.blog \in Anc[r.blog]
          /\ EndsWell(r, t, room)
      BY <1>6, <1>9, <1>10, <1>11, <1>14, <2>1, ApplyTop
    <2> QED BY <1>1, <1>4, <1>9, <1>13, <2>2 DEF Follows, SameLog
  <1>15. CASE g # t
    <2>1. PICK f \in Above(a, t) \ Above(a, g) :
              f = Oldest(Above(a, t) \ Above(a, g)) /\ f \in Bad
      BY <1>11, <1>15
    <2>2. f \in Anc[t] /\ Above(a, g) # Above(a, t) /\ f \in fd.index
      <3>1. Above(a, t) \subseteq fd.index
        BY <1>3, <1>4, <1>6, OKIsWell, AboveInIndex
      <3> QED BY <2>1, <3>1 DEF Above
    <2>3. t = b /\ t \in fd.index
      <3>1. t \notin fd.valid \cup {fd.root}
        BY <1>2, <1>3, <2>1, <2>2, NoBadBranch
      <3> QED BY <1>4, <3>1
    <2>4. a # h
      <3>1. SUFFICES ASSUME a = h PROVE FALSE
        OBVIOUS
      <3>2. PICK S : S = Above(h, t)
        OBVIOUS
      <3>3. /\ S # {} /\ S \in SUBSET Block /\ Oldest(S) # Genesis /\ Prev[Oldest(S)] = h
            /\ S \subseteq fd.index
        BY <1>1, <1>3, <1>4, <1>6, <3>1, <3>2, AboveIs, OKIsWell, AboveInIndex
      <3>4. PICK x \in S : x = Oldest(S)
        BY <3>3, OldestIs
      <3>5. x \in fd.index \ {b} /\ x \in Block \ {Genesis} /\ Prev[x] = h
        BY <1>1, <2>3, <3>3, <3>4
      <3>6. h \in Anc[x] /\ h # x
        BY <1>4, <1>6, <3>1, <3>2, <3>4, AboveDescends
      <3>7. FirstPreferred(x, h)
        BY <3>5, <3>6, AncNumbers
      <3> QED BY <1>1, <1>2, <3>5, <3>7 DEF Choosing
    <2>5. g \in fd.index \cup {fd.root}
      <3>1. CASE g = a
        <4>1. a \in fd.valid \cup {fd.root}
          BY <1>3, <1>6, ValidBranch
        <4> QED BY <1>3, <3>1, <4>1
      <3>2. CASE g # a
        <4>1. g \in Above(a, t)
          BY <1>4, <1>6, <1>11, <3>2, AncNumbers, Numbers DEF Above
        <4> QED BY <4>1, <1>3, <1>4, <1>6, OKIsWell, AboveInIndex
      <3> QED BY <3>1, <3>2
    <2>6. PICK q : q = ApplyBlocks(p, Above(a, g))
      OBVIOUS
    <2>7. /\ Sound(q) /\ q.head = g /\ SameLog(q, p) /\ q.outcome = p.outcome
          /\ Marked(q.fdb, fd, Above(a, g))
      BY <1>9, <1>11, <2>5, <2>6, ApplyBlocksSound
    <2>8. q.fdb.index = fd.index /\ fd.valid \subseteq q.fdb.valid
      BY <2>7 DEF Marked
    <2>9. PICK m : m = ForgetFork(q, f)
      OBVIOUS
    <2>10. /\ Sound(m) /\ m.head = q.head /\ SameLog(m, q) /\ m.outcome = "threw"
           /\ m.fdb.index = {x \in q.fdb.index : f \notin Anc[x]}
           /\ m.fdb.valid = q.fdb.valid
      <3>1. f \in q.fdb.index /\ f \in Bad
        BY <2>1, <2>2, <2>8
      <3> QED BY <2>7, <2>9, <3>1, ForgetForkIs
    <2>11. r = RestoreBranch(m, a, Above(a, h), Bad)
      BY <1>9, <1>12, <2>1, <2>2, <2>6, <2>9 DEF TryBranch
    <2>12. m.fdb.index \subseteq c.fdb.index \ {b} /\ c.fdb.valid \subseteq m.fdb.valid
      BY <1>2, <2>2, <2>3, <2>8, <2>10
    <2>13. SameLog(m, c) /\ a \in Anc[m.head]
      BY <1>9, <1>11, <2>7, <2>10 DEF SameLog
    <2>14. EndsWell(r, t, room)
      BY <2>1, <2>2 DEF EndsWell
    <2>15. Follows(r, c)
      BY <1>1, <1>6, <2>4, <2>10, <2>11, <2>12, <2>13, RestoreOK
    <2> QED BY <1>13, <2>14, <2>15
  <1> QED BY <1>14, <1>15

\* maybe_switch_forks after a block was added.
LEMMA MaybeSwitchForksOK ==
    ASSUME NEW c, NEW b, Choosing(c, b), NEW room
    PROVE  LET t == PendingHead(c.fdb)
               r == MaybeSwitchForks(c, t, Bad, room)
           IN  Follows(r, c) /\ EndsWell(r, t, room)
  <1>1. PICK t : t = PendingHead(c.fdb)
    OBVIOUS
  <1>2. CASE t = c.head
    <2>1. MaybeSwitchForks(c, t, Bad, room) = c
      BY <1>2 DEF MaybeSwitchForks
    <2>2. /\ Sound(c) /\ ~Irreversible(c) /\ c.outcome = "ok" /\ c.head \in Block
          /\ c.blog \in Block
      BY SoundFacts DEF Choosing
    <2>3. Best(c)
      BY <1>1, <1>2, TopIs DEF Best
    <2>4. ~FirstPreferred(c.head, c.head) /\ c.blog \in Anc[c.blog]
      BY <2>2, FirstPreferredOrder, AncBasic
    <2> QED BY <1>1, <2>1, <2>2, <2>3, <2>4 DEF Follows, ControllerOK, EndsWell
  <1>3. CASE t # c.head /\ t # Genesis /\ Prev[t] = c.head
    BY <1>1, <1>3, ExtendHeadOK DEF MaybeSwitchForks
  <1>4. CASE t # c.head /\ (t = Genesis \/ Prev[t] # c.head)
    <2>1. MaybeSwitchForks(c, t, Bad, room) = SwitchForks(c, t, Bad, room)
      BY <1>4 DEF MaybeSwitchForks
    <2> QED BY <1>1, <1>4, <2>1, SwitchForksOK
  <1> QED BY <1>2, <1>3, <1>4

-----------------------------------------------------------------------------
(* push_block *)

\* push_block of a linkable block that is not known, by a node that executes blocks as every
\* other node does and whose block log takes blocks up to any number: it returns or throws a
\* block's failure, no assertion fails, and the chain follows its promises.
LEMMA PushBlockOK ==
    ASSUME NEW c, ControllerOK(c), NEW b \in Block, CanAdd(c.fdb, b), NEW room \in Nat
    PROVE  /\ Follows(PushBlock(c, b, Bad, room), c)
           /\ IF Irreversible(c) THEN LogsAll(PushBlock(c, b, Bad, room), c, room)
              ELSE EndsWell(PushBlock(c, b, Bad, room), PendingHead(Add(c.fdb, b)), room)
  <1>1. PICK fd : fd = c.fdb
    OBVIOUS
  <1>2. /\ Sound(c) /\ c \in Controllers /\ FdbOK(fd) /\ fd.valid \subseteq fd.index
        /\ fd.root = c.blog /\ c.head \in fd.valid \cup {fd.root}
    BY <1>1, SoundFacts DEF ControllerOK, Sound
  <1>3. PICK new : new = Add(fd, b)
    OBVIOUS
  <1>4. FdbOK(new) /\ new \in ForkDb
    BY <1>1, <1>2, <1>3, AddOK DEF FdbOK
  <1>5. new.index = fd.index \cup {b} /\ new.valid = fd.valid /\ new.root = fd.root
    <2>1. fd \in ForkDb
      BY <1>2 DEF FdbOK
    <2> QED BY <1>3, <2>1, Zenon DEF Add, ForkDb
  <1>6. PICK m : m = [c EXCEPT !.fdb = new, !.outcome = "ok"]
    OBVIOUS
  <1>7. /\ m \in Controllers /\ m.fdb = new /\ m.outcome = "ok" /\ m.head = c.head
        /\ m.mode = c.mode /\ m.base = c.base /\ m.blog = c.blog
        /\ m.db = c.db /\ m.rev = c.rev /\ m.sparse = c.sparse
    BY <1>2, <1>4, <1>6, Zenon DEF Controllers, Outcomes
  <1>8. Sound(m)
    <2>1. Synced(m)
      BY <1>2, <1>7 DEF Sound, Synced, Irreversible
    <2> QED BY <1>1, <1>2, <1>4, <1>5, <1>7, <2>1 DEF Sound
  <1>9. PushBlock(c, b, Bad, room) = FollowPendingHead(m, Bad, room)
    <2>1. [c EXCEPT !.fdb = Add(c.fdb, b), !.outcome = "ok"] = m
      BY <1>1, <1>3, <1>6, Zenon
    <2> QED BY <2>1, Zenon DEF PushBlock
  <1>10. /\ Follows(FollowPendingHead(m, Bad, room), m)
         /\ IF Irreversible(c) THEN LogsAll(FollowPendingHead(m, Bad, room), m, room)
            ELSE EndsWell(FollowPendingHead(m, Bad, room), PendingHead(new), room)
    <2>1. CASE Irreversible(m)
      <3>1. m.fdb.valid = {m.head} \ {m.blog}
        BY <1>1, <1>5, <1>7, <2>1 DEF ControllerOK, Irreversible
      <3>2. Irreversible(c)
        BY <1>7, <2>1 DEF Irreversible
      <3> QED BY <1>7, <1>8, <2>1, <3>1, <3>2, LogInIrreversibleMode DEF FollowPendingHead
    <2>2. CASE ~Irreversible(m)
      <3>1. b \in m.fdb.index \ m.fdb.valid
        BY <1>1, <1>2, <1>5, <1>7 DEF CanAdd
      <3>2. \A x \in m.fdb.index \ {b} : ~FirstPreferred(x, m.head)
        BY <1>1, <1>5, <1>7, <2>2 DEF ControllerOK, Irreversible, Best
      <3>3. Choosing(m, b)
        BY <1>7, <1>8, <2>2, <3>1, <3>2 DEF Choosing
      <3>4. ~Irreversible(c)
        BY <1>7, <2>2 DEF Irreversible
      <3> QED BY <1>7, <2>2, <3>3, <3>4, MaybeSwitchForksOK DEF FollowPendingHead
    <2> QED BY <2>1, <2>2
  <1> QED BY <1>1, <1>3, <1>7, <1>9, <1>10 DEF Follows, LogsAll

-----------------------------------------------------------------------------
(* A node that produces *)

\* Block h is preferred over every other block of S.
Leads(h, S) == \A x \in S \ {h} : FirstPreferred(h, x)

\* The controller of a producing node.
Leading(c) ==
    /\ Sound(c)
    /\ ~Irreversible(c)
    /\ c.outcome \in {"ok", "threw"}
    /\ Leads(c.head, c.fdb.valid)

\* The head of the fork database is the head, and the facts about a sound controller.
LEMMA LeadingFacts ==
    ASSUME NEW c, Leading(c)
    PROVE  /\ Sound(c) /\ c \in Controllers /\ c.head \in Block /\ c.blog \in Block
           /\ c.fdb.head = c.head
           /\ FdbOK(c.fdb) /\ c.fdb.root = c.blog /\ c.blog \in Anc[c.head]
           /\ c.fdb.valid \subseteq c.fdb.index /\ c.fdb.index \in SUBSET Block
           /\ c.head \in c.fdb.valid \cup {c.fdb.root} /\ c.db = c.head
  <1>1. /\ Sound(c) /\ c \in Controllers /\ c.head \in Block /\ c.blog \in Block
        /\ FdbOK(c.fdb) /\ c.fdb.root = c.blog /\ c.blog \in Anc[c.head]
        /\ c.fdb.valid \subseteq c.fdb.index /\ c.fdb.index \in SUBSET Block
        /\ c.head \in c.fdb.valid \cup {c.fdb.root} /\ c.db = c.head
        /\ c.fdb.head \in c.fdb.valid \cup {c.fdb.root} /\ c.fdb.head \in Block
    BY SoundFacts DEF Leading, Sound, Synced
  <1>2. PICK fd : fd = c.fdb
    OBVIOUS
  <1>3. PICK h : h = c.head
    OBVIOUS
  <1>4. /\ fd \in ForkDb /\ Rooted(fd) /\ FdbWell(fd)
        /\ \A x \in fd.valid : ~FirstPreferred(x, fd.head)
        /\ \A x \in fd.valid \ {h} : FirstPreferred(h, x)
    BY <1>1, <1>2, <1>3, OKIsWell DEF Leading, Leads, FdbOK, BestHead
  <1>5. SUFFICES ASSUME fd.head # h PROVE FALSE
    BY <1>1, <1>2, <1>3
  <1>6. CASE fd.head \in fd.valid
    <2>1. FirstPreferred(h, fd.head)
      BY <1>4, <1>5, <1>6
    <2>2. h = fd.root
      BY <1>1, <1>2, <1>3, <1>4, <2>1
    <2>3. FirstPreferred(fd.head, fd.root)
      BY <1>1, <1>2, <1>4, <1>6, IndexAboveRoot
    <2> QED BY <1>1, <1>2, <1>3, <2>1, <2>2, <2>3, FirstPreferredOrder
  <1>7. CASE fd.head = fd.root
    <2>1. fd.valid = {}
      BY <1>4, <1>7, RootHeadMeansNoneValid
    <2> QED BY <1>1, <1>2, <1>3, <1>5, <1>7, <2>1
  <1> QED BY <1>1, <1>2, <1>6, <1>7

\* pop_block and remove_head of a head that nothing was built on and that stands on a block
\* that leads the rest: both end at that block.
LEMMA DropHeadLeading ==
    ASSUME NEW c, Leading(c), c.head # c.blog, \A x \in c.fdb.index : Prev[x] # c.head,
           Leads(Prev[c.head], c.fdb.valid \ {c.head})
    PROVE  LET r == DropHead(c)
           IN  /\ Leading(r) /\ r.head = Prev[c.head] /\ r.head \in Block
               /\ c.head \in Block \ {Genesis} /\ c.head \in c.fdb.valid
               /\ r.fdb.index = c.fdb.index \ {c.head} /\ r.fdb.valid = c.fdb.valid \ {c.head}
               /\ r.blog = c.blog /\ r.outcome = c.outcome
  <1>1. PICK fd : fd = c.fdb
    OBVIOUS
  <1>2. PICK h : h = c.head
    OBVIOUS
  <1>3. /\ Sound(c) /\ c \in Controllers /\ h \in Block /\ c.blog \in Block
        /\ fd.head = h /\ FdbOK(fd) /\ fd.root = c.blog /\ c.blog \in Anc[h]
        /\ fd.valid \subseteq fd.index /\ fd.index \in SUBSET Block
        /\ h \in fd.valid \cup {fd.root}
    BY <1>1, <1>2, LeadingFacts
  <1>4. Leads(Prev[h], fd.valid \ {h}) /\ \A x \in fd.index : Prev[x] # h
    BY <1>1, <1>2
  <1>5. h # fd.root /\ h \in fd.valid /\ h \in fd.index
    BY <1>2, <1>3
  <1>6. h \in Block \ {Genesis}
    BY <1>3, <1>5 DEF FdbOK, Rooted
  <1>7. PICK p : p = Prev[h]
    OBVIOUS
  <1>8. p \in Block /\ p \in Anc[h] /\ p # h /\ p \in fd.valid \cup {fd.root}
    <2>1. p \in Block /\ Anc[h] = {h} \cup Anc[p] /\ Num[h] = Num[p] + 1
      BY <1>6, <1>7, AncStep, BlockTreeAssumption
    <2>2. p \in Anc[p] /\ Num[p] \in Nat
      BY <2>1, AncBasic, Numbers
    <2>3. p \in fd.valid \cup {fd.root}
      BY <1>3, <1>5, <1>7 DEF FdbOK, ValidOnValid
    <2> QED BY <2>1, <2>2, <2>3
  <1>11. PICK m : m = PopTo(c, p)
    OBVIOUS
  <1>12. fd.root \in Anc[p]
    BY <1>3, <1>8, OKIsWell, KnownDescends
  <1>13. Sound(m) /\ m.head = p /\ SameLog(m, c) /\ m.fdb = fd /\ m.outcome = c.outcome
    BY <1>1, <1>2, <1>3, <1>8, <1>11, <1>12, PopToSound
  <1>14. PICK new : new = RemoveHead(fd)
    OBVIOUS
  <1>15. FdbOK(new) /\ new \in ForkDb
    BY <1>3, <1>4, <1>5, <1>14, RemoveHeadOK DEF FdbOK
  <1>16. new.index = fd.index \ {h} /\ new.valid = fd.valid \ {h} /\ new.root = fd.root
    <2>1. fd \in ForkDb
      BY <1>3 DEF FdbOK
    <2> QED BY <1>3, <1>14, <2>1, Zenon DEF RemoveHead, ForkDb
  <1>17. PICK r : r = [m EXCEPT !.fdb = new]
    OBVIOUS
  <1>18. DropHead(c) = r
    <2>1. DropHead(c) = [m EXCEPT !.fdb = RemoveHead(m.fdb)]
      BY <1>1, <1>2, <1>3, <1>7, <1>11, Zenon DEF DropHead
    <2> QED BY <1>13, <1>14, <1>17, <2>1, Zenon
  <1>19. m \in Controllers
    BY <1>13, SoundFacts
  <1>20. /\ r \in Controllers /\ r.fdb = new /\ r.head = p /\ r.outcome = c.outcome
         /\ r.mode = m.mode /\ r.base = m.base /\ r.blog = m.blog
         /\ r.db = m.db /\ r.rev = m.rev /\ r.sparse = m.sparse
    BY <1>13, <1>15, <1>17, <1>19, Zenon DEF Controllers
  <1>21. Sound(r)
    <2>1. Synced(r)
      BY <1>13, <1>20 DEF Sound, Synced, Irreversible
    <2>2. p \in new.valid \cup {new.root}
      BY <1>8, <1>16
    <2> QED BY <1>13, <1>15, <1>16, <1>20, <2>1, <2>2 DEF Sound
  <1>22. Leading(r)
    BY <1>4, <1>7, <1>13, <1>16, <1>20, <1>21 DEF Leading, SameLog, Irreversible
  <1> QED BY <1>1, <1>2, <1>5, <1>6, <1>7, <1>8, <1>13, <1>16, <1>18, <1>20, <1>22 DEF SameLog

\* log_irreversible on top of a leading head: it returns or throws since the log is full.
LEMMA LogLeading ==
    ASSUME NEW c, Leading(c), c.outcome = "ok", NEW fails, NEW room \in Nat
    PROVE  LET r == LogIrreversible(c, fails, room)
           IN  /\ Leading(r) /\ r.head = c.head
               /\ r.fdb.index \subseteq c.fdb.index /\ r.fdb.valid \subseteq c.fdb.valid
               /\ r.fdb.index \cap c.fdb.valid \subseteq r.fdb.valid
               /\ r.fdb.valid = {x \in c.fdb.valid : r.blog \in Anc[x] /\ x # r.blog}
               /\ r.blog \in Anc[c.head] /\ c.blog \in Anc[r.blog]
               /\ r.blog = c.blog \/ r.blog # c.head \/ r.outcome = "ok"
               /\ (\A x \in Block : Num[x] <= room) => r.outcome = "ok"
  <1>1. PICK fd : fd = c.fdb
    OBVIOUS
  <1>2. PICK h : h = c.head
    OBVIOUS
  <1>3. PICK r : r = LogIrreversible(c, fails, room)
    OBVIOUS
  <1>4. /\ Sound(c) /\ ~Irreversible(c) /\ FdbOK(fd) /\ fd.valid \subseteq fd.index
        /\ fd.head = h /\ fd.root = c.blog /\ h \in Block /\ c.blog \in Block
        /\ h \in fd.valid \cup {fd.root} /\ c.blog \in Anc[h] /\ Leads(h, fd.valid)
        /\ c \in Controllers /\ c.blog \in Anc[c.blog]
    BY <1>1, <1>2, LeadingFacts, AncBasic DEF Leading
  <1>0. fd.valid = {x \in fd.valid : c.blog \in Anc[x] /\ x # c.blog}
    BY <1>4 DEF FdbOK, Rooted
  <1>5. CASE Lib[h] <= Num[c.blog]
    <2>1. r = c
      BY <1>1, <1>2, <1>3, <1>4, <1>5 DEF LogIrreversible, LogUpTo, ForkHead
    <2> QED BY <1>0, <1>1, <1>2, <1>3, <1>4, <2>1
  <1>6. CASE ~(Lib[h] <= Num[c.blog])
    <2>1. PICK branch : branch = FetchBranch(fd, h, Lib[h])
      OBVIOUS
    <2>2. PICK done : done = Logged(branch, room)
      OBVIOUS
    <2>3. r = EndedLogging(RootFollows(c, done), done = branch)
      <3>1. LogIrreversible(c, fails, room) = LogBranch(c, branch, fails, room)
        BY <1>1, <1>2, <1>4, <1>6, <2>1 DEF LogIrreversible, LogUpTo, ForkHead
      <3>2. LogBranch(c, branch, fails, room) = LogBlocks(c, branch, branch, room)
        BY <1>4 DEF LogBranch
      <3>3. LogBlocks(c, branch, branch, room)
              = EndedLogging(RootFollows(c, done), done = branch)
        BY <1>4, <2>2 DEF LogBlocks
      <3> QED BY <1>3, <3>1, <3>2, <3>3
    <2>4. PICK m : m = RootFollows(c, done)
      OBVIOUS
    <2>5. /\ Sound(m) /\ m.mode = c.mode /\ m.head = h /\ m.outcome = "ok"
          /\ m.fdb.index \subseteq fd.index /\ m.fdb.valid \subseteq fd.valid
          /\ m.fdb.index \cap fd.valid \subseteq m.fdb.valid
          /\ m.fdb.valid = {x \in fd.valid : m.blog \in Anc[x] /\ x # m.blog}
          /\ m.blog \in Anc[h] /\ c.blog \in Anc[m.blog]
          /\ m.blog = c.blog \/ m.blog # h \/ done = branch
      <3>1. CASE done = {}
        <4>1. m = c
          BY <2>4, <3>1 DEF RootFollows
        <4> QED BY <1>0, <1>1, <1>2, <1>4, <4>1
      <3>2. CASE done # {}
        <4>1. done \in SUBSET Block /\ done \subseteq fd.index /\ done \subseteq Anc[h]
          BY <1>4, <2>1, <2>2, AncBasic DEF Logged, FetchBranch
        <4>2. PICK n : n = Newest(done)
          OBVIOUS
        <4>3. n \in done /\ n \in fd.index /\ n \in Anc[h] /\ \A x \in done : Num[x] <= Num[n]
          BY <3>2, <4>1, <4>2, NewestIs
        <4>4. n \in fd.valid
          <5>1. fd.root \in Anc[n] /\ n # fd.root
            BY <1>4, <4>3 DEF FdbOK, Rooted
          <5> QED BY <1>4, <4>3, <5>1, ValidBranch
        <4>5. m = RootMoved(c, n)
          BY <2>4, <3>2, <4>2 DEF RootFollows
        <4>6. /\ Sound(m) /\ m.mode = c.mode /\ m.head = c.head /\ m.outcome = c.outcome
              /\ m.blog = n /\ c.blog \in Anc[n] /\ m.fdb.index \subseteq c.fdb.index
              /\ m.fdb.valid = {x \in c.fdb.valid \ {n} : n \in Anc[x]}
          BY <1>1, <1>2, <1>4, <4>3, <4>4, <4>5, RootMovedSound
        <4>7. m.fdb.index \cap fd.valid \subseteq m.fdb.valid
          <5>1. FdbOK(m.fdb) /\ m.fdb.root = n
            BY <4>6 DEF Sound
          <5>2. \A x \in m.fdb.index : n \in Anc[x] /\ x # n
            BY <5>1 DEF FdbOK, Rooted
          <5> QED BY <1>1, <4>6, <5>2
        <4>8. ASSUME n = h PROVE done = branch
          <5>1. \A x \in branch : x \in Block /\ Num[x] <= Num[h] /\ Num[x] \in Nat
            BY <1>4, <2>1, AncNumbers, Numbers DEF FetchBranch
          <5>2. \A x \in branch : Num[h] <= room => Num[x] <= room
            BY <1>4, <5>1, Numbers
          <5>3. h \in branch /\ Num[h] <= room
            BY <4>3, <4>8, <2>2 DEF Logged
          <5> QED BY <5>2, <5>3, <2>2 DEF Logged
        <4>9. m.fdb.valid = {x \in fd.valid : m.blog \in Anc[x] /\ x # m.blog}
          BY <1>1, <4>6
        <4> QED BY <1>1, <1>2, <4>3, <4>6, <4>7, <4>8, <4>9
      <3> QED BY <3>1, <3>2
    <2>6. /\ Sound(r) /\ r.mode = m.mode /\ r.head = m.head /\ r.blog = m.blog
          /\ r.fdb = m.fdb /\ r.outcome \in {"ok", "threw"}
          /\ done = branch => r.outcome = "ok"
      <3>1. PICK e : e = Ended(m, "threw")
        OBVIOUS
      <3>2. m \in Controllers /\ "threw" \in Outcomes
        BY <2>5, SoundFacts DEF Outcomes
      <3>3. /\ Sound(e) /\ e.mode = m.mode /\ e.head = m.head /\ e.blog = m.blog
            /\ e.fdb = m.fdb /\ e.outcome = "threw"
        BY <2>5, <3>1, <3>2, EndedIs, EndedSound DEF SameLog
      <3>4. (r = m \/ r = e) /\ (done = branch => r = m)
        BY <2>3, <2>4, <3>1 DEF EndedLogging
      <3> QED BY <2>5, <3>3, <3>4
    <2>7. Leading(r)
      BY <1>4, <2>5, <2>6 DEF Leading, Leads, Irreversible
    <2>8. ASSUME \A x \in Block : Num[x] <= room PROVE done = branch
      <3>1. branch \subseteq Block
        BY <1>4, <2>1, AncBasic DEF FetchBranch
      <3> QED BY <2>2, <2>8, <3>1 DEF Logged
    <2> QED BY <1>1, <1>2, <1>3, <2>5, <2>6, <2>7, <2>8
  <1> QED BY <1>5, <1>6

\* No block of S is bad.
NoneBad(S) == S \cap Bad = {}

\* The block t is better than every validated one, and nothing bad is on the way to it.
Climbable(c, t) ==
    /\ Sound(c) /\ ~Irreversible(c) /\ c.outcome = "ok"
    /\ t \in c.fdb.index \ c.fdb.valid /\ FirstPreferred(t, c.fdb.head)
    /\ c.head \in Anc[t] /\ NoneBad(Above(c.head, t))

\* The head went from c.head to t.
Climbed(r, c, t) ==
    /\ Leading(r) /\ r.head = t /\ r.fdb.index \subseteq c.fdb.index
    /\ r.fdb.index \cap c.fdb.valid \subseteq r.fdb.valid
    /\ \A x \in c.fdb.valid : r.blog \in Anc[x] /\ x # r.blog => x \in r.fdb.valid
    /\ r.blog \in Anc[t] /\ c.blog \in Anc[r.blog]

\* The branch of the best block known is applied on top of the block it forks from.
LEMMA ApplyLeading ==
    ASSUME NEW c, NEW t, Climbable(c, t), NEW fails, NEW room \in Nat
    PROVE  Climbed(LogIrreversible(ApplyBlocks(c, Above(c.head, t)), fails, room), c, t)
  <1>0. /\ Sound(c) /\ ~Irreversible(c) /\ c.outcome = "ok" /\ c.head \in Anc[t]
        /\ t \in c.fdb.index /\ FirstPreferred(t, c.fdb.head) /\ NoneBad(Above(c.head, t))
    BY DEF Climbable
  <1>1. PICK fd : fd = c.fdb
    OBVIOUS
  <1>2. /\ FdbOK(fd) /\ fd.valid \subseteq fd.index /\ fd.index \in SUBSET Block
        /\ fd.head \in Block /\ t \in Block
    BY <1>0, <1>1, SoundFacts
  <1>3. PICK S : S = Above(c.head, t)
    OBVIOUS
  <1>4. PICK m : m = ApplyBlocks(c, S)
    OBVIOUS
  <1>5. /\ Sound(m) /\ m.head = t /\ SameLog(m, c) /\ m.outcome = c.outcome
        /\ Marked(m.fdb, fd, S)
    <2>1. S \cap Bad = {}
      BY <1>0, <1>3 DEF NoneBad
    <2> QED BY <1>0, <1>1, <1>3, <1>4, <2>1, ApplyBlocksSound
  <1>6. m.fdb.index = fd.index /\ m.fdb.valid = fd.valid \cup S
    BY <1>5 DEF Marked
  <1>7. ASSUME NEW x \in fd.valid PROVE FirstPreferred(t, x)
    <2>1. ~FirstPreferred(x, fd.head) /\ FirstPreferred(t, fd.head) /\ x \in Block
      BY <1>0, <1>1, <1>2 DEF FdbOK, BestHead
    <2> QED BY <1>2, <2>1, FirstPreferredOrder
  <1>8. ASSUME NEW x \in S \ {t} PROVE FirstPreferred(t, x)
    BY <1>0, <1>2, <1>3, AncNumbers DEF Above
  <1>9. Leading(m)
    BY <1>0, <1>5, <1>6, <1>7, <1>8 DEF Leading, Leads, SameLog, Irreversible
  <1>10. PICK r : r = LogIrreversible(m, fails, room)
    OBVIOUS
  <1>11. /\ Leading(r) /\ r.head = m.head /\ r.fdb.index \subseteq m.fdb.index
         /\ r.fdb.index \cap m.fdb.valid \subseteq r.fdb.valid /\ r.blog \in Anc[m.head]
         /\ r.fdb.valid = {x \in m.fdb.valid : r.blog \in Anc[x] /\ x # r.blog}
         /\ m.blog \in Anc[r.blog]
    BY <1>0, <1>5, <1>9, <1>10, LogLeading
  <1>12. c.blog \in Anc[r.blog]
    BY <1>5, <1>11 DEF SameLog
  <1>13. Climbed(r, c, t)
    BY <1>1, <1>5, <1>6, <1>11, <1>12 DEF Climbed
  <1> QED BY <1>3, <1>4, <1>10, <1>13

\* push_block up to maybe_switch_forks: b is added, and the best block known is the head or
\* one that was not validated.
LEMMA PushAdds ==
    ASSUME NEW c, Leading(c), NEW b \in Block, CanAdd(c.fdb, b), NEW room,
           NEW t, t = PendingHead(Add(c.fdb, b))
    PROVE  \E m : /\ Leading(m) /\ m.outcome = "ok" /\ m.head = c.head /\ SameLog(m, c)
                  /\ m.sparse = c.sparse
                  /\ m.fdb.index = c.fdb.index \cup {b} /\ m.fdb.valid = c.fdb.valid
                  /\ m.fdb.root = c.fdb.root /\ t = PendingHead(m.fdb)
                  /\ t = c.head \/ (t \in m.fdb.index \ m.fdb.valid /\ FirstPreferred(t, c.head))
                  /\ PushBlock(c, b, Bad, room) = MaybeSwitchForks(m, t, Bad, room)
  <1>1. PICK fd : fd = c.fdb
    OBVIOUS
  <1>2. PICK h : h = c.head
    OBVIOUS
  <1>3. /\ Sound(c) /\ c \in Controllers /\ ~Irreversible(c) /\ Leads(h, fd.valid)
        /\ FdbOK(fd) /\ fd.valid \subseteq fd.index /\ fd.index \in SUBSET Block
        /\ h \in Block /\ c.blog \in Block /\ c.blog \in Anc[h] /\ fd.root = c.blog
        /\ h \in fd.valid \cup {fd.root} /\ c.blog \in Anc[c.blog]
    BY <1>1, <1>2, LeadingFacts, AncBasic DEF Leading
  <1>4. PICK new : new = Add(fd, b)
    OBVIOUS
  <1>5. FdbOK(new) /\ new \in ForkDb
    BY <1>1, <1>3, <1>4, AddOK DEF FdbOK
  <1>6. new.index = fd.index \cup {b} /\ new.valid = fd.valid /\ new.root = fd.root
    <2>1. fd \in ForkDb
      BY <1>3 DEF FdbOK
    <2> QED BY <1>4, <2>1, Zenon DEF Add, ForkDb
  <1>7. PICK m : m = [c EXCEPT !.fdb = new, !.outcome = "ok"]
    OBVIOUS
  <1>8. /\ m \in Controllers /\ m.fdb = new /\ m.outcome = "ok" /\ m.head = h
        /\ m.mode = c.mode /\ m.base = c.base /\ m.blog = c.blog
        /\ m.db = c.db /\ m.rev = c.rev /\ m.sparse = c.sparse
    BY <1>2, <1>3, <1>5, <1>7, Zenon DEF Controllers, Outcomes
  <1>9. Sound(m)
    <2>1. Synced(m)
      BY <1>2, <1>3, <1>8 DEF Sound, Synced, Irreversible
    <2> QED BY <1>1, <1>2, <1>3, <1>5, <1>6, <1>8, <2>1 DEF Sound
  <1>10. Leading(m) /\ ~Irreversible(m)
    BY <1>3, <1>6, <1>8, <1>9 DEF Leading, Irreversible
  <1>11. new.head = h
    BY <1>8, <1>10, LeadingFacts
  <1>12. t = PendingHead(new)
    BY <1>1, <1>4
  <1>13. t = h \/ (t \in new.index \ new.valid /\ FirstPreferred(t, h))
    BY <1>5, <1>11, <1>12, OKIsWell, PendingHeadIs
  <1>14. PICK r : r = PushBlock(c, b, Bad, room)
    OBVIOUS
  <1>15. r = MaybeSwitchForks(m, t, Bad, room)
    <2>1. [c EXCEPT !.fdb = Add(c.fdb, b), !.outcome = "ok"] = m
      BY <1>1, <1>4, <1>7, Zenon
    <2>2. r = FollowPendingHead(m, Bad, room)
      BY <1>14, <2>1, Zenon DEF PushBlock
    <2> QED BY <1>8, <1>10, <1>12, <2>2 DEF FollowPendingHead
  <1> QED BY <1>1, <1>2, <1>6, <1>8, <1>10, <1>12, <1>13, <1>14, <1>15 DEF SameLog

\* push_block, no bad block on the way to the best block known: the head stays, with every
\* validated block, or it becomes a block that was not validated.
LEMMA PushLeading ==
    ASSUME NEW c, Leading(c), NEW b \in Block, CanAdd(c.fdb, b), NEW room \in Nat,
           NEW t, t = PendingHead(Add(c.fdb, b)), NoneBad(Anc[t] \ Anc[c.head])
    PROVE  LET r == PushBlock(c, b, Bad, room)
           IN  /\ Leading(r) /\ r.fdb.index \subseteq c.fdb.index \cup {b}
               /\ r.fdb.index \cap c.fdb.valid \subseteq r.fdb.valid
               /\ \A x \in c.fdb.valid : r.blog \in Anc[x] /\ x # r.blog => x \in r.fdb.valid
               /\ \/ /\ r.head = c.head /\ r.fdb.valid = c.fdb.valid /\ r.blog = c.blog
                     /\ r.fdb.index = c.fdb.index \cup {b} /\ ~FirstPreferred(b, r.head)
                  \/ /\ r.head \in (c.fdb.index \cup {b}) \ c.fdb.valid
                     /\ r.blog \in Anc[r.head]
               /\ c.blog \in Anc[r.blog]
  <1>1. PICK fd : fd = c.fdb
    OBVIOUS
  <1>2. PICK h : h = c.head
    OBVIOUS
  <1>3. /\ Sound(c) /\ c \in Controllers /\ ~Irreversible(c) /\ Leads(h, fd.valid)
        /\ FdbOK(fd) /\ fd.valid \subseteq fd.index /\ fd.index \in SUBSET Block
        /\ h \in Block /\ c.blog \in Block /\ c.blog \in Anc[h] /\ fd.root = c.blog
        /\ h \in fd.valid \cup {fd.root} /\ c.blog \in Anc[c.blog]
    BY <1>1, <1>2, LeadingFacts, AncBasic DEF Leading
  <1>4. PICK m : /\ Leading(m) /\ m.outcome = "ok" /\ m.head = c.head /\ SameLog(m, c)
                 /\ m.sparse = c.sparse
                 /\ m.fdb.index = c.fdb.index \cup {b} /\ m.fdb.valid = c.fdb.valid
                 /\ m.fdb.root = c.fdb.root /\ t = PendingHead(m.fdb)
                 /\ t = c.head \/ (t \in m.fdb.index \ m.fdb.valid /\ FirstPreferred(t, c.head))
                 /\ PushBlock(c, b, Bad, room) = MaybeSwitchForks(m, t, Bad, room)
    BY PushAdds
  <1>5. PICK new : new = m.fdb
    OBVIOUS
  <1>6. new.index = fd.index \cup {b} /\ new.valid = fd.valid /\ new.root = fd.root
    BY <1>1, <1>4, <1>5
  <1>8. /\ FdbOK(new) /\ m.fdb = new /\ m.outcome = "ok" /\ m.head = h /\ SameLog(m, c)
        /\ m.blog = c.blog /\ m.sparse = c.sparse
    BY <1>2, <1>4, <1>5, LeadingFacts DEF SameLog
  <1>9. Sound(m) /\ Leading(m) /\ ~Irreversible(m)
    BY <1>4 DEF Leading
  <1>10. new.head = h
    BY <1>8, <1>9, LeadingFacts
  <1>12. t = PendingHead(new)
    BY <1>4, <1>5
  <1>13. t = h \/ (t \in new.index \ new.valid /\ FirstPreferred(t, h))
    BY <1>2, <1>4, <1>5
  <1>14. PICK r : r = PushBlock(c, b, Bad, room)
    OBVIOUS
  <1>15. r = MaybeSwitchForks(m, t, Bad, room)
    BY <1>4, <1>14
  <1>16. CASE t = h
    <2>1. r = m
      BY <1>8, <1>15, <1>16 DEF MaybeSwitchForks
    <2>2. ~FirstPreferred(b, h)
      <3>1. b \in new.index
        BY <1>6
      <3> QED BY <1>8, <1>12, <1>16, <3>1, OKIsWell, PendingHeadBest DEF FdbWell
    <2> QED BY <1>1, <1>2, <1>3, <1>6, <1>8, <1>9, <1>14, <2>1, <2>2
  <1>17. CASE t # h
    <2>1. /\ t \in new.index \ new.valid /\ FirstPreferred(t, h) /\ t \in Block
          /\ new.root \in Anc[t]
      BY <1>3, <1>6, <1>8, <1>13, <1>17, OKIsWell, KnownDescends
    <2>2. PICK a : a = CommonAncestor(t, h)
      OBVIOUS
    <2>3. /\ a \in Anc[t] /\ a \in Anc[h] /\ Anc[a] = Anc[t] \cap Anc[h] /\ a \in Block
          /\ c.blog \in Anc[a]
      <3>1. /\ CommonAncestor(t, h) \in Anc[t] \cap Anc[h]
            /\ Anc[CommonAncestor(t, h)] = Anc[t] \cap Anc[h]
        BY <1>3, <2>1, CommonAncestorIs
      <3> QED BY <1>3, <1>6, <2>1, <2>2, <3>1, AncBasic
    <2>4. PICK p : p = PopTo(m, a)
      OBVIOUS
    <2>5. Sound(p) /\ p.head = a /\ SameLog(p, m) /\ p.fdb = new /\ p.outcome = "ok"
      BY <1>8, <1>9, <2>3, <2>4, PopToSound
    <2>6. Synced(p) /\ ~Irreversible(p)
      BY <1>9, <2>5, SoundFacts DEF SameLog, Irreversible
    <2>0. Above(a, t) \cap Bad = {}
      BY <1>2, <2>3 DEF Above, NoneBad
    <2>7. Applied(p, Above(a, t), Bad) = Above(a, t)
      <3>1. p.head \in Anc[t]
        BY <2>3, <2>5
      <3>2. PICK g \in Anc[t] :
                /\ p.head \in Anc[g]
                /\ Applied(p, Above(p.head, t), Bad) = Above(p.head, g)
                /\ Above(p.head, g) \cap Bad = {}
                /\ g # t => \E f \in Above(p.head, t) \ Above(p.head, g) :
                               /\ f = Oldest(Above(p.head, t) \ Above(p.head, g))
                               /\ f \in Bad
        BY <2>1, <2>6, <3>1, AppliedIs
      <3> QED BY <2>0, <2>5, <3>2
    <2>8. r = LogIrreversible(ApplyBlocks(p, Above(a, t)), Bad, room)
      <3>1. CASE t # Genesis /\ Prev[t] = h
        <4>1. Anc[t] = {t} \cup Anc[h] /\ h \in Anc[h] /\ t \notin Anc[h]
          <5>1. Anc[t] = {t} \cup Anc[h] /\ h \in Anc[h]
            BY <1>3, <2>1, <3>1, AncStep, AncBasic
          <5>2. Num[t] = Num[h] + 1 /\ Num[h] \in Nat
            BY <1>3, <2>1, <3>1, Numbers, BlockTreeAssumption
          <5>3. t \notin Anc[h]
            BY <1>3, <5>2, AncNumbers
          <5> QED BY <5>1, <5>3
        <4>2. a = h
          <5>1. h \in Anc[a]
            BY <2>3, <4>1
          <5>2. Num[a] <= Num[h] /\ (h = a \/ Num[h] < Num[a])
            BY <1>3, <2>3, <5>1, AncNumbers
          <5> QED BY <1>3, <2>3, <5>2, Numbers
        <4>3. p = m /\ Above(a, t) = {t}
          BY <1>8, <2>4, <4>1, <4>2 DEF PopTo, Above
        <4>4. r = ExtendHead(m, t, Bad, room)
          BY <1>8, <1>15, <1>17, <3>1 DEF MaybeSwitchForks
        <4> QED BY <2>7, <4>3, <4>4 DEF ExtendHead
      <3>2. CASE ~(t # Genesis /\ Prev[t] = h)
        <4>1. r = SwitchForks(m, t, Bad, room)
          BY <1>8, <1>15, <1>17, <3>2 DEF MaybeSwitchForks
        <4>2. Known(m.fdb, m.head) /\ ~m.sparse
          BY <1>3, <1>6, <1>8, <1>9 DEF Known, Sound, Synced
        <4>3. Anc[t] \ Anc[h] = Above(a, t) /\ Anc[h] \ Anc[t] = Above(a, h)
          BY <2>3 DEF Above
        <4>4. r = ApplyNewBranch(p, Above(a, t), Above(a, h), Bad, room)
          BY <1>8, <2>2, <2>4, <4>1, <4>2, <4>3 DEF SwitchForks
        <4> QED BY <2>7, <4>4 DEF ApplyNewBranch, TryBranch
      <3> QED BY <3>1, <3>2
    <2>9. /\ Leading(r) /\ r.head = t /\ r.fdb.index \subseteq p.fdb.index
          /\ r.fdb.index \cap p.fdb.valid \subseteq r.fdb.valid /\ r.blog \in Anc[t]
          /\ \A x \in p.fdb.valid : r.blog \in Anc[x] /\ x # r.blog => x \in r.fdb.valid
          /\ p.blog \in Anc[r.blog]
      <3>1. t \in p.fdb.index \ p.fdb.valid /\ FirstPreferred(t, p.fdb.head)
        BY <1>10, <2>1, <2>5
      <3>2. p.head \in Anc[t]
        BY <2>3, <2>5
      <3>3. PICK fails : fails = Bad
        OBVIOUS
      <3>4. Climbable(p, t)
        BY <2>0, <2>5, <2>6, <3>1, <3>2 DEF Climbable, NoneBad
      <3>5. r = LogIrreversible(ApplyBlocks(p, Above(p.head, t)), fails, room)
        BY <2>5, <2>8, <3>3
      <3>6. Climbed(r, p, t)
        BY <3>4, <3>5, ApplyLeading, Zenon
      <3> QED BY <3>6 DEF Climbed
    <2>10. c.blog \in Anc[r.blog]
      BY <1>8, <2>5, <2>9 DEF SameLog
    <2> QED BY <1>1, <1>6, <1>14, <2>1, <2>5, <2>9, <2>10
  <1> QED BY <1>16, <1>17

\* push_block, the first block on the way to the best block known is bad and either the only
\* one or on another branch: it is forgotten with what is built on it, and all else stays.
LEMMA PushForgets ==
    ASSUME NEW c, Leading(c), NEW b \in Block, CanAdd(c.fdb, b), NEW room \in Nat,
           NEW t, t = PendingHead(Add(c.fdb, b)), t # c.head,
           Oldest(Anc[t] \ Anc[c.head]) \in Bad, c.head \in Anc[t] => Prev[t] = c.head
    PROVE  LET r == PushBlock(c, b, Bad, room)
           IN  /\ Leading(r) /\ r.fdb.index \subseteq c.fdb.index \cup {b}
               /\ r.head = c.head /\ r.fdb.valid = c.fdb.valid /\ r.blog = c.blog
  <1>1. PICK fd : fd = c.fdb
    OBVIOUS
  <1>2. PICK h : h = c.head
    OBVIOUS
  <1>3. /\ Sound(c) /\ c \in Controllers /\ ~Irreversible(c) /\ Leads(h, fd.valid)
        /\ FdbOK(fd) /\ fd.valid \subseteq fd.index /\ fd.index \in SUBSET Block
        /\ h \in Block /\ c.blog \in Block /\ c.blog \in Anc[h] /\ fd.root = c.blog
        /\ h \in fd.valid \cup {fd.root} /\ c.blog \in Anc[c.blog]
    BY <1>1, <1>2, LeadingFacts, AncBasic DEF Leading
  <1>4. PICK m : /\ Leading(m) /\ m.outcome = "ok" /\ m.head = c.head /\ SameLog(m, c)
                 /\ m.sparse = c.sparse
                 /\ m.fdb.index = c.fdb.index \cup {b} /\ m.fdb.valid = c.fdb.valid
                 /\ m.fdb.root = c.fdb.root /\ t = PendingHead(m.fdb)
                 /\ t = c.head \/ (t \in m.fdb.index \ m.fdb.valid /\ FirstPreferred(t, c.head))
                 /\ PushBlock(c, b, Bad, room) = MaybeSwitchForks(m, t, Bad, room)
    BY PushAdds
  <1>5. PICK new : new = m.fdb
    OBVIOUS
  <1>6. new.index = fd.index \cup {b} /\ new.valid = fd.valid /\ new.root = fd.root
    BY <1>1, <1>4, <1>5
  <1>8. /\ FdbOK(new) /\ m.fdb = new /\ m.outcome = "ok" /\ m.head = h /\ SameLog(m, c)
        /\ m.blog = c.blog /\ m.sparse = c.sparse
    BY <1>2, <1>4, <1>5, LeadingFacts DEF SameLog
  <1>9. Sound(m) /\ Leading(m) /\ ~Irreversible(m)
    BY <1>4 DEF Leading
  <1>10. new.head = h
    BY <1>8, <1>9, LeadingFacts
  <1>12. t = PendingHead(new)
    BY <1>4, <1>5
  <1>13. t = h \/ (t \in new.index \ new.valid /\ FirstPreferred(t, h))
    BY <1>2, <1>4, <1>5
  <1>14. PICK r : r = PushBlock(c, b, Bad, room)
    OBVIOUS
  <1>15. r = MaybeSwitchForks(m, t, Bad, room)
    BY <1>4, <1>14
  <1>16. /\ t \in new.index \ new.valid /\ FirstPreferred(t, h) /\ t \in Block
         /\ new.root \in Anc[t] /\ t \in Anc[t] /\ h \in Anc[h] /\ t # Genesis
    BY <1>2, <1>3, <1>6, <1>8, <1>13, OKIsWell, KnownDescends, AncBasic DEF FdbOK, Rooted
  <1>17. PICK a : a = CommonAncestor(t, h)
    OBVIOUS
  <1>18. /\ a \in Anc[t] /\ a \in Anc[h] /\ Anc[a] = Anc[t] \cap Anc[h] /\ a \in Block
         /\ c.blog \in Anc[a]
    <2>1. /\ CommonAncestor(t, h) \in Anc[t] \cap Anc[h]
          /\ Anc[CommonAncestor(t, h)] = Anc[t] \cap Anc[h]
      BY <1>3, <1>16, CommonAncestorIs
    <2> QED BY <1>3, <1>6, <1>16, <1>17, <2>1, AncBasic
  <1>19. Anc[t] \ Anc[h] = Above(a, t) /\ Anc[h] \ Anc[t] = Above(a, h)
    BY <1>18 DEF Above
  <1>20. a # t
    <2>1. t \notin Anc[h]
      <3>1. t = h \/ Num[t] < Num[h] \/ t \notin Anc[h]
        BY <1>3, AncNumbers
      <3>2. t \in new.valid \cup {new.root} \/ t \notin Anc[h]
        BY <1>3, <1>6, <1>8, <1>16, ValidBranch
      <3>3. t # new.root
        BY <1>8, <1>16 DEF FdbOK, Rooted
      <3> QED BY <1>16, <3>2, <3>3
    <2> QED BY <1>18, <2>1
  <1>21. PICK f : f = Oldest(Above(a, t))
    OBVIOUS
  <1>22. f \in Bad /\ f \in Above(a, t) /\ f \in new.index /\ Above(a, t) # {}
    <2>1. Above(a, t) # {} /\ Above(a, t) \in SUBSET Block
      BY <1>16, <1>18, <1>20, AboveIs
    <2>2. f \in Above(a, t)
      BY <1>21, <2>1, OldestIs
    <2>3. Above(a, t) \subseteq new.index
      BY <1>3, <1>6, <1>8, <1>16, <1>18, OKIsWell, AboveInIndex
    <2> QED BY <1>2, <1>19, <1>21, <2>1, <2>2, <2>3
  <1>23. ASSUME NEW q, Sound(q), q.fdb = new, q.head = a, SameLog(q, m), q.outcome = "ok"
         PROVE  Applied(q, Above(a, t), Bad) = {}
    <2>1. \A x \in Above(a, t) : Num[f] <= Num[x]
      BY <1>16, <1>18, <1>20, <1>21, AboveIs, OldestIs
    <2> QED BY <1>22, <2>1 DEF Applied
  <1>24. CASE Prev[t] = h
    <2>1. Anc[t] = {t} \cup Anc[h]
      BY <1>3, <1>16, <1>24, AncStep
    <2>2. Above(a, t) = {t}
      BY <1>19, <1>22, <2>1
    <2>3. t \in Bad /\ t \in m.fdb.index
      BY <1>8, <1>16, <1>22, <2>2
    <2>4. Applied(m, {t}, Bad) # {t}
      BY <1>16, <2>3, Numbers DEF Applied
    <2>5. r = ForgetFork(m, t)
      BY <1>2, <1>8, <1>15, <1>16, <1>24, <2>4 DEF MaybeSwitchForks, ExtendHead
    <2>6. /\ Sound(r) /\ r.head = m.head /\ SameLog(r, m) /\ r.outcome = "threw"
          /\ r.fdb.index = {x \in m.fdb.index : t \notin Anc[x]}
          /\ r.fdb.valid = m.fdb.valid
      BY <1>9, <2>3, <2>5, ForgetForkIs
    <2>7. Leading(r)
      BY <1>9, <2>6 DEF Leading, SameLog, Irreversible
    <2> QED BY <1>1, <1>2, <1>6, <1>8, <1>14, <2>6, <2>7 DEF SameLog
  <1>25. CASE Prev[t] # h
    <2>1. h \notin Anc[t] /\ a # h
      BY <1>2, <1>18, <1>25
    <2>2. r = SwitchForks(m, t, Bad, room)
      BY <1>2, <1>8, <1>15, <1>25 DEF MaybeSwitchForks
    <2>3. Known(m.fdb, m.head) /\ ~m.sparse
      BY <1>3, <1>6, <1>8, <1>9 DEF Known, Sound, Synced
    <2>4. PICK p : p = PopTo(m, a)
      OBVIOUS
    <2>5. Sound(p) /\ p.head = a /\ SameLog(p, m) /\ p.fdb = new /\ p.outcome = "ok"
      BY <1>8, <1>9, <1>18, <2>4, PopToSound
    <2>6. r = ApplyNewBranch(p, Above(a, t), Above(a, h), Bad, room)
      BY <1>8, <1>17, <1>19, <2>2, <2>3, <2>4 DEF SwitchForks
    <2>7. Applied(p, Above(a, t), Bad) = {}
      BY <1>23, <2>5
    <2>8. ApplyBlocks(p, {}) = p
      BY <2>5, SoundFacts, ApplyNothing
    <2>9. PICK g : g = ForgetFork(p, f)
      OBVIOUS
    <2>10. r = RestoreBranch(g, a, Above(a, h), Bad)
      <3>1. {} # Above(a, t) /\ Above(a, t) \ {} = Above(a, t)
        BY <1>22
      <3>2. r = TryBranch(p, Above(a, t), {}, Above(a, h), Bad, room)
        BY <2>6, <2>7 DEF ApplyNewBranch
      <3>3. r = RestoreBranch(ForgetFork(ApplyBlocks(p, {}), Oldest(Above(a, t) \ {})),
                              p.head, Above(a, h), Bad)
        BY <3>1, <3>2 DEF TryBranch
      <3> QED BY <1>21, <2>5, <2>8, <2>9, <3>1, <3>3
    <2>11. /\ Sound(g) /\ g.head = a /\ SameLog(g, p) /\ g.outcome = "threw"
           /\ g.fdb.index = {x \in new.index : f \notin Anc[x]} /\ g.fdb.valid = new.valid
      <3>1. f \in p.fdb.index /\ f \in Bad
        BY <1>22, <2>5
      <3> QED BY <2>5, <2>9, <3>1, ForgetForkIs
    <2>12. PopTo(g, a) = g
      BY <2>11 DEF PopTo
    <2>13. Above(a, h) # {}
      BY <1>3, <1>18, <2>1, AboveIs
    <2>14. r = MovedTo(g, Applied(g, Above(a, h), Bad))
      BY <2>10, <2>11, <2>12, <2>13 DEF RestoreBranch, Reapply
    <2>15. Synced(g)
      BY <2>11, SoundFacts
    <2>16. Applied(g, Above(a, h), Bad) = Above(a, h)
      <3>1. PICK k \in Anc[h] : /\ Applied(g, Above(g.head, h), Bad) = Above(g.head, k)
                                /\ k # h => \E x \in Above(g.head, h) \ Above(g.head, k) : x \in Bad
        BY <1>3, <1>18, <2>11, <2>15, AppliedIs
      <3>2. Anc[h] \cap Bad = {}
        BY <1>1, <1>2, <1>3, NoBadBranch
      <3> QED BY <2>11, <3>1, <3>2 DEF Above
    <2>17. Synced(r) /\ r.head = h /\ SameLog(r, g) /\ r.fdb = g.fdb /\ r.outcome = g.outcome
      <3>1. r = MovedTo(g, Above(g.head, h)) /\ g.head \in Anc[h]
        BY <1>18, <2>11, <2>14, <2>16
      <3> QED BY <1>3, <2>15, <3>1, MovedToIs
    <2>18. r.blog = c.blog /\ ~Irreversible(r) /\ r.base = g.base
      BY <1>8, <1>9, <2>5, <2>11, <2>17 DEF SameLog, Irreversible
    <2>19. Sound(r)
      <3>1. FdbOK(r.fdb) /\ r.fdb.root = r.blog /\ r.base = Num[r.blog]
        BY <2>11, <2>17 DEF Sound, SameLog
      <3>2. r.head \in r.fdb.valid \cup {r.fdb.root}
        BY <1>3, <1>6, <2>11, <2>17, <2>18, <3>1
      <3>3. Anc[r.blog] \cap Bad = {} /\ r.fdb.valid \cap Bad = {}
        BY <2>11, <2>17 DEF Sound, SameLog
      <3> QED BY <2>17, <3>1, <3>2, <3>3 DEF Sound
    <2>20. Leading(r)
      BY <1>3, <1>6, <2>11, <2>17, <2>18, <2>19 DEF Leading
    <2> QED BY <1>1, <1>2, <1>6, <1>14, <2>11, <2>17, <2>18, <2>20
  <1> QED BY <1>24, <1>25

\* A new block of its own on top of the head: it is the head of the fork database, as
\* add_to_fork_db and create_completed_block assert.
LEMMA BuiltLeading ==
    ASSUME NEW c, Leading(c), NEW b \in Block \ (Bad \cup {Genesis}), b \notin c.fdb.index,
           Prev[b] = c.head
    PROVE  LET r == Built(c, b)
           IN  /\ Leading(r) /\ r.head = b /\ r.blog = c.blog
               /\ r.fdb.index = c.fdb.index \cup {b} /\ r.fdb.valid = c.fdb.valid \cup {b}
  <1>1. PICK fd : fd = c.fdb
    OBVIOUS
  <1>2. PICK h : h = c.head
    OBVIOUS
  <1>3. /\ Sound(c) /\ c \in Controllers /\ ~Irreversible(c) /\ Leads(h, fd.valid)
        /\ FdbOK(fd) /\ fd.valid \subseteq fd.index /\ fd.index \in SUBSET Block
        /\ h \in Block /\ fd.root = c.blog /\ h \in fd.valid \cup {fd.root} /\ fd.root \in Block
        /\ Anc[c.blog] \cap Bad = {} /\ fd.valid \cap Bad = {}
    BY <1>1, <1>2, LeadingFacts DEF Leading, Sound
  <1>4. /\ Anc[b] = {b} \cup Anc[h] /\ h \in Anc[h] /\ b \notin Anc[h] /\ h # b
        /\ FirstPreferred(b, h)
    <2>1. Anc[b] = {b} \cup Anc[h] /\ h \in Anc[h]
      BY <1>2, <1>3, AncStep, AncBasic
    <2>2. Num[b] = Num[h] + 1 /\ Num[h] \in Nat
      BY <1>2, <1>3, Numbers, BlockTreeAssumption
    <2>3. b \notin Anc[h] /\ h # b
      BY <1>3, <2>2, AncNumbers
    <2> QED BY <2>1, <2>3, AncNumbers
  <1>5. CanAdd(fd, b)
    BY <1>1, <1>2, <1>3 DEF CanAdd, Known
  <1>6. PICK new : new = Add(fd, b)
    OBVIOUS
  <1>7. /\ FdbOK(new) /\ new.index = fd.index \cup {b} /\ new.valid = fd.valid
        /\ new.root = fd.root
    BY <1>3, <1>5, <1>6, AddOK, AddWell, OKIsWell
  <1>8. PICK end : end = MarkValid(new, b)
    OBVIOUS
  <1>9. /\ FdbOK(end) /\ end.index = fd.index \cup {b} /\ end.valid = fd.valid \cup {b}
        /\ end.root = fd.root /\ end \in ForkDb
    <2>1. b \in new.index /\ Prev[b] \in new.valid \cup {new.root}
      BY <1>2, <1>3, <1>7
    <2>2. /\ FdbOK(end) /\ end.root = new.root /\ end.index = new.index
          /\ end.valid = new.valid \cup {b}
      BY <1>7, <1>8, <2>1, MarkValidOK, MarkValidWell, OKIsWell
    <2> QED BY <1>7, <2>2 DEF FdbOK
  <1>10. ASSUME NEW x \in end.valid \ {b} PROVE FirstPreferred(b, x)
    <2>1. x \in fd.valid /\ x \in Block
      BY <1>3, <1>9
    <2>2. x = h \/ FirstPreferred(h, x)
      BY <1>3, <2>1 DEF Leads
    <2> QED BY <1>3, <1>4, <2>1, <2>2, FirstPreferredOrder
  <1>11. end.head = b
    <2>1. end.head \in end.valid \cup {fd.root} /\ ~FirstPreferred(b, end.head)
      BY <1>9 DEF FdbOK, BestHead
    <2>2. fd.root \in Anc[b] /\ b # fd.root
      BY <1>9 DEF FdbOK, Rooted
    <2>3. FirstPreferred(b, fd.root)
      BY <2>2, AncNumbers
    <2> QED BY <1>10, <2>1, <2>3
  <1>12. PICK m : m = MovedTo(c, {b})
    OBVIOUS
  <1>13. Synced(m) /\ m.head = b /\ SameLog(m, c) /\ m.fdb = fd /\ m.outcome = c.outcome
    <2>1. Above(h, b) = {b} /\ h \in Anc[b]
      BY <1>4 DEF Above
    <2>2. Synced(c)
      BY <1>3, SoundFacts
    <2> QED BY <1>1, <1>2, <1>12, <2>1, <2>2, MovedToIs
  <1>14. PICK r : r = [m EXCEPT !.fdb = end, !.outcome = "ok"]
    OBVIOUS
  <1>15. Built(c, b) = r
    <2>1. MarkValid(Add(c.fdb, b), b) = end
      BY <1>1, <1>6, <1>8
    <2> QED BY <1>11, <1>12, <1>14, <2>1 DEF Built
  <1>16. /\ r \in Controllers /\ r.fdb = end /\ r.outcome = "ok" /\ r.head = b
         /\ r.mode = m.mode /\ r.base = m.base /\ r.blog = m.blog
         /\ r.db = m.db /\ r.rev = m.rev /\ r.sparse = m.sparse
    <2>1. m \in Controllers
      BY <1>13 DEF Synced
    <2> QED BY <1>9, <1>13, <1>14, <2>1, Zenon DEF Controllers, Outcomes
  <1>17. Sound(r)
    <2>1. Synced(r)
      BY <1>13, <1>16 DEF Synced, Irreversible
    <2>2. r.blog = c.blog /\ r.base = Num[r.blog]
      BY <1>3, <1>13, <1>16 DEF Sound, SameLog
    <2> QED BY <1>3, <1>9, <1>16, <2>1, <2>2 DEF Sound
  <1>18. Leading(r)
    BY <1>3, <1>9, <1>10, <1>13, <1>16, <1>17 DEF Leading, Leads, SameLog, Irreversible
  <1> QED BY <1>1, <1>9, <1>13, <1>15, <1>16, <1>18 DEF SameLog
=============================================================================
