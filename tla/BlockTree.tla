------------------------------ MODULE BlockTree ------------------------------
(***************************************************************************)
(* The tree of blocks a node may ever meet, and the two orders the fork    *)
(* database keeps on it.                                                   *)
(*                                                                         *)
(* A block is its id.  block_id_type is a sha256 and the index breaks ties *)
(* with sha256_less, so ids are numbers and `<` is sha256_less.  What the  *)
(* header state of a block (block_header_state) contributes to the choice  *)
(* of a branch is its block number, its dpos_irreversible_blocknum and its *)
(* previous id; the rest of the header is left out.                        *)
(***************************************************************************)
EXTENDS Integers, FiniteSets

CONSTANTS
    Block,      \* the block ids
    Genesis,    \* the block without a previous block
    Prev,       \* header.previous
    Num,        \* block_num
    Lib         \* dpos_irreversible_blocknum

(***************************************************************************)
(* block_num is previous + 1 and dpos_irreversible_blocknum never shrinks  *)
(* along a branch nor reaches past the block itself                        *)
(* (block_header_state::next).                                             *)
(***************************************************************************)
ASSUME BlockTreeAssumption ==
    /\ Block \subseteq Nat
    /\ IsFiniteSet(Block)
    /\ Genesis \in Block
    /\ Prev \in [Block \ {Genesis} -> Block]
    /\ Num \in [Block -> Nat]
    /\ Lib \in [Block -> Nat]
    /\ \A b \in Block \ {Genesis} :
          /\ Num[b] = Num[Prev[b]] + 1
          /\ Lib[Prev[b]] <= Lib[b]
    /\ \A b \in Block : Lib[b] <= Num[b]

\* A set that contains the previous block of each of its members.
PrevClosed(C) == \A x \in C \ {Genesis} : Prev[x] \in C

\* Anc[b]: b and the blocks its branch is built on (the least PrevClosed set
\* that contains b; no recursion, so that facts about it can be proved).
Anc == [b \in Block |->
          {a \in Block : \A C \in SUBSET Block : b \in C /\ PrevClosed(C) => a \in C}]

\* first_preferred( lhs, rhs )
FirstPreferred(a, b) ==
    \/ Lib[a] > Lib[b]
    \/ Lib[a] = Lib[b] /\ Num[a] > Num[b]

\* The by_lib_block_num order among blocks of equal validity.
IndexBefore(a, b) ==
    \/ FirstPreferred(a, b)
    \/ ~FirstPreferred(b, a) /\ a < b

\* index.get<by_lib_block_num>().begin() of a non-empty set of blocks of equal
\* validity.
FirstInIndex(S) == CHOOSE b \in S : \A c \in S \ {b} : IndexBefore(b, c)

\* The block of the branch of b with number n.
OnBranch(b, n) == CHOOSE a \in Anc[b] : Num[a] = n
=============================================================================
