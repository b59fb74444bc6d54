--------------------------- MODULE TrxIntakeProofs ---------------------------
(***************************************************************************)
(* Proofs about TrxIntake, for any number of messages with any content,    *)
(* any sizes of the blocks and of the fifo queue, every acknowledge mode   *)
(* and any number of faults.                                               *)
(*                                                                         *)
(* What the main thread does is an operator from node to node.  Sound(p)   *)
(* is the set of the nodes that the invariant allows while p tasks of the  *)
(* trxq thread are on their way; there is one lemma per operator, that it  *)
(* does not leave this set, and one per action of the threads.             *)
(*                                                                         *)
(* The loops over transactions are recursive functions.  That the equation *)
(* of such a function has a solution, and that what every step keeps holds *)
(* at the end, is shown with the least number for which it would fail      *)
(* (RecursionExists, StepsStay).                                           *)
(***************************************************************************)
EXTENDS TrxIntake, SequenceTheorems, WellFoundedInduction, TLAPS

-----------------------------------------------------------------------------
(* Recursive functions on an interval *)

\* A set of natural numbers has a least element.
LEMMA LeastNatural ==
    ASSUME NEW T \in SUBSET Nat, T # {}
    PROVE  \E x \in T : \A y \in T : x <= y
  <1> DEFINE R == {ss \in Nat \X Nat : ss[1] < ss[2]}
  <1>1. IsWellFoundedOn(R, Nat)
    BY NatLessThanWellFounded DEF OpToRel
  <1>2. PICK x \in T : \A y \in T : ~(<<y, x>> \in R)
    <2> HIDE DEF R
    <2> QED BY <1>1, WFMin
  <1>3. \A y \in T : ~(y < x)
    BY <1>2
  <1>4. QED BY <1>3

\* What every step keeps, the last value has.
LEMMA StepsStay ==
    ASSUME NEW V, NEW len \in Nat, NEW g, g[0] \in V,
           \A k \in 1..len : g[k - 1] \in V => g[k] \in V
    PROVE  \A k \in 0..len : g[k] \in V
  <1> DEFINE Fails == {k \in 0..len : g[k] \notin V}
  <1>1. SUFFICES ASSUME Fails # {} PROVE FALSE
    OBVIOUS
  <1>2. Fails \in SUBSET Nat
    OBVIOUS
  <1>3. PICK k \in Fails : \A x \in Fails : k <= x
    <2> HIDE DEF Fails
    <2> QED BY <1>1, <1>2, LeastNatural
  <1>4. k \in 0..len /\ g[k] \notin V /\ k # 0
    BY <1>3
  <1>5. k \in 1..len /\ k - 1 \in 0..len /\ k - 1 \notin Fails
    BY <1>3, <1>4
  <1> QED BY <1>4, <1>5

\* f starts with b and goes on with the functions F[1], F[2] and so on.
IsRun(f, V, len, b, F) ==
    f \in [0..len -> V] /\ f[0] = b /\ \A k \in 1..len : f[k] = F[k][f[k - 1]]

\* A recursive equation whose steps stay in V has a solution.
LEMMA RecursionExists ==
    ASSUME NEW V, NEW len \in Nat, NEW b \in V, NEW F \in [1..len -> [V -> V]]
    PROVE  \E f : IsRun(f, V, len, b, F)
  <1> USE DEF IsRun
  <1> DEFINE Is(f, m) == f \in [0..m -> V] /\ f[0] = b /\ \A k \in 1..m : f[k] = F[k][f[k - 1]]
             Fails == {m \in 0..len : ~\E f : Is(f, m)}
  <1>1. SUFFICES ASSUME Fails # {} PROVE FALSE
    <2>1. len \in 0..len
      OBVIOUS
    <2>2. Fails = {} => \E f : Is(f, len)
      BY <2>1
    <2> QED BY <2>2
  <1>2. PICK m \in Fails : \A x \in Fails : m <= x
    <2>1. Fails \in SUBSET Nat
      OBVIOUS
    <2> HIDE DEF Fails
    <2> QED BY <1>1, <2>1, LeastNatural
  <1>3. m \in 0..len /\ ~\E f : Is(f, m)
    BY <1>2
  <1>4. m # 0
    <2>1. PICK f : f = [k \in 0..0 |-> b]
      OBVIOUS
    <2>2. Is(f, 0)
      BY <2>1
    <2> QED BY <1>3, <2>2
  <1>5. m - 1 \in 0..len /\ m - 1 \notin Fails /\ m \in 1..len
    <2>1. m - 1 \in 0..len /\ m \in 1..len /\ ~(m <= m - 1)
      BY <1>3, <1>4
    <2> HIDE DEF Fails
    <2> QED BY <1>2, <2>1
  <1>6. PICK g : Is(g, m - 1)
    BY <1>5
  <1>7. PICK f : f = [k \in 0..m |-> IF k <= m - 1 THEN g[k] ELSE F[m][g[m - 1]]]
    OBVIOUS
  <1>8. Is(f, m)
    <2>1. /\ g \in [0..m - 1 -> V] /\ g[0] = b
          /\ \A k \in 1..m - 1 : g[k] = F[k][g[k - 1]]
      BY <1>6
    <2>2. g[m - 1] \in V /\ F[m] \in [V -> V]
      BY <1>5, <2>1
    <2>3. F[m][g[m - 1]] \in V
      BY <2>2
    <2>4. f \in [0..m -> V]
      BY <1>5, <1>7, <2>1, <2>3
    <2>5. \A k \in 0..m - 1 : f[k] = g[k]
      BY <1>5, <1>7
    <2>6. f[m] = F[m][g[m - 1]] /\ f[m - 1] = g[m - 1] /\ f[0] = b
      BY <1>5, <1>7, <2>1
    <2>7. ASSUME NEW k \in 1..m PROVE f[k] = F[k][f[k - 1]]
      <3>1. CASE k = m
        BY <2>6, <3>1
      <3>2. CASE k # m
        <4>1. k \in 1..m - 1 /\ k - 1 \in 0..m - 1 /\ k \in 0..m - 1
          BY <1>5, <3>2
        <4> QED BY <2>1, <2>5, <4>1
      <3> QED BY <3>1, <3>2
    <2> QED BY <2>4, <2>6, <2>7
  <1> QED BY <1>3, <1>8

\* A part of a sequence is a sequence that is not longer.
LEMMA SelectOK ==
    ASSUME NEW T, NEW s \in Seq(T), NEW at
    PROVE  Select(s, at) \in Seq(T) /\ Len(Select(s, at)) <= Len(s)
  <1> DEFINE V == Seq(T)
             Step(q, k) == IF k \in at THEN Append(q, s[k]) ELSE q
  <1>1. Len(s) \in Nat /\ \A k \in 1..Len(s) : s[k] \in T
    BY LenProperties, ElementOfSeq
  <1>2. PICK len \in Nat : len = Len(s)
    BY <1>1
  <1>3. \A k \in 1..len, q \in V : Step(q, k) \in V /\ Len(Step(q, k)) \in {Len(q), Len(q) + 1}
    BY <1>1, <1>2
  <1>4. PICK F : F = [k \in 1..len |-> [q \in V |-> Step(q, k)]]
    OBVIOUS
  <1>5. F \in [1..len -> [V -> V]] /\ \A k \in 1..len, q \in V : F[k][q] = Step(q, k)
    BY <1>3, <1>4
  <1>6. PICK f \in [0..len -> V] : f[0] = <<>> /\ \A k \in 1..len : f[k] = F[k][f[k - 1]]
    <2>1. PICK b : b = <<>> /\ b \in V
      BY EmptySeq
    <2>2. \E f : IsRun(f, V, len, b, F)
      <3>1. b \in V /\ F \in [1..len -> [V -> V]]
        BY <1>5, <2>1
      <3> HIDE DEF V
      <3> QED BY <3>1, RecursionExists
    <2> QED BY <2>1, <2>2 DEF IsRun
  <1>7. f = [k \in 0..len |-> IF k = 0 THEN <<>> ELSE Step(f[k - 1], k)]
    <2>1. \A k \in 1..len : f[k - 1] \in V
      BY <1>6
    <2>2. \A k \in 0..len : f[k] = IF k = 0 THEN <<>> ELSE Step(f[k - 1], k)
      <3> HIDE DEF V, Step
      <3> QED BY <1>5, <1>6, <2>1
    <2> HIDE DEF V, Step
    <2> QED BY <1>6, <2>2
  <1>8. PICK g : g = CHOOSE h : h = [k \in 0..len |-> IF k = 0 THEN <<>> ELSE Step(h[k - 1], k)]
    OBVIOUS
  <1>9. g = [k \in 0..len |-> IF k = 0 THEN <<>> ELSE Step(g[k - 1], k)]
    <2> HIDE DEF Step
    <2> QED BY <1>7, <1>8
  <1>10. g[0] = <<>> /\ \A k \in 1..len : g[k] = Step(g[k - 1], k)
    <2> HIDE DEF Step
    <2> QED BY <1>9
  <1>11. \A k \in 0..len : g[k] \in V
    <2>1. g[0] \in V /\ \A k \in 1..len : g[k - 1] \in V => g[k] \in V
      BY <1>3, <1>10, EmptySeq
    <2> HIDE DEF V
    <2> QED BY <2>1, StepsStay
  <1>12. PICK d : d = [k \in 0..len |-> k - Len(g[k])]
    OBVIOUS
  <1>13. \A k \in 0..len : d[k] \in Nat
    <2>1. d[0] \in Nat
      BY <1>10, <1>12
    <2>2. ASSUME NEW k \in 1..len, d[k - 1] \in Nat PROVE d[k] \in Nat
      <3>1. k - 1 \in 0..len /\ k \in 0..len
        OBVIOUS
      <3>2. g[k - 1] \in V /\ g[k] \in V /\ Len(g[k]) \in {Len(g[k - 1]), Len(g[k - 1]) + 1}
        BY <1>3, <1>10, <1>11, <3>1
      <3>3. Len(g[k]) \in Nat /\ Len(g[k - 1]) \in Nat
        BY <3>2
      <3> QED BY <1>12, <2>2, <3>1, <3>2, <3>3
    <2> QED BY <2>1, <2>2, StepsStay
  <1>14. g[len] \in V /\ Len(g[len]) <= len
    <2>1. g[len] \in V /\ d[len] \in Nat /\ d[len] = len - Len(g[len])
      BY <1>11, <1>12, <1>13
    <2> QED BY <2>1
  <1>15. Select(s, at) = g[len]
    BY <1>2, <1>8 DEF Select
  <1> QED BY <1>2, <1>14, <1>15

-----------------------------------------------------------------------------
(* Sequences without repetitions *)

\* No value is in two of the sequences or twice in one.
Apart(a, b, c) ==
    /\ IsInjective(a) /\ IsInjective(b) /\ IsInjective(c)
    /\ Range(a) \cap Range(b) = {}
    /\ Range(a) \cap Range(c) = {}
    /\ Range(b) \cap Range(c) = {}

\* The empty sequence has no values.
LEMMA EmptyRange == Range(<<>>) = {} /\ IsInjective(<<>>)
  <1>1. DOMAIN <<>> = {}
    OBVIOUS
  <1> QED BY <1>1 DEF Range, IsInjective

\* The values of a sequence with one more.
LEMMA AppendRange ==
    ASSUME NEW T, NEW s \in Seq(T), NEW m \in T
    PROVE  /\ Range(Append(s, m)) = Range(s) \cup {m}
           /\ IsInjective(s) /\ m \notin Range(s) => IsInjective(Append(s, m))
  <1>1. PICK t : t = Append(s, m)
    OBVIOUS
  <1>2. /\ t \in Seq(T) /\ Len(t) = Len(s) + 1 /\ Len(s) \in Nat
        /\ DOMAIN t = 1..Len(s) + 1 /\ DOMAIN s = 1..Len(s)
        /\ \A k \in 1..Len(s) : t[k] = s[k]
        /\ t[Len(s) + 1] = m
    BY <1>1
  <1>3. Range(t) = Range(s) \cup {m}
    <2>1. \A k \in 1..Len(s) + 1 : k \in 1..Len(s) \/ k = Len(s) + 1
      BY <1>2
    <2>2. 1..Len(s) \subseteq 1..Len(s) + 1 /\ Len(s) + 1 \in 1..Len(s) + 1
      BY <1>2
    <2> QED BY <1>2, <2>1, <2>2 DEF Range
  <1>4. ASSUME IsInjective(s), m \notin Range(s) PROVE IsInjective(t)
    <2>1. SUFFICES ASSUME NEW j \in 1..Len(s) + 1, NEW k \in 1..Len(s) + 1, t[j] = t[k]
                   PROVE  j = k
      BY <1>2 DEF IsInjective
    <2>2. \A i \in 1..Len(s) : t[i] # m
      BY <1>2, <1>4 DEF Range
    <2>3. \A i, l \in 1..Len(s) : t[i] = t[l] => i = l
      BY <1>2, <1>4 DEF IsInjective
    <2>4. j \in 1..Len(s) \/ j = Len(s) + 1
      BY <1>2
    <2>5. k \in 1..Len(s) \/ k = Len(s) + 1
      BY <1>2
    <2> QED BY <1>2, <2>1, <2>2, <2>3, <2>4, <2>5
  <1> QED BY <1>1, <1>3, <1>4

\* The values of two sequences one after the other.
LEMMA ConcatRange ==
    ASSUME NEW T, NEW s \in Seq(T), NEW t \in Seq(T)
    PROVE  /\ Range(s \o t) = Range(s) \cup Range(t)
           /\ IsInjective(s) /\ IsInjective(t) /\ Range(s) \cap Range(t) = {}
                 => IsInjective(s \o t)
  <1>1. PICK u : u = s \o t
    OBVIOUS
  <1>2. PICK l, m : l = Len(s) /\ m = Len(t)
    OBVIOUS
  <1>3. /\ l \in Nat /\ m \in Nat
        /\ DOMAIN s = 1..l /\ DOMAIN t = 1..m /\ DOMAIN u = 1..l + m
    BY <1>1, <1>2, ConcatProperties, LenProperties
  <1>4. \A k \in 1..l + m : u[k] = IF k <= l THEN s[k] ELSE t[k - l]
    BY <1>1, <1>2, ConcatProperties
  <1>5. \A k \in 1..l : k \in 1..l + m /\ u[k] = s[k]
    BY <1>3, <1>4
  <1>6. \A k \in 1..m : l + k \in 1..l + m /\ u[l + k] = t[k]
    BY <1>3, <1>4
  <1>7. \A k \in 1..l + m : k \in 1..l \/ \E j \in 1..m : k = l + j
    <2>1. ASSUME NEW k \in 1..l + m, k \notin 1..l PROVE k - l \in 1..m /\ k = l + (k - l)
      BY <1>3, <2>1
    <2> QED BY <2>1
  <1>8. Range(u) = Range(s) \cup Range(t)
    <2>1. ASSUME NEW k \in 1..l + m PROVE u[k] \in Range(s) \cup Range(t)
      <3>1. CASE k \in 1..l
        BY <1>3, <1>5, <3>1 DEF Range
      <3>2. CASE k \notin 1..l
        <4>1. PICK j \in 1..m : k = l + j
          BY <1>7, <3>2
        <4> QED BY <1>3, <1>6, <4>1 DEF Range
      <3> QED BY <3>1, <3>2
    <2>2. \A k \in 1..l : s[k] \in Range(u)
      BY <1>3, <1>5 DEF Range
    <2>3. \A k \in 1..m : t[k] \in Range(u)
      BY <1>3, <1>6 DEF Range
    <2>4. Range(u) \subseteq Range(s) \cup Range(t)
      BY <1>3, <2>1 DEF Range
    <2>5. Range(s) \subseteq Range(u)
      BY <1>3, <2>2 DEF Range
    <2>6. Range(t) \subseteq Range(u)
      BY <1>3, <2>3 DEF Range
    <2> QED BY <2>4, <2>5, <2>6
  <1>9. ASSUME IsInjective(s), IsInjective(t), Range(s) \cap Range(t) = {}
        PROVE  IsInjective(u)
    <2>1. \A j, k \in 1..l : u[j] = u[k] => j = k
      BY <1>3, <1>5, <1>9 DEF IsInjective
    <2>2. \A j, k \in 1..m : u[l + j] = u[l + k] => l + j = l + k
      BY <1>3, <1>6, <1>9 DEF IsInjective
    <2>3. \A j \in 1..l, k \in 1..m : u[j] # u[l + k]
      BY <1>3, <1>5, <1>6, <1>9 DEF Range
    <2>4. SUFFICES ASSUME NEW j \in 1..l + m, NEW k \in 1..l + m, u[j] = u[k] PROVE j = k
      BY <1>3 DEF IsInjective
    <2>5. CASE j \in 1..l /\ k \in 1..l
      BY <2>1, <2>4, <2>5
    <2>6. CASE j \in 1..l /\ k \notin 1..l
      BY <1>7, <2>3, <2>4, <2>6
    <2>7. CASE j \notin 1..l /\ k \in 1..l
      BY <1>7, <2>3, <2>4, <2>7
    <2>8. CASE j \notin 1..l /\ k \notin 1..l
      <3>1. PICK i \in 1..m : j = l + i
        BY <1>7, <2>8
      <3>2. PICK h \in 1..m : k = l + h
        BY <1>7, <2>8
      <3> QED BY <2>2, <2>4, <3>1, <3>2
    <2> QED BY <2>5, <2>6, <2>7, <2>8
  <1> QED BY <1>1, <1>8, <1>9

\* What happens to blocks: a new transaction, an accepted block, a finished block, and
\* blocks that are taken back.
LEMMA ApartSteps ==
    ASSUME NEW T, NEW a \in Seq(T), NEW b \in Seq(T), NEW c \in Seq(T), Apart(a, b, c)
    PROVE  /\ \A m \in T : m \notin Range(a) \cup Range(b) \cup Range(c)
                             => Apart(a, b, Append(c, m))
           /\ Apart(a \o b, <<>>, c)
           /\ Apart(a, c, <<>>)
           /\ Apart(a, b, <<>>)
           /\ Apart(a, <<>>, c)
           /\ Apart(a, <<>>, <<>>)
  <1>1. Range(<<>>) = {} /\ IsInjective(<<>>)
    BY EmptyRange
  <1>2. ASSUME NEW m \in T, m \notin Range(a) \cup Range(b) \cup Range(c)
        PROVE  Apart(a, b, Append(c, m))
    <2>1. Range(Append(c, m)) = Range(c) \cup {m} /\ IsInjective(Append(c, m))
      BY <1>2, AppendRange DEF Apart
    <2> QED BY <1>2, <2>1 DEF Apart
  <1>3. Apart(a \o b, <<>>, c)
    <2>1. Range(a \o b) = Range(a) \cup Range(b) /\ IsInjective(a \o b)
      BY ConcatRange DEF Apart
    <2> QED BY <1>1, <2>1 DEF Apart
  <1>4. Apart(a, c, <<>>) /\ Apart(a, b, <<>>) /\ Apart(a, <<>>, c) /\ Apart(a, <<>>, <<>>)
    BY <1>1 DEF Apart
  <1> QED BY <1>2, <1>3, <1>4

\* All of them together.
LEMMA ApartOnce ==
    ASSUME NEW T, NEW a \in Seq(T), NEW b \in Seq(T), NEW c \in Seq(T), Apart(a, b, c)
    PROVE  IsInjective(a \o b \o c)
  <1>1. PICK d : d = a \o b
    OBVIOUS
  <1>2. d \in Seq(T) /\ Range(d) = Range(a) \cup Range(b) /\ IsInjective(d)
    BY <1>1, ConcatRange, ConcatProperties DEF Apart
  <1>3. IsInjective(d \o c)
    BY <1>2, ConcatRange DEF Apart
  <1> QED BY <1>1, <1>3

-----------------------------------------------------------------------------
(* The node *)

Item   == [msg : Msg, tag : Msg]
AckMsg == [tag : Msg, multiple : BOOLEAN]
Status == {"none", "signing", "signed", "unsigned", "failed"}
Tags   == {NoBlock, NoTag} \cup Msg

\* The types of a node.
TNode ==
    [content : [Msg -> {"good", "fails", "malformed"}], building : BOOLEAN,
     trxs : Seq(Msg), room : Nat, made : Seq(Msg), status : Status, head : Numbers,
     chain : Seq(Msg), aborted : Seq(Msg), incoming : Seq(Item),
     tracked : [Numbers -> Tags], paused : Int, current : {0} \cup Numbers,
     acks : Seq(AckMsg), refused : SUBSET Msg]

\* The pause counter when p tasks are on their way.
Balance(n, p) == n.paused = p + (IF n.current = 0 THEN 1 ELSE 0)

\* The nodes of the inductive invariant.
Sound(p) == {n \in TNode : Apart(n.chain, n.made, n.trxs) /\ Balance(n, p)}

\* m differs from n in nothing that Sound is about.
Alike(n, m) ==
    /\ m.chain = n.chain /\ m.made = n.made /\ m.trxs = n.trxs
    /\ m.paused = n.paused /\ m.current = n.current

\* So m is as sound as n.
LEMMA AlikeSound ==
    ASSUME NEW p, NEW n \in Sound(p), NEW m \in TNode, Alike(n, m)
    PROVE  m \in Sound(p)
  BY DEF Sound, Alike, Balance

\* An ack changes nothing else.
LEMMA AckOK ==
    ASSUME NEW p, NEW n \in Sound(p), NEW tag \in Msg, NEW multiple \in BOOLEAN
    PROVE  Ack(n, tag, multiple) \in Sound(p) /\ Ack(n, tag, multiple).made = n.made
  <1>1. n \in TNode
    BY DEF Sound
  <1>2. PICK a \in AckMsg : a = [tag |-> tag, multiple |-> multiple]
    BY DEF AckMsg
  <1>3. PICK q \in Seq(AckMsg) : q = Append(n.acks, a)
    <2>1. n.acks \in Seq(AckMsg)
      BY <1>1 DEF TNode
    <2>2. Append(n.acks, a) \in Seq(AckMsg)
      BY <2>1
    <2> QED BY <2>2
  <1>4. PICK m : m = [n EXCEPT !.acks = q]
    OBVIOUS
  <1>5. m \in TNode /\ Alike(n, m)
    BY <1>1, <1>4 DEF TNode, Alike
  <1>6. Ack(n, tag, multiple) = m
    BY <1>2, <1>3, <1>4 DEF Ack
  <1> QED BY <1>5, <1>6, AlikeSound DEF Alike

\* The callback acks or notes the tag.
LEMMA CallbackOK ==
    ASSUME NEW p, NEW n \in Sound(p), NEW i \in Item, NEW applied \in BOOLEAN
    PROVE  Callback(n, i, applied) \in Sound(p) /\ Callback(n, i, applied).made = n.made
  <1>1. n \in TNode /\ i.tag \in Msg
    BY DEF Sound, Item
  <1>2. CASE AckMode = "received"
    <2>1. Callback(n, i, applied) = n
      BY <1>2 DEF Callback
    <2> QED BY <2>1
  <1>3. CASE AckMode # "received" /\ (AckMode = "executed" \/ ~applied)
    <2>1. PICK f \in BOOLEAN : f = FALSE
      OBVIOUS
    <2>2. Callback(n, i, applied) = Ack(n, i.tag, f)
      BY <1>3, <2>1 DEF Callback
    <2> QED BY <1>1, <2>2, AckOK
  <1>4. CASE AckMode # "received" /\ ~(AckMode = "executed" \/ ~applied)
    <2>1. PICK t : t = [n.tracked EXCEPT ![Succ(n.head)] = i.tag]
      OBVIOUS
    <2>2. t \in [Numbers -> Tags]
      <3>1. n.tracked \in [Numbers -> Tags] /\ i.tag \in Tags
        BY <1>1 DEF TNode, Tags
      <3> QED BY <2>1, <3>1
    <2>3. PICK m : m = [n EXCEPT !.tracked = t]
      OBVIOUS
    <2>4. m \in TNode /\ Alike(n, m)
      BY <1>1, <2>2, <2>3 DEF TNode, Alike
    <2>5. Callback(n, i, applied) = m
      BY <1>4, <2>1, <2>3 DEF Callback
    <2> QED BY <2>4, <2>5, AlikeSound DEF Alike
  <1> QED BY <1>2, <1>3, <1>4

\* The queue takes a transaction or answers a duplicate.
LEMMA AddIncomingOK ==
    ASSUME NEW p, NEW n \in Sound(p), NEW i \in Item
    PROVE  AddIncoming(n, i) \in Sound(p)
  <1>1. n \in TNode
    BY DEF Sound
  <1>2. CASE i.msg \in Queued(n)
    <2>1. PICK f \in BOOLEAN : f = FALSE
      OBVIOUS
    <2>2. AddIncoming(n, i) = Callback(n, i, f)
      BY <1>2, <2>1 DEF AddIncoming
    <2> QED BY <2>2, CallbackOK
  <1>3. CASE i.msg \notin Queued(n)
    <2>1. PICK q : q = Append(n.incoming, i)
      OBVIOUS
    <2>2. q \in Seq(Item)
      <3>1. n.incoming \in Seq(Item)
        BY <1>1 DEF TNode
      <3> QED BY <2>1, <3>1
    <2>3. PICK m : m = [n EXCEPT !.incoming = q]
      OBVIOUS
    <2>4. m \in TNode /\ Alike(n, m)
      BY <1>1, <2>2, <2>3 DEF TNode, Alike
    <2>5. AddIncoming(n, i) = m
      BY <1>3, <2>1, <2>3 DEF AddIncoming
    <2> QED BY <2>4, <2>5, AlikeSound
  <1> QED BY <1>2, <1>3

\* The transactions of an aborted block are put back.
LEMMA AddAbortedOK ==
    ASSUME NEW p, NEW n \in Sound(p), NEW trxs \in Seq(Msg)
    PROVE  AddAborted(n, trxs) \in Sound(p)
  <1>1. n \in TNode
    BY DEF Sound
  <1>2. PICK at : at = {k \in DOMAIN trxs : trxs[k] \notin Queued(n)}
    OBVIOUS
  <1>3. PICK t : t = Select(trxs, at)
    OBVIOUS
  <1>4. PICK q : q = n.aborted \o t
    OBVIOUS
  <1>5. q \in Seq(Msg)
    <2>1. n.aborted \in Seq(Msg) /\ t \in Seq(Msg)
      BY <1>1, <1>3, SelectOK DEF TNode
    <2> QED BY <1>4, <2>1
  <1>6. PICK m : m = [n EXCEPT !.aborted = q]
    OBVIOUS
  <1>7. m \in TNode /\ Alike(n, m)
    BY <1>1, <1>5, <1>6 DEF TNode, Alike
  <1>8. AddAborted(n, trxs) = m
    BY <1>2, <1>3, <1>4, <1>6 DEF AddAborted
  <1> QED BY <1>7, <1>8, AlikeSound

\* A transaction of an accepted block leaves the queue.
LEMMA ClearedOK ==
    ASSUME NEW p, NEW n \in Sound(p), NEW x \in Msg
    PROVE  Cleared(n, x) \in Sound(p) /\ Cleared(n, x).made = n.made
  <1>1. PICK at : at = {k \in DOMAIN n.incoming : n.incoming[k].msg = x}
    OBVIOUS
  <1>2. PICK a : a = IF at = {} THEN n
                     ELSE Callback(n, n.incoming[CHOOSE k \in at : TRUE], FALSE)
    OBVIOUS
  <1>3. a \in Sound(p) /\ a.made = n.made
    <2>1. CASE at = {}
      BY <1>2, <2>1
    <2>2. CASE at # {}
      <3>1. PICK k : k = CHOOSE j \in at : TRUE
        OBVIOUS
      <3>2. k \in DOMAIN n.incoming
        BY <1>1, <2>2, <3>1
      <3>3. n.incoming \in Seq(Item)
        BY DEF Sound, TNode
      <3>4. PICK i \in Item : i = n.incoming[k]
        BY <3>2, <3>3
      <3>5. PICK f \in BOOLEAN : f = FALSE
        OBVIOUS
      <3>6. a = Callback(n, i, f)
        BY <1>2, <2>2, <3>1, <3>4, <3>5
      <3> QED BY <3>6, CallbackOK
    <2> QED BY <2>1, <2>2
  <1>4. a \in TNode
    BY <1>3 DEF Sound
  <1>5. PICK u : u = Select(a.aborted, {k \in DOMAIN a.aborted : a.aborted[k] # x})
    OBVIOUS
  <1>6. PICK w : w = Select(a.incoming, DOMAIN a.incoming \ at)
    OBVIOUS
  <1>7. u \in Seq(Msg) /\ w \in Seq(Item)
    <2>1. a.aborted \in Seq(Msg) /\ a.incoming \in Seq(Item)
      BY <1>4 DEF TNode
    <2> QED BY <1>5, <1>6, <2>1, SelectOK
  <1>8. PICK m : m = [a EXCEPT !.aborted = u, !.incoming = w]
    OBVIOUS
  <1>9. m \in TNode /\ Alike(a, m)
    BY <1>4, <1>7, <1>8 DEF TNode, Alike
  <1>10. Cleared(n, x) = m
    BY <1>1, <1>2, <1>5, <1>6, <1>8, Zenon DEF Cleared
  <1> QED BY <1>3, <1>9, <1>10, AlikeSound DEF Alike

\* All transactions of an accepted block.
LEMMA ClearAppliedOK ==
    ASSUME NEW p, NEW n \in Sound(p), NEW trxs \in Seq(Msg)
    PROVE  ClearApplied(n, trxs) \in Sound(p) /\ ClearApplied(n, trxs).made = n.made
  <1> DEFINE Step(q, k) == Cleared(q, trxs[k])
  <1>1. PICK V : V = {q \in Sound(p) : q.made = n.made}
    OBVIOUS
  <1>2. PICK len \in Nat : len = Len(trxs)
    OBVIOUS
  <1>3. \A k \in 1..len : trxs[k] \in Msg
    BY <1>2
  <1>4. \A k \in 1..len, q \in V : Step(q, k) \in V
    BY <1>1, <1>3, ClearedOK
  <1> HIDE DEF Step
  <1>5. PICK F : F = [k \in 1..len |-> [q \in V |-> Step(q, k)]]
    OBVIOUS
  <1>6. F \in [1..len -> [V -> V]] /\ \A k \in 1..len, q \in V : F[k][q] = Step(q, k)
    BY <1>4, <1>5
  <1>7. PICK f : IsRun(f, V, len, n, F)
    BY <1>1, <1>6, RecursionExists
  <1>8. f = [k \in 0..len |-> IF k = 0 THEN n ELSE Step(f[k - 1], k)]
    <2>1. f \in [0..len -> V] /\ f[0] = n /\ \A k \in 1..len : f[k] = F[k][f[k - 1]]
      BY <1>7 DEF IsRun
    <2>2. \A k \in 1..len : f[k - 1] \in V
      BY <2>1
    <2>3. \A k \in 0..len : f[k] = IF k = 0 THEN n ELSE Step(f[k - 1], k)
      BY <1>6, <2>1, <2>2
    <2> QED BY <2>1, <2>3
  <1>9. PICK g : g = CHOOSE h : h = [k \in 0..len |-> IF k = 0 THEN n ELSE Step(h[k - 1], k)]
    OBVIOUS
  <1>10. g = [k \in 0..len |-> IF k = 0 THEN n ELSE Step(g[k - 1], k)]
    BY <1>8, <1>9
  <1>11. g[0] = n /\ \A k \in 1..len : g[k] = Step(g[k - 1], k)
    BY <1>10
  <1>12. g[len] \in V
    <2>1. g[0] \in V /\ \A k \in 1..len : g[k - 1] \in V => g[k] \in V
      BY <1>1, <1>4, <1>11
    <2>2. \A k \in 0..len : g[k] \in V
      BY <2>1, StepsStay
    <2> QED BY <2>2
  <1>13. ClearApplied(n, trxs) = g[len]
    BY <1>2, <1>9 DEF ClearApplied, Step
  <1> QED BY <1>1, <1>12, <1>13

\* A transaction that is in no block is added to the pending block.
LEMMA AddTrx ==
    ASSUME NEW p, NEW n \in Sound(p), NEW x \in Msg, ~Known(n, x)
    PROVE  [n EXCEPT !.trxs = Append(n.trxs, x)] \in Sound(p)
  <1>1. n \in TNode /\ Apart(n.chain, n.made, n.trxs) /\ Balance(n, p)
    BY DEF Sound
  <1>2. n.chain \in Seq(Msg) /\ n.made \in Seq(Msg) /\ n.trxs \in Seq(Msg)
    BY <1>1 DEF TNode
  <1>3. PICK q : q = Append(n.trxs, x)
    OBVIOUS
  <1>4. q \in Seq(Msg) /\ Apart(n.chain, n.made, q)
    <2>1. x \notin Range(n.chain) \cup Range(n.made) \cup Range(n.trxs)
      BY DEF Known
    <2> QED BY <1>1, <1>2, <1>3, <2>1, ApartSteps
  <1>5. PICK m : m = [n EXCEPT !.trxs = q]
    OBVIOUS
  <1>6. /\ m \in TNode /\ m.chain = n.chain /\ m.made = n.made /\ m.trxs = q
        /\ m.paused = n.paused /\ m.current = n.current
    BY <1>1, <1>4, <1>5 DEF TNode
  <1>7. m \in Sound(p)
    BY <1>1, <1>4, <1>6 DEF Sound, Balance
  <1> QED BY <1>3, <1>5, <1>7

\* A transaction gets into the pending block, into the queue, or fails: it gets into the
\* block only if it is in none.
LEMMA ProcessIncomingOK ==
    ASSUME NEW p, NEW n \in Sound(p), NEW i \in Item
    PROVE  ProcessIncoming(n, i) \in Sound(p)
  <1>1. n \in TNode /\ i.msg \in Msg /\ i.tag \in Msg
    BY DEF Sound, Item
  <1>2. PICK yes \in BOOLEAN : yes = TRUE
    OBVIOUS
  <1>3. PICK no \in BOOLEAN : no = FALSE
    OBVIOUS
  <1>4. CASE Known(n, i.msg)
    <2>1. ProcessIncoming(n, i) = Callback(n, i, no)
      BY <1>3, <1>4 DEF ProcessIncoming
    <2> QED BY <2>1, CallbackOK
  <1>5. CASE ~Known(n, i.msg) /\ (~n.building \/ Full(n))
    <2>1. ProcessIncoming(n, i) = AddIncoming(n, i)
      BY <1>5 DEF ProcessIncoming
    <2> QED BY <2>1, AddIncomingOK
  <1>6. CASE ~Known(n, i.msg) /\ ~(~n.building \/ Full(n)) /\ n.content[i.msg] = "fails"
    <2>1. PICK a : a = Callback(n, i, no)
      OBVIOUS
    <2>2. a \in Sound(p) /\ a \in TNode
      BY <2>1, CallbackOK DEF Sound
    <2>3. PICK m : m = [a EXCEPT !.refused = a.refused \cup {i.msg}]
      OBVIOUS
    <2>4. m \in TNode /\ Alike(a, m)
      <3>1. PICK r \in SUBSET Msg : r = a.refused \cup {i.msg}
        BY <1>1, <2>2 DEF TNode
      <3>2. m = [a EXCEPT !.refused = r]
        BY <2>3, <3>1
      <3> QED BY <2>2, <3>2 DEF TNode, Alike
    <2>5. ProcessIncoming(n, i) = m
      BY <1>3, <1>6, <2>1, <2>3 DEF ProcessIncoming
    <2> QED BY <2>2, <2>4, <2>5, AlikeSound
  <1>7. CASE ~Known(n, i.msg) /\ ~(~n.building \/ Full(n)) /\ n.content[i.msg] # "fails"
    <2>1. PICK a : a = [n EXCEPT !.trxs = Append(n.trxs, i.msg)]
      OBVIOUS
    <2>2. a \in Sound(p)
      BY <1>1, <1>7, <2>1, AddTrx
    <2>3. ProcessIncoming(n, i) = Callback(a, i, yes)
      BY <1>2, <1>7, <2>1 DEF ProcessIncoming
    <2> QED BY <2>2, <2>3, CallbackOK
  <1> QED BY <1>4, <1>5, <1>6, <1>7

\* The transactions of aborted blocks are tried again.
LEMMA ReappliedOK ==
    ASSUME NEW p, NEW n \in Sound(p), NEW x \in Msg
    PROVE  Reapplied(n, x) \in Sound(p)
  <1>1. n \in TNode
    BY DEF Sound
  <1>2. CASE n.aborted # <<>> \/ (Full(n) /\ ~Known(n, x))
    <2>1. PICK q : q = Append(n.aborted, x)
      OBVIOUS
    <2>2. q \in Seq(Msg)
      <3>1. n.aborted \in Seq(Msg)
        BY <1>1 DEF TNode
      <3> QED BY <2>1, <3>1
    <2>3. PICK m : m = [n EXCEPT !.aborted = q]
      OBVIOUS
    <2>4. m \in TNode /\ Alike(n, m)
      BY <1>1, <2>2, <2>3 DEF TNode, Alike
    <2>5. Reapplied(n, x) = m
      BY <1>2, <2>1, <2>3 DEF Reapplied
    <2> QED BY <2>4, <2>5, AlikeSound
  <1>3. CASE n.aborted = <<>> /\ Known(n, x)
    <2>1. Reapplied(n, x) = n
      BY <1>3 DEF Reapplied
    <2> QED BY <2>1
  <1>4. CASE n.aborted = <<>> /\ ~Full(n) /\ ~Known(n, x)
    <2>1. PICK a : a = [n EXCEPT !.trxs = Append(n.trxs, x)]
      OBVIOUS
    <2>2. a \in Sound(p)
      BY <1>4, <2>1, AddTrx
    <2>3. Reapplied(n, x) = a
      BY <1>4, <2>1 DEF Reapplied
    <2> QED BY <2>2, <2>3
  <1> QED BY <1>2, <1>3, <1>4

\* All of them.
LEMMA ProcessUnappliedOK ==
    ASSUME NEW p, NEW n \in Sound(p)
    PROVE  ProcessUnapplied(n) \in Sound(p)
  <1>a. n \in TNode
    BY DEF Sound
  <1>b. PICK b : b = [n EXCEPT !.aborted = <<>>]
    OBVIOUS
  <1>c. b \in Sound(p)
    <2>1. b \in TNode /\ Alike(n, b)
      <3>1. <<>> \in Seq(Msg)
        BY EmptySeq
      <3> QED BY <1>a, <1>b, <3>1 DEF TNode, Alike
    <2> QED BY <2>1, AlikeSound
  <1>d. n.aborted \in Seq(Msg)
    BY <1>a DEF TNode
  <1> DEFINE Step(q, k) == Reapplied(q, n.aborted[k])
  <1>1. PICK V : V = Sound(p)
    OBVIOUS
  <1>2. PICK len \in Nat : len = Len(n.aborted)
    BY <1>d
  <1>3. \A k \in 1..len : n.aborted[k] \in Msg
    BY <1>2, <1>d
  <1>4. \A k \in 1..len, q \in V : Step(q, k) \in V
    BY <1>1, <1>3, ReappliedOK
  <1> HIDE DEF Step
  <1>5. PICK F : F = [k \in 1..len |-> [q \in V |-> Step(q, k)]]
    OBVIOUS
  <1>6. F \in [1..len -> [V -> V]] /\ \A k \in 1..len, q \in V : F[k][q] = Step(q, k)
    BY <1>4, <1>5
  <1>7. PICK f : IsRun(f, V, len, b, F)
    BY <1>1, <1>c, <1>6, RecursionExists
  <1>8. f = [k \in 0..len |-> IF k = 0 THEN b ELSE Step(f[k - 1], k)]
    <2>1. f \in [0..len -> V] /\ f[0] = b /\ \A k \in 1..len : f[k] = F[k][f[k - 1]]
      BY <1>7 DEF IsRun
    <2>2. \A k \in 1..len : f[k - 1] \in V
      BY <2>1
    <2>3. \A k \in 0..len : f[k] = IF k = 0 THEN b ELSE Step(f[k - 1], k)
      BY <1>6, <2>1, <2>2
    <2> QED BY <2>1, <2>3
  <1>9. PICK g : g = CHOOSE h : h = [k \in 0..len |-> IF k = 0 THEN b ELSE Step(h[k - 1], k)]
    OBVIOUS
  <1>10. g = [k \in 0..len |-> IF k = 0 THEN b ELSE Step(g[k - 1], k)]
    BY <1>8, <1>9
  <1>11. g[0] = b /\ \A k \in 1..len : g[k] = Step(g[k - 1], k)
    BY <1>10
  <1>12. g[len] \in V
    <2>1. g[0] \in V /\ \A k \in 1..len : g[k - 1] \in V => g[k] \in V
      BY <1>1, <1>c, <1>4, <1>11
    <2>2. \A k \in 0..len : g[k] \in V
      BY <2>1, StepsStay
    <2> QED BY <2>2
  <1>13. ProcessUnapplied(n) = g[len]
    BY <1>2, <1>9, <1>b DEF ProcessUnapplied, Step
  <1> QED BY <1>1, <1>12, <1>13

\* The first of the queue is processed.
LEMMA ProcessFirstOK ==
    ASSUME NEW p, NEW s \in [stop : BOOLEAN, node : Sound(p)]
    PROVE  ProcessFirst(s) \in [stop : BOOLEAN, node : Sound(p)]
  <1>1. PICK n \in Sound(p) : n = s.node
    OBVIOUS
  <1>2. n \in TNode
    BY DEF Sound
  <1>3. n.incoming \in Seq(Item)
    BY <1>2 DEF TNode
  <1>4. CASE s.stop \/ n.incoming = <<>>
    <2>1. ProcessFirst(s) = s
      BY <1>1, <1>4 DEF ProcessFirst
    <2> QED BY <2>1
  <1>5. CASE ~(s.stop \/ n.incoming = <<>>)
    <2>1. PICK i, q : i = Head(n.incoming) /\ q = Tail(n.incoming)
      OBVIOUS
    <2>2. i \in Item /\ q \in Seq(Item)
      BY <1>3, <1>5, <2>1, HeadTailProperties
    <2>3. PICK m : m = [n EXCEPT !.incoming = q]
      OBVIOUS
    <2>4. m \in TNode /\ Alike(n, m)
      BY <1>2, <2>2, <2>3 DEF TNode, Alike
    <2>5. m \in Sound(p)
      BY <2>4, AlikeSound
    <2>6. PICK r : r = ProcessIncoming(m, i)
      OBVIOUS
    <2>7. r \in Sound(p)
      BY <2>2, <2>5, <2>6, ProcessIncomingOK
    <2>8. PICK e \in BOOLEAN : e = Exhausted(m, i)
      BY DEF Exhausted
    <2>9. ProcessFirst(s) = [stop |-> e, node |-> r]
      BY <1>1, <1>5, <2>1, <2>3, <2>6, <2>8 DEF ProcessFirst
    <2> QED BY <2>7, <2>9
  <1> QED BY <1>4, <1>5

\* All of the queue, or as many as fit.
LEMMA ProcessIncomingTrxsOK ==
    ASSUME NEW p, NEW n \in Sound(p)
    PROVE  ProcessIncomingTrxs(n) \in Sound(p)
  <1>a. PICK b : b = [stop |-> FALSE, node |-> n]
    OBVIOUS
  <1>b. b \in [stop : BOOLEAN, node : Sound(p)]
    BY <1>a
  <1>c. n.incoming \in Seq(Item)
    BY DEF Sound, TNode
  <1> DEFINE Step(q, k) == ProcessFirst(q)
  <1>1. PICK V : V = [stop : BOOLEAN, node : Sound(p)]
    OBVIOUS
  <1>2. PICK len \in Nat : len = Len(n.incoming)
    BY <1>c
  <1>3. \A k \in 1..len : n.incoming[k] \in Item
    BY <1>2, <1>c
  <1>4. \A k \in 1..len, q \in V : Step(q, k) \in V
    BY <1>1, <1>3, ProcessFirstOK
  <1> HIDE DEF Step
  <1>5. PICK F : F = [k \in 1..len |-> [q \in V |-> Step(q, k)]]
    OBVIOUS
  <1>6. F \in [1..len -> [V -> V]] /\ \A k \in 1..len, q \in V : F[k][q] = Step(q, k)
    BY <1>4, <1>5
  <1>7. PICK f : IsRun(f, V, len, b, F)
    BY <1>1, <1>b, <1>6, RecursionExists
  <1>8. f = [k \in 0..len |-> IF k = 0 THEN b ELSE Step(f[k - 1], k)]
    <2>1. f \in [0..len -> V] /\ f[0] = b /\ \A k \in 1..len : f[k] = F[k][f[k - 1]]
      BY <1>7 DEF IsRun
    <2>2. \A k \in 1..len : f[k - 1] \in V
      BY <2>1
    <2>3. \A k \in 0..len : f[k] = IF k = 0 THEN b ELSE Step(f[k - 1], k)
      BY <1>6, <2>1, <2>2
    <2> QED BY <2>1, <2>3
  <1>9. PICK g : g = CHOOSE h : h = [k \in 0..len |-> IF k = 0 THEN b ELSE Step(h[k - 1], k)]
    OBVIOUS
  <1>10. g = [k \in 0..len |-> IF k = 0 THEN b ELSE Step(g[k - 1], k)]
    BY <1>8, <1>9
  <1>11. g[0] = b /\ \A k \in 1..len : g[k] = Step(g[k - 1], k)
    BY <1>10
  <1>12. g[len] \in V
    <2>1. g[0] \in V /\ \A k \in 1..len : g[k - 1] \in V => g[k] \in V
      BY <1>1, <1>b, <1>4, <1>11
    <2>2. \A k \in 0..len : g[k] \in V
      BY <2>1, StepsStay
    <2> QED BY <2>2
  <1>13. ProcessIncomingTrxs(n) = g[len].node
    BY <1>2, <1>9, <1>a DEF ProcessIncomingTrxs, Step
  <1> QED BY <1>1, <1>12, <1>13

-----------------------------------------------------------------------------
(* The blocks *)

\* The two block numbers take turns.
LEMMA SuccOK == \A bn \in Numbers : Succ(bn) \in Numbers /\ bn # 0
  BY DEF Succ, Numbers

\* The fifo queue is unpaused unless a block was being built.
LEMMA OnBlockStartOK ==
    ASSUME NEW p \in Nat, NEW n \in Sound(p), NEW bn \in Numbers
    PROVE  OnBlockStart(n, bn) \in Sound(p)
  <1>1. n \in TNode /\ Apart(n.chain, n.made, n.trxs) /\ Balance(n, p)
    BY DEF Sound
  <1>2. PICK t : t = [n.tracked EXCEPT ![bn] = NoTag]
    OBVIOUS
  <1>3. t \in [Numbers -> Tags]
    <2>1. n.tracked \in [Numbers -> Tags] /\ NoTag \in Tags
      BY <1>1 DEF TNode, Tags
    <2> QED BY <1>2, <2>1
  <1>4. PICK c \in Int : c = IF n.current = 0 THEN n.paused - 1 ELSE n.paused
    BY <1>1 DEF TNode
  <1>5. PICK m : m = [n EXCEPT !.tracked = t, !.current = bn, !.paused = c]
    OBVIOUS
  <1>6. /\ m \in TNode /\ m.chain = n.chain /\ m.made = n.made /\ m.trxs = n.trxs
        /\ m.paused = c /\ m.current = bn
    BY <1>1, <1>3, <1>5 DEF TNode
  <1>7. Balance(m, p)
    BY <1>1, <1>4, <1>6, SuccOK DEF Balance
  <1>8. OnBlockStart(n, bn) = m
    BY <1>2, <1>4, <1>5 DEF OnBlockStart
  <1> QED BY <1>1, <1>6, <1>7, <1>8 DEF Sound

\* It is paused when the block it worked for is no longer built.
LEMMA OnBlockStopOK ==
    ASSUME NEW p \in Nat, NEW n \in Sound(p), NEW bn \in Numbers
    PROVE  OnBlockStop(n, bn) \in Sound(p)
  <1>1. n \in TNode /\ Apart(n.chain, n.made, n.trxs) /\ Balance(n, p)
    BY DEF Sound
  <1>2. CASE n.current # bn
    <2>1. OnBlockStop(n, bn) = n
      BY <1>2 DEF OnBlockStop
    <2> QED BY <2>1
  <1>3. CASE n.current = bn
    <2>1. PICK c \in Int : c = n.paused + 1
      BY <1>1 DEF TNode
    <2>2. PICK m : m = [n EXCEPT !.paused = c, !.current = 0]
      OBVIOUS
    <2>3. /\ m \in TNode /\ m.chain = n.chain /\ m.made = n.made /\ m.trxs = n.trxs
          /\ m.paused = c /\ m.current = 0
      BY <1>1, <2>2 DEF TNode
    <2>4. Balance(m, p)
      BY <1>1, <1>3, <2>1, <2>3, SuccOK DEF Balance
    <2>5. OnBlockStop(n, bn) = m
      BY <1>3, <2>1, <2>2 DEF OnBlockStop
    <2> QED BY <1>1, <2>3, <2>4, <2>5 DEF Sound
  <1> QED BY <1>2, <1>3

\* An accepted block stops the queue if it was the one it worked for, and is acked.
LEMMA OnAcceptedBlockOK ==
    ASSUME NEW p \in Nat, NEW n \in Sound(p), NEW bn \in Numbers
    PROVE  OnAcceptedBlock(n, bn) \in Sound(p)
  <1>1. PICK s : s = OnBlockStop(n, bn)
    OBVIOUS
  <1>2. s \in Sound(p) /\ s \in TNode
    BY <1>1, OnBlockStopOK DEF Sound
  <1>3. PICK t : t = [s.tracked EXCEPT ![bn] = NoBlock]
    OBVIOUS
  <1>4. t \in [Numbers -> Tags]
    <2>1. s.tracked \in [Numbers -> Tags] /\ NoBlock \in Tags
      BY <1>2 DEF TNode, Tags
    <2> QED BY <1>3, <2>1
  <1>5. PICK d : d = [s EXCEPT !.tracked = t]
    OBVIOUS
  <1>6. d \in TNode /\ Alike(s, d)
    BY <1>2, <1>4, <1>5 DEF TNode, Alike
  <1>7. d \in Sound(p)
    BY <1>2, <1>6, AlikeSound
  <1>8. CASE AckMode = "in_block" /\ n.tracked[bn] > NoTag
    <2>1. n.tracked[bn] \in Tags
      BY DEF Sound, TNode
    <2>2. PICK x \in Msg : x = n.tracked[bn]
      BY <1>8, <2>1 DEF Tags, NoTag, NoBlock
    <2>3. PICK yes \in BOOLEAN : yes = TRUE
      OBVIOUS
    <2>4. OnAcceptedBlock(n, bn) = Ack(d, x, yes)
      BY <1>1, <1>3, <1>5, <1>8, <2>2, <2>3 DEF OnAcceptedBlock
    <2> QED BY <1>7, <2>4, AckOK
  <1>9. CASE ~(AckMode = "in_block" /\ n.tracked[bn] > NoTag)
    <2>1. OnAcceptedBlock(n, bn) = d
      BY <1>1, <1>3, <1>5, <1>9 DEF OnAcceptedBlock
    <2> QED BY <1>7, <2>1
  <1> QED BY <1>8, <1>9

\* The last block joins the chain.
LEMMA AcceptOK ==
    ASSUME NEW p \in Nat, NEW n \in Sound(p)
    PROVE  Accept(n) \in Sound(p)
  <1>1. n \in TNode
    BY DEF Sound
  <1>2. n.made \in Seq(Msg) /\ n.head \in Numbers
    BY <1>1 DEF TNode
  <1>3. PICK a : a = ClearApplied(n, n.made)
    OBVIOUS
  <1>4. a \in Sound(p) /\ a.made = n.made
    BY <1>2, <1>3, ClearAppliedOK
  <1>5. a \in TNode /\ Apart(a.chain, a.made, a.trxs) /\ Balance(a, p)
    BY <1>4 DEF Sound
  <1>6. a.chain \in Seq(Msg) /\ a.made \in Seq(Msg) /\ a.trxs \in Seq(Msg)
    BY <1>5 DEF TNode
  <1>7. PICK c, e : c = a.chain \o n.made /\ e = <<>>
    OBVIOUS
  <1>8. c \in Seq(Msg) /\ e \in Seq(Msg) /\ Apart(c, e, a.trxs)
    <2>1. c = a.chain \o a.made
      BY <1>4, <1>7
    <2> QED BY <1>5, <1>6, <1>7, <2>1, ApartSteps, ConcatProperties, EmptySeq
  <1>9. PICK m : m = [a EXCEPT !.chain = c, !.made = e, !.status = "none"]
    OBVIOUS
  <1>10. /\ m \in TNode /\ m.chain = c /\ m.made = e /\ m.trxs = a.trxs
         /\ m.paused = a.paused /\ m.current = a.current
    BY <1>5, <1>8, <1>9 DEF TNode, Status
  <1>11. m \in Sound(p)
    BY <1>5, <1>8, <1>10 DEF Sound, Balance
  <1>12. Accept(n) = OnAcceptedBlock(m, n.head)
    BY <1>3, <1>7, <1>9 DEF Accept
  <1> QED BY <1>2, <1>11, <1>12, OnAcceptedBlockOK

\* The pending block is aborted, and below it the block that failed.
LEMMA AbortBlockOK ==
    ASSUME NEW p \in Nat, NEW n \in Sound(p)
    PROVE  AbortBlock(n) \in Sound(p)
  <1>1. n \in TNode
    BY DEF Sound
  <1>2. /\ n.trxs \in Seq(Msg) /\ n.made \in Seq(Msg) /\ n.head \in Numbers
        /\ Succ(n.head) \in Numbers
    BY <1>1, SuccOK DEF TNode
  <1>3. PICK e \in Seq(Msg) : e = <<>>
    BY EmptySeq
  <1>4. PICK s : s = IF n.building
                     THEN [OnBlockStop(n, Succ(n.head)) EXCEPT
                             !.building = FALSE, !.trxs = e, !.room = 0]
                     ELSE n
    OBVIOUS
  <1>5. s \in Sound(p)
    <2>1. CASE ~n.building
      BY <1>4, <2>1
    <2>2. CASE n.building
      <3>1. PICK a : a = OnBlockStop(n, Succ(n.head))
        OBVIOUS
      <3>2. a \in Sound(p)
        BY <1>2, <3>1, OnBlockStopOK
      <3>3. a \in TNode /\ Apart(a.chain, a.made, a.trxs) /\ Balance(a, p)
        BY <3>2 DEF Sound
      <3>4. s = [a EXCEPT !.building = FALSE, !.trxs = e, !.room = 0]
        BY <1>4, <2>2, <3>1
      <3>5. /\ s \in TNode /\ s.chain = a.chain /\ s.made = a.made /\ s.trxs = e
            /\ s.paused = a.paused /\ s.current = a.current
        BY <3>3, <3>4 DEF TNode
      <3>6. Apart(s.chain, s.made, s.trxs)
        <4>1. a.chain \in Seq(Msg) /\ a.made \in Seq(Msg) /\ a.trxs \in Seq(Msg)
          BY <3>3 DEF TNode
        <4> QED BY <1>3, <3>3, <3>5, <4>1, ApartSteps
      <3> QED BY <3>3, <3>5, <3>6 DEF Sound, Balance
    <2> QED BY <2>1, <2>2
  <1>6. CASE n.status # "failed"
    <2>1. AbortBlock(n) = AddAborted(s, n.trxs)
      BY <1>3, <1>4, <1>6 DEF AbortBlock
    <2> QED BY <1>2, <1>5, <2>1, AddAbortedOK
  <1>7. CASE n.status = "failed"
    <2>1. PICK a : a = OnBlockStop(s, n.head)
      OBVIOUS
    <2>2. a \in Sound(p)
      BY <1>2, <1>5, <2>1, OnBlockStopOK
    <2>3. a \in TNode /\ Apart(a.chain, a.made, a.trxs) /\ Balance(a, p)
      BY <2>2 DEF Sound
    <2>4. PICK h \in Numbers : h = Succ(a.head)
      BY <2>3, SuccOK DEF TNode
    <2>5. PICK m : m = [a EXCEPT !.head = h, !.made = e, !.status = "none"]
      OBVIOUS
    <2>6. /\ m \in TNode /\ m.chain = a.chain /\ m.made = e /\ m.trxs = a.trxs
          /\ m.paused = a.paused /\ m.current = a.current
      BY <2>3, <2>5 DEF TNode, Status
    <2>7. Apart(m.chain, m.made, m.trxs)
      <3>1. a.chain \in Seq(Msg) /\ a.made \in Seq(Msg) /\ a.trxs \in Seq(Msg)
        BY <2>3 DEF TNode
      <3> QED BY <1>3, <2>3, <2>6, <3>1, ApartSteps
    <2>8. m \in Sound(p)
      BY <2>3, <2>6, <2>7 DEF Sound, Balance
    <2>9. PICK t \in Seq(Msg) : t = n.trxs \o n.made
      BY <1>2, ConcatProperties
    <2>10. AbortBlock(n) = AddAborted(m, t)
      BY <1>3, <1>4, <1>7, <2>1, <2>4, <2>5, <2>9 DEF AbortBlock
    <2> QED BY <2>8, <2>10, AddAbortedOK
  <1> QED BY <1>6, <1>7

\* A block is started.
LEMMA StartBlockOK ==
    ASSUME NEW p \in Nat, NEW n \in Sound(p), NEW room \in Nat
    PROVE  StartBlock(n, room) \in Sound(p)
  <1>1. n \in TNode
    BY DEF Sound
  <1>2. PICK bn \in Numbers : bn = Succ(n.head)
    BY <1>1, SuccOK DEF TNode
  <1>3. PICK m : m = [n EXCEPT !.building = TRUE, !.room = room]
    OBVIOUS
  <1>4. m \in TNode /\ Alike(n, m)
    BY <1>1, <1>3 DEF TNode, Alike
  <1>5. m \in Sound(p)
    BY <1>4, AlikeSound
  <1>6. StartBlock(n, room) = OnBlockStart(m, bn)
    BY <1>2, <1>3 DEF StartBlock
  <1> QED BY <1>5, <1>6, OnBlockStartOK

\* The pending block becomes the last block.
LEMMA FinalizeBlockOK ==
    ASSUME NEW p \in Nat, NEW n \in Sound(p)
    PROVE  FinalizeBlock(n) \in Sound(p)
  <1>1. n \in TNode /\ Apart(n.chain, n.made, n.trxs) /\ Balance(n, p)
    BY DEF Sound
  <1>2. n.chain \in Seq(Msg) /\ n.made \in Seq(Msg) /\ n.trxs \in Seq(Msg)
    BY <1>1 DEF TNode
  <1>3. PICK h \in Numbers : h = Succ(n.head)
    BY <1>1, SuccOK DEF TNode
  <1>4. PICK e \in Seq(Msg) : e = <<>>
    BY EmptySeq
  <1>5. PICK m : m = [n EXCEPT !.made = n.trxs, !.status = "signing", !.head = h,
                               !.building = FALSE, !.trxs = e, !.room = 0]
    OBVIOUS
  <1>6. /\ m \in TNode /\ m.chain = n.chain /\ m.made = n.trxs /\ m.trxs = e
        /\ m.paused = n.paused /\ m.current = n.current
    BY <1>1, <1>2, <1>5 DEF TNode, Status
  <1>7. Apart(m.chain, m.made, m.trxs)
    BY <1>1, <1>2, <1>4, <1>6, ApartSteps
  <1>8. FinalizeBlock(n) = m
    BY <1>3, <1>4, <1>5 DEF FinalizeBlock
  <1> QED BY <1>1, <1>6, <1>7, <1>8 DEF Sound, Balance

\* Another status changes nothing else.
LEMMA StatusOK ==
    ASSUME NEW p, NEW n \in Sound(p), NEW st \in Status
    PROVE  [n EXCEPT !.status = st] \in Sound(p)
  <1>1. n \in TNode
    BY DEF Sound
  <1>2. PICK m : m = [n EXCEPT !.status = st]
    OBVIOUS
  <1>3. m \in TNode /\ Alike(n, m)
    BY <1>1, <1>2 DEF TNode, Alike
  <1> QED BY <1>2, <1>3, AlikeSound

\* The last block is completed when its signature is there.
LEMMA CompleteOK ==
    ASSUME NEW p \in Nat, NEW n \in Sound(p)
    PROVE  Complete(n) \in Sound(p)
  <1>1. CASE n.status = "signed"
    <2>1. Complete(n) = Accept(n)
      BY <1>1 DEF Complete
    <2> QED BY <2>1, AcceptOK
  <1>2. CASE n.status = "unsigned"
    <2>1. PICK st \in Status : st = "failed"
      BY DEF Status
    <2>2. Complete(n) = [n EXCEPT !.status = st]
      BY <1>2, <2>1 DEF Complete
    <2> QED BY <2>2, StatusOK
  <1>3. CASE n.status # "signed" /\ n.status # "unsigned"
    <2>1. Complete(n) = n
      BY <1>3 DEF Complete
    <2> QED BY <2>1
  <1> QED BY <1>1, <1>2, <1>3

\* maybe_produce_block.
LEMMA ProducedOK ==
    ASSUME NEW p \in Nat, NEW n \in Sound(p)
    PROVE  Produced(n) \in Sound(p)
  BY AbortBlockOK, FinalizeBlockOK DEF Produced

\* The task of a transaction unpauses the queue.
LEMMA UnpauseOK ==
    ASSUME NEW p \in Nat, NEW n \in Sound(p)
    PROVE  Unpause(n) \in Sound(p - 1)
  <1>1. n \in TNode /\ Apart(n.chain, n.made, n.trxs) /\ Balance(n, p)
    BY DEF Sound
  <1>2. PICK c \in Int : c = n.paused - 1
    BY <1>1 DEF TNode
  <1>3. PICK m : m = [n EXCEPT !.paused = c]
    OBVIOUS
  <1>4. /\ m \in TNode /\ m.chain = n.chain /\ m.made = n.made /\ m.trxs = n.trxs
        /\ m.paused = c /\ m.current = n.current
    BY <1>1, <1>3 DEF TNode
  <1>5. Balance(m, p - 1)
    BY <1>1, <1>2, <1>4 DEF Balance
  <1>6. Unpause(n) = m
    BY <1>2, <1>3 DEF Unpause
  <1> QED BY <1>1, <1>4, <1>5, <1>6 DEF Sound

\* A task that is posted pauses it.
LEMMA PauseOK ==
    ASSUME NEW p \in Nat, NEW n \in Sound(p)
    PROVE  [n EXCEPT !.paused = n.paused + 1] \in Sound(p + 1)
  <1>1. n \in TNode /\ Apart(n.chain, n.made, n.trxs) /\ Balance(n, p)
    BY DEF Sound
  <1>2. PICK c \in Int : c = n.paused + 1
    BY <1>1 DEF TNode
  <1>3. PICK m : m = [n EXCEPT !.paused = c]
    OBVIOUS
  <1>4. /\ m \in TNode /\ m.chain = n.chain /\ m.made = n.made /\ m.trxs = n.trxs
        /\ m.paused = c /\ m.current = n.current
    BY <1>1, <1>3 DEF TNode
  <1>5. Balance(m, p + 1)
    BY <1>1, <1>2, <1>4 DEF Balance
  <1>6. m \in Sound(p + 1)
    BY <1>1, <1>4, <1>5 DEF Sound
  <1> QED BY <1>2, <1>3, <1>6

\* Fewer acks change nothing else.
LEMMA AcksOK ==
    ASSUME NEW p, NEW n \in Sound(p), NEW q \in Seq(AckMsg)
    PROVE  [n EXCEPT !.acks = q] \in Sound(p)
  <1>1. n \in TNode
    BY DEF Sound
  <1>2. PICK m : m = [n EXCEPT !.acks = q]
    OBVIOUS
  <1>3. m \in TNode /\ Alike(n, m)
    BY <1>1, <1>2 DEF TNode, Alike
  <1> QED BY <1>2, <1>3, AlikeSound

\* What the broker pushes.
LEMMA PushOK ==
    ASSUME NEW msgs
    PROVE  Push(msgs) \in Seq(Msg) /\ Len(Push(msgs)) <= Messages
  <1>1. Messages \in Nat /\ Msg = 1..Messages
    BY TrxIntakeAssumption DEF Msg
  <1>2. PICK s : s = [m \in 1..Messages |-> m]
    OBVIOUS
  <1>3. s \in Seq(Msg) /\ Len(s) = Messages
    BY <1>1, <1>2
  <1>4. Push(msgs) = Select(s, msgs)
    BY <1>1, <1>2 DEF Push
  <1> QED BY <1>3, <1>4, SelectOK

-----------------------------------------------------------------------------
(* The inductive invariant *)

\* The queues between the threads.
QueuesInv ==
    /\ timer \in {"loop", "produce"}
    /\ fifo \in Seq(Item) /\ posted \in Seq(Item)
    /\ Len(fifo) <= MaxDepth /\ burst \in 0..Burst

\* The channel.  A tag is at most Messages; the thread that is blocked holds the message
\* it has taken last, so that the channel is not lost.
ChannelInv ==
    /\ up \in BOOLEAN /\ pushing \in BOOLEAN
    /\ sent \in Seq(Msg) /\ Len(sent) <= Messages
    /\ taken \in 0..Len(sent) /\ unacked \subseteq DOMAIN sent
    /\ pushing => taken >= 1
    /\ ~up => taken = 0

Inv == QueuesInv /\ ChannelInv /\ node \in Sound(Len(posted))

\* Every pass of the production loop.
LEMMA LoopOK ==
    ASSUME NEW p \in Nat, NEW n \in Sound(p), Loop(n)
    PROVE  node' \in Sound(p) /\ timer' \in {"loop", "produce"}
  <1>1. CASE Waits(n)
    BY <1>1 DEF Waits
  <1>2. CASE Starts(n)
    <2>1. PICK room \in Rooms : Started(Complete(StartBlock(AbortBlock(n), room)))
      BY <1>2 DEF Starts
    <2>2. room \in Nat
      BY TrxIntakeAssumption
    <2>3. PICK m : m = Complete(StartBlock(AbortBlock(n), room))
      OBVIOUS
    <2>4. m \in Sound(p)
      <3>1. PICK a \in Sound(p) : a = AbortBlock(n)
        BY AbortBlockOK
      <3>2. PICK b \in Sound(p) : b = StartBlock(a, room)
        BY <2>2, StartBlockOK
      <3> QED BY <2>3, <3>1, <3>2, CompleteOK
    <2>5. PICK u : u = ProcessUnapplied(m)
      OBVIOUS
    <2>6. u \in Sound(p) /\ ProcessIncomingTrxs(u) \in Sound(p)
      BY <2>4, <2>5, ProcessUnappliedOK, ProcessIncomingTrxsOK
    <2>7. \/ node' = m /\ timer' = "loop"
          \/ node' = ProcessIncomingTrxs(u) /\ timer' = "produce"
          \/ node' = u /\ timer' = "produce"
      BY <2>1, <2>3, <2>5 DEF Started
    <2> QED BY <2>4, <2>6, <2>7
  <1> QED BY <1>1, <1>2 DEF Loop

\* The main thread without the tasks of transactions: only the node and the timer change.
LEMMA MainThreadOK ==
    ASSUME Inv, UNCHANGED <<trxq, amqp>>,
           node' \in Sound(Len(posted)), timer' \in {"loop", "produce"}
    PROVE  Inv'
  <1>1. /\ fifo' = fifo /\ burst' = burst /\ posted' = posted
        /\ up' = up /\ sent' = sent /\ taken' = taken /\ pushing' = pushing
        /\ unacked' = unacked
    BY DEF trxq, amqp
  <1>2. QueuesInv'
    BY <1>1 DEF Inv, QueuesInv
  <1>3. ChannelInv'
    BY <1>1 DEF Inv, ChannelInv
  <1>4. (node \in Sound(Len(posted)))'
    BY <1>1
  <1> QED BY <1>2, <1>3, <1>4 DEF Inv

\* The production loop is tried.
LEMMA LoopTimerOK == Inv /\ LoopTimer => Inv'
  <1>1. SUFFICES ASSUME Inv, LoopTimer PROVE Inv'
    OBVIOUS
  <1>2. PICK p \in Nat : p = Len(posted)
    BY <1>1 DEF Inv, QueuesInv
  <1>3. PICK n \in Sound(p) : n = node
    BY <1>1, <1>2 DEF Inv
  <1>4. Loop(n)
    BY <1>1, <1>3 DEF LoopTimer, Loop, Waits, Starts, Started
  <1>5. node' \in Sound(p) /\ timer' \in {"loop", "produce"}
    BY <1>4, LoopOK
  <1>6. UNCHANGED <<trxq, amqp>>
    BY <1>1 DEF LoopTimer
  <1>7. node' \in Sound(Len(posted))
    BY <1>2, <1>5
  <1> QED BY <1>1, <1>5, <1>6, <1>7, MainThreadOK

\* A block is produced, or the loop is tried.
LEMMA ProduceTimerOK == Inv /\ ProduceTimer => Inv'
  <1>1. SUFFICES ASSUME Inv, ProduceTimer PROVE Inv'
    OBVIOUS
  <1>2. PICK p \in Nat : p = Len(posted)
    BY <1>1 DEF Inv, QueuesInv
  <1>3. PICK n \in Sound(p) : n = node
    BY <1>1, <1>2 DEF Inv
  <1>4. PICK m \in Sound(p) : m = Produced(n)
    BY ProducedOK
  <1>5. Loop(m)
    BY <1>1, <1>3, <1>4 DEF ProduceTimer, Loop, Waits, Starts, Started
  <1>6. node' \in Sound(p) /\ timer' \in {"loop", "produce"}
    BY <1>5, LoopOK
  <1>7. UNCHANGED <<trxq, amqp>>
    BY <1>1 DEF ProduceTimer
  <1>8. node' \in Sound(Len(posted))
    BY <1>2, <1>6
  <1> QED BY <1>1, <1>6, <1>7, <1>8, MainThreadOK

\* A request aborts the pending block.
LEMMA InterruptOK == Inv /\ Interrupt => Inv'
  <1>1. SUFFICES ASSUME Inv, Interrupt PROVE Inv'
    OBVIOUS
  <1>2. PICK p \in Nat : p = Len(posted)
    BY <1>1 DEF Inv, QueuesInv
  <1>3. PICK n \in Sound(p) : n = node
    BY <1>1, <1>2 DEF Inv
  <1>4. PICK m \in Sound(p) : m = AbortBlock(n)
    BY AbortBlockOK
  <1>5. Loop(m)
    BY <1>1, <1>3, <1>4 DEF Interrupt, Loop, Waits, Starts, Started
  <1>6. node' \in Sound(p) /\ timer' \in {"loop", "produce"}
    BY <1>5, LoopOK
  <1>7. UNCHANGED <<trxq, amqp>>
    BY <1>1 DEF Interrupt
  <1>8. node' \in Sound(Len(posted))
    BY <1>2, <1>6
  <1> QED BY <1>1, <1>6, <1>7, <1>8, MainThreadOK

\* The task of the signing thread.
LEMMA CompletionTaskOK == Inv /\ CompletionTask => Inv'
  <1>1. SUFFICES ASSUME Inv, CompletionTask PROVE Inv'
    OBVIOUS
  <1>2. PICK p \in Nat : p = Len(posted)
    BY <1>1 DEF Inv, QueuesInv
  <1>3. PICK n \in Sound(p) : n = node
    BY <1>1, <1>2 DEF Inv
  <1>4. PICK m \in Sound(p) : m = Complete(n)
    BY CompleteOK
  <1>5. AbortBlock(m) \in Sound(p)
    BY AbortBlockOK
  <1>6. node' = m \/ node' = AbortBlock(m)
    BY <1>1, <1>3, <1>4 DEF CompletionTask
  <1>7. UNCHANGED <<trxq, amqp>> /\ timer' \in {"loop", "produce"}
    BY <1>1 DEF CompletionTask, Inv, QueuesInv
  <1>8. node' \in Sound(Len(posted))
    BY <1>2, <1>5, <1>6
  <1> QED BY <1>1, <1>7, <1>8, MainThreadOK

\* The signing thread.
LEMMA SignOK == Inv /\ Sign => Inv'
  <1>1. SUFFICES ASSUME Inv, Sign PROVE Inv'
    OBVIOUS
  <1>2. PICK p \in Nat : p = Len(posted)
    BY <1>1 DEF Inv, QueuesInv
  <1>3. PICK n \in Sound(p) : n = node
    BY <1>1, <1>2 DEF Inv
  <1>4. PICK st \in Status : node' = [n EXCEPT !.status = st]
    BY <1>1, <1>3 DEF Sign, Status
  <1>5. node' \in Sound(p)
    BY <1>4, StatusOK
  <1>6. UNCHANGED <<trxq, amqp>> /\ timer' \in {"loop", "produce"}
    BY <1>1 DEF Sign, Inv, QueuesInv
  <1>7. node' \in Sound(Len(posted))
    BY <1>2, <1>5
  <1> QED BY <1>1, <1>6, <1>7, MainThreadOK

\* The task of a transaction: one task less, and the queue is unpaused once.
LEMMA TrxTaskOK == Inv /\ TrxTask => Inv'
  <1>1. SUFFICES ASSUME Inv, TrxTask PROVE Inv'
    OBVIOUS
  <1>2. posted \in Seq(Item) /\ posted # <<>>
    BY <1>1 DEF Inv, QueuesInv, TrxTask
  <1>3. PICK i \in Item : i = Head(posted)
    BY <1>2, HeadTailProperties
  <1>4. PICK p \in Nat : p = Len(posted)
    BY <1>2
  <1>5. PICK n \in Sound(p) : n = node
    BY <1>1, <1>4 DEF Inv
  <1>6. PICK m \in Sound(p) : m = ProcessIncoming(n, i)
    BY ProcessIncomingOK
  <1>7. node' = Unpause(m)
    BY <1>1, <1>3, <1>5, <1>6 DEF TrxTask
  <1>8. node' \in Sound(p - 1)
    BY <1>7, UnpauseOK
  <1>9. posted' = Tail(posted) /\ UNCHANGED <<fifo, burst, amqp>>
    BY <1>1 DEF TrxTask
  <1>10. posted' \in Seq(Item) /\ Len(posted') = p - 1
    BY <1>2, <1>4, <1>9, HeadTailProperties
  <1>11. timer' \in {"loop", "produce"}
    BY <1>1 DEF TrxTask, Inv, QueuesInv
  <1>12. QueuesInv'
    BY <1>1, <1>9, <1>10, <1>11 DEF Inv, QueuesInv
  <1>13. ChannelInv'
    BY <1>1, <1>9 DEF Inv, ChannelInv, amqp
  <1>14. (node \in Sound(Len(posted)))'
    BY <1>8, <1>10
  <1> QED BY <1>12, <1>13, <1>14 DEF Inv

\* The trxq thread takes one message.
LEMMA PostOK ==
    ASSUME Inv, Post, burst' \in 0..Burst
    PROVE  Inv'
  <1>1. fifo \in Seq(Item) /\ fifo # <<>> /\ posted \in Seq(Item) /\ Len(fifo) <= MaxDepth
    BY DEF Inv, QueuesInv, Post
  <1>2. /\ posted' = Append(posted, Head(fifo)) /\ fifo' = Tail(fifo)
        /\ UNCHANGED <<timer, amqp>>
    BY DEF Post
  <1>3. PICK p \in Nat : p = Len(posted)
    BY <1>1
  <1>4. PICK n \in Sound(p) : n = node
    BY <1>3 DEF Inv
  <1>5. node' = [n EXCEPT !.paused = n.paused + 1]
    BY <1>4 DEF Post
  <1>6. node' \in Sound(p + 1)
    BY <1>5, PauseOK
  <1>7. /\ Head(fifo) \in Item /\ Tail(fifo) \in Seq(Item) /\ Len(fifo) \in Nat
        /\ Len(Tail(fifo)) = Len(fifo) - 1
    BY <1>1, HeadTailProperties, LenProperties
  <1>8. posted' \in Seq(Item) /\ Len(posted') = p + 1
    BY <1>1, <1>2, <1>3, <1>7
  <1>9. fifo' \in Seq(Item) /\ Len(fifo') <= MaxDepth
    BY <1>1, <1>2, <1>7, TrxIntakeAssumption
  <1>10. QueuesInv'
    BY <1>2, <1>8, <1>9 DEF Inv, QueuesInv
  <1>11. ChannelInv'
    BY <1>2 DEF Inv, ChannelInv, amqp
  <1>12. (node \in Sound(Len(posted)))'
    BY <1>6, <1>8
  <1> QED BY <1>10, <1>11, <1>12 DEF Inv

\* The trxq thread.
LEMMA TrxqThreadOK == Inv /\ TrxqThread => Inv'
  <1>1. SUFFICES ASSUME Inv, TrxqThread PROVE Inv'
    OBVIOUS
  <1>2. Burst \in Nat /\ burst \in 0..Burst
    BY <1>1, TrxIntakeAssumption DEF Inv, QueuesInv
  <1>3. CASE PopAndPause
    <2>1. Post /\ burst' \in 0..Burst
      BY <1>2, <1>3 DEF PopAndPause
    <2> QED BY <1>1, <2>1, PostOK
  <1>4. CASE Pop
    <2>1. Post /\ burst' \in 0..Burst
      BY <1>2, <1>4 DEF Pop
    <2> QED BY <1>1, <2>1, PostOK
  <1>5. CASE BurstEnds
    <2>1. burst' = 0 /\ UNCHANGED <<node, timer, fifo, posted, amqp>>
      BY <1>5 DEF BurstEnds
    <2>2. burst' \in 0..Burst
      BY <1>2, <2>1
    <2>3. QueuesInv'
      BY <1>1, <2>1, <2>2 DEF Inv, QueuesInv
    <2>4. ChannelInv'
      BY <1>1, <2>1 DEF Inv, ChannelInv, amqp
    <2>5. (node \in Sound(Len(posted)))'
      BY <1>1, <2>1 DEF Inv
    <2> QED BY <2>3, <2>4, <2>5 DEF Inv
  <1> QED BY <1>1, <1>3, <1>4, <1>5 DEF TrxqThread

\* A message goes into the fifo queue, which has room for it.
LEMMA QueueOK ==
    ASSUME Inv, NEW i \in Item, Queue(i), Len(fifo) < MaxDepth, UNCHANGED posted
    PROVE  /\ fifo' \in Seq(Item) /\ Len(fifo') <= MaxDepth
           /\ node' \in Sound(Len(posted))
  <1>1. fifo \in Seq(Item) /\ fifo' = Append(fifo, i)
    BY DEF Inv, QueuesInv, Queue
  <1>2. fifo' \in Seq(Item) /\ Len(fifo') = Len(fifo) + 1 /\ Len(fifo) \in Nat
    BY <1>1
  <1>3. Len(fifo') <= MaxDepth
    BY <1>2, TrxIntakeAssumption
  <1>4. PICK p, n : p = Len(posted) /\ n = node
    OBVIOUS
  <1>5. n \in Sound(p) /\ i.tag \in Msg
    BY <1>4 DEF Inv, Item
  <1>6. PICK no \in BOOLEAN : no = FALSE
    OBVIOUS
  <1>7. node' = Ack(n, i.tag, no) \/ node' = n
    BY <1>4, <1>6 DEF Queue
  <1>8. node' \in Sound(p)
    BY <1>5, <1>7, AckOK
  <1> QED BY <1>2, <1>3, <1>4, <1>8

\* The amqp thread takes a message.
LEMMA ConsumeOK == Inv /\ Consume => Inv'
  <1>1. SUFFICES ASSUME Inv, Consume PROVE Inv'
    OBVIOUS
  <1>2. /\ sent \in Seq(Msg) /\ Len(sent) <= Messages /\ taken \in 0..Len(sent)
        /\ fifo \in Seq(Item) /\ Len(fifo) <= MaxDepth
    BY <1>1 DEF Inv, QueuesInv, ChannelInv
  <1>3. Len(sent) \in Nat /\ Messages \in Nat
    BY <1>2, TrxIntakeAssumption
  <1>4. PICK t : t = taken + 1
    OBVIOUS
  <1>5. up /\ ~pushing /\ taken < Len(sent) /\ taken' = t
    BY <1>1, <1>4 DEF Consume
  <1>6. t \in 1..Len(sent) /\ t \in Msg
    BY <1>2, <1>3, <1>4, <1>5 DEF Msg
  <1>7. sent[t] \in Msg
    BY <1>2, <1>6
  <1>8. PICK i \in Item : i = [msg |-> sent[t], tag |-> t]
    BY <1>6, <1>7 DEF Item
  <1>9. i.msg \in Msg /\ i.tag \in Msg
    BY DEF Item
  <1>10. UNCHANGED <<timer, burst, posted, up, sent, unacked>>
    BY <1>1 DEF Consume
  <1>11. \/ /\ node' = [Ack(node, i.tag, FALSE) EXCEPT !.refused = @ \cup {i.msg}]
            /\ UNCHANGED <<fifo, pushing>>
         \/ Len(fifo) < MaxDepth /\ Queue(i) /\ UNCHANGED pushing
         \/ pushing' = TRUE /\ UNCHANGED <<node, fifo>>
    BY <1>1, <1>5, <1>8 DEF Consume, Queue
  <1>12. pushing' \in BOOLEAN
    BY <1>1, <1>11 DEF Inv, ChannelInv
  <1>13. ChannelInv'
    <2>1. taken' \in 0..Len(sent) /\ taken' >= 1
      BY <1>3, <1>5, <1>6
    <2> QED BY <1>1, <1>5, <1>10, <1>12, <2>1 DEF Inv, ChannelInv
  <1>14. PICK p : p = Len(posted)
    OBVIOUS
  <1>15. PICK n \in Sound(p) : n = node
    BY <1>1, <1>14 DEF Inv
  <1>16. fifo' \in Seq(Item) /\ Len(fifo') <= MaxDepth /\ node' \in Sound(p)
    <2>1. CASE /\ node' = [Ack(node, i.tag, FALSE) EXCEPT !.refused = @ \cup {i.msg}]
               /\ UNCHANGED <<fifo, pushing>>
      <3>1. PICK no \in BOOLEAN : no = FALSE
        OBVIOUS
      <3>2. PICK a \in Sound(p) : a = Ack(n, i.tag, no)
        BY <1>9, AckOK
      <3>3. a \in TNode
        BY DEF Sound
      <3>4. PICK r \in SUBSET Msg : r = a.refused \cup {i.msg}
        BY <1>9, <3>3 DEF TNode
      <3>5. PICK m : m = [a EXCEPT !.refused = r]
        OBVIOUS
      <3>6. m \in TNode /\ Alike(a, m)
        BY <3>3, <3>5 DEF TNode, Alike
      <3>7. m \in Sound(p)
        BY <3>6, AlikeSound
      <3>8. node' = m
        BY <1>15, <2>1, <3>1, <3>2, <3>4, <3>5
      <3> QED BY <1>2, <2>1, <3>7, <3>8
    <2>2. CASE Len(fifo) < MaxDepth /\ Queue(i)
      BY <1>1, <1>10, <1>14, <2>2, QueueOK
    <2>3. CASE UNCHANGED <<node, fifo>>
      BY <1>2, <1>15, <2>3
    <2> QED BY <1>11, <2>1, <2>2, <2>3
  <1>17. QueuesInv'
    BY <1>1, <1>10, <1>16 DEF Inv, QueuesInv
  <1>18. (node \in Sound(Len(posted)))'
    BY <1>10, <1>14, <1>16
  <1> QED BY <1>13, <1>17, <1>18 DEF Inv

\* It goes on when the fifo queue has room.
LEMMA PushWaitedOK == Inv /\ PushWaited => Inv'
  <1>1. SUFFICES ASSUME Inv, PushWaited PROVE Inv'
    OBVIOUS
  <1>2. /\ sent \in Seq(Msg) /\ Len(sent) <= Messages /\ taken \in 0..Len(sent) /\ taken >= 1
    BY <1>1 DEF Inv, ChannelInv, PushWaited
  <1>3. Len(sent) \in Nat /\ Messages \in Nat
    BY <1>2, TrxIntakeAssumption
  <1>4. taken \in 1..Len(sent) /\ taken \in Msg
    BY <1>2, <1>3 DEF Msg
  <1>5. sent[taken] \in Msg
    BY <1>2, <1>4
  <1>6. PICK i \in Item : i = [msg |-> sent[taken], tag |-> taken]
    BY <1>4, <1>5 DEF Item
  <1>7. /\ Len(fifo) < MaxDepth /\ pushing' = FALSE
        /\ UNCHANGED <<timer, burst, posted, up, sent, taken, unacked>>
    BY <1>1 DEF PushWaited
  <1>8. Queue(i)
    BY <1>1, <1>6 DEF PushWaited, Queue
  <1>9. fifo' \in Seq(Item) /\ Len(fifo') <= MaxDepth /\ node' \in Sound(Len(posted))
    BY <1>1, <1>7, <1>8, QueueOK
  <1>10. QueuesInv'
    BY <1>1, <1>7, <1>9 DEF Inv, QueuesInv
  <1>11. ChannelInv'
    BY <1>1, <1>7 DEF Inv, ChannelInv
  <1>12. (node \in Sound(Len(posted)))'
    BY <1>7, <1>9
  <1> QED BY <1>10, <1>11, <1>12 DEF Inv

\* A lost channel has pushed nothing and waits for nothing.
LEMMA LoseOK ==
    ASSUME Inv, Lose, ~pushing, UNCHANGED pushing
    PROVE  ChannelInv'
  <1>1. up' = FALSE /\ sent' = <<>> /\ taken' = 0 /\ unacked' = {} /\ pushing' = FALSE
    BY DEF Lose, Inv, ChannelInv
  <1>2. <<>> \in Seq(Msg) /\ Len(<<>>) = 0
    BY EmptySeq
  <1>3. 0 <= Messages /\ 0 \in 0..0
    BY TrxIntakeAssumption
  <1>4. sent' \in Seq(Msg) /\ Len(sent') <= Messages /\ taken' \in 0..Len(sent')
    BY <1>1, <1>2, <1>3
  <1> QED BY <1>1, <1>4 DEF ChannelInv

\* It sends an ack, which may close the channel.
LEMMA SendAckOK == Inv /\ SendAck => Inv'
  <1>1. SUFFICES ASSUME Inv, SendAck PROVE Inv'
    OBVIOUS
  <1>2. PICK p : p = Len(posted)
    OBVIOUS
  <1>3. PICK n \in Sound(p) : n = node
    BY <1>1, <1>2 DEF Inv
  <1>4. n.acks \in Seq(AckMsg)
    BY DEF Sound, TNode
  <1>5. n.acks # <<>> /\ node' = [n EXCEPT !.acks = Tail(n.acks)]
    BY <1>1, <1>3 DEF SendAck
  <1>6. PICK q \in Seq(AckMsg) : q = Tail(n.acks)
    BY <1>4, <1>5, HeadTailProperties
  <1>7. node' = [n EXCEPT !.acks = q]
    BY <1>5, <1>6
  <1>8. node' \in Sound(p)
    BY <1>7, AcksOK
  <1>9. UNCHANGED <<timer, trxq, pushing>> /\ up /\ ~pushing
    BY <1>1 DEF SendAck
  <1>10. ChannelInv'
    <2>1. CASE unacked' \subseteq unacked /\ UNCHANGED <<up, sent, taken>>
      <3>1. unacked' \subseteq DOMAIN sent
        BY <1>1, <2>1 DEF Inv, ChannelInv
      <3> QED BY <1>1, <1>9, <2>1, <3>1 DEF Inv, ChannelInv
    <2>2. CASE Lose
      BY <1>1, <1>9, <2>2, LoseOK
    <2>3. (unacked' \subseteq unacked /\ UNCHANGED <<up, sent, taken>>) \/ Lose
      BY <1>1 DEF SendAck
    <2> QED BY <2>1, <2>2, <2>3
  <1>11. QueuesInv'
    BY <1>1, <1>9 DEF Inv, QueuesInv, trxq
  <1>12. (node \in Sound(Len(posted)))'
    BY <1>2, <1>8, <1>9 DEF trxq
  <1> QED BY <1>10, <1>11, <1>12 DEF Inv

\* The channel is lost.
LEMMA LoseChannelOK == Inv /\ LoseChannel => Inv'
  <1>1. SUFFICES ASSUME Inv, LoseChannel PROVE Inv'
    OBVIOUS
  <1>2. Lose /\ ~pushing /\ UNCHANGED <<node, timer, trxq, pushing>>
    BY <1>1 DEF LoseChannel
  <1>3. ChannelInv'
    BY <1>1, <1>2, LoseOK
  <1>4. QueuesInv'
    BY <1>1, <1>2 DEF Inv, QueuesInv, trxq
  <1>5. (node \in Sound(Len(posted)))'
    BY <1>1, <1>2 DEF Inv, trxq
  <1> QED BY <1>3, <1>4, <1>5 DEF Inv

\* The channel is opened again.
LEMMA ChannelReadyOK == Inv /\ ChannelReady => Inv'
  <1>1. SUFFICES ASSUME Inv, ChannelReady PROVE Inv'
    OBVIOUS
  <1>2. PICK p : p = Len(posted)
    OBVIOUS
  <1>3. PICK n \in Sound(p) : n = node
    BY <1>1, <1>2 DEF Inv
  <1>4. ~up /\ UNCHANGED <<timer, trxq, taken, pushing>>
    BY <1>1 DEF ChannelReady
  <1>5. CASE /\ \E k \in DOMAIN node.acks :
                   node' = [node EXCEPT !.acks = SubSeq(@, k + 1, Len(@))]
             /\ UNCHANGED <<up, sent, unacked>>
    <2>1. n.acks \in Seq(AckMsg)
      BY DEF Sound, TNode
    <2>2. PICK k \in DOMAIN n.acks : node' = [n EXCEPT !.acks = SubSeq(n.acks, k + 1, Len(n.acks))]
      BY <1>3, <1>5
    <2>3. Len(n.acks) \in Nat /\ k \in 1..Len(n.acks)
      BY <2>1, LenProperties
    <2>4. PICK a, b : a = k + 1 /\ b = Len(n.acks)
      OBVIOUS
    <2>5. a \in Int /\ b \in Int /\ a >= 1
      BY <2>3, <2>4
    <2>6. \A i \in a..b : n.acks[i] \in AckMsg
      <3>1. \A i \in a..b : i \in 1..Len(n.acks)
        BY <2>3, <2>4
      <3> QED BY <2>1, <3>1, ElementOfSeq
    <2>7. SubSeq(n.acks, a, b) \in Seq(AckMsg)
      BY <2>5, <2>6, SubSeqProperties
    <2>8. PICK q \in Seq(AckMsg) : q = SubSeq(n.acks, k + 1, Len(n.acks))
      BY <2>4, <2>7
    <2>9. node' = [n EXCEPT !.acks = q]
      BY <2>2, <2>8
    <2>10. node' \in Sound(p)
      BY <2>9, AcksOK
    <2>11. ChannelInv'
      BY <1>1, <1>4, <1>5 DEF Inv, ChannelInv
    <2>12. QueuesInv'
      BY <1>1, <1>4 DEF Inv, QueuesInv, trxq
    <2>13. (node \in Sound(Len(posted)))'
      BY <1>2, <1>4, <2>10 DEF trxq
    <2> QED BY <2>11, <2>12, <2>13 DEF Inv
  <1>6. CASE /\ up' = TRUE /\ sent' = Push(Msg \ settled) /\ unacked' = DOMAIN sent'
             /\ UNCHANGED node
    <2>1. PICK s : s = Push(Msg \ settled)
      OBVIOUS
    <2>2. s \in Seq(Msg) /\ Len(s) <= Messages
      BY <2>1, PushOK
    <2>3. taken = 0 /\ ~pushing /\ Len(s) \in Nat
      BY <1>1, <1>4, <2>2 DEF Inv, ChannelInv
    <2>4. taken' \in 0..Len(s) /\ pushing' = FALSE
      BY <1>1, <1>4, <2>3 DEF Inv, ChannelInv
    <2>5. sent' = s
      BY <1>6, <2>1
    <2>6. ChannelInv'
      BY <1>6, <2>2, <2>4, <2>5 DEF ChannelInv
    <2>7. QueuesInv'
      BY <1>1, <1>4 DEF Inv, QueuesInv, trxq
    <2>8. (node \in Sound(Len(posted)))'
      BY <1>1, <1>4, <1>6 DEF Inv, trxq
    <2> QED BY <2>6, <2>7, <2>8 DEF Inv
  <1> QED BY <1>1, <1>5, <1>6 DEF ChannelReady

\* The initial states.
LEMMA InitOK == Init => Inv
  <1>1. SUFFICES ASSUME Init PROVE Inv
    OBVIOUS
  <1>2. PICK content \in Contents : node = NewNode(content)
    BY <1>1 DEF Init
  <1>3. content \in [Msg -> {"good", "fails", "malformed"}]
    BY TrxIntakeAssumption
  <1>4. PICK e : e = <<>>
    OBVIOUS
  <1>5. e \in Seq(Msg) /\ e \in Seq(Item) /\ e \in Seq(AckMsg) /\ Len(e) = 0
    BY <1>4, EmptySeq
  <1>6. node \in TNode
    <2>1. [bn \in Numbers |-> NoBlock] \in [Numbers -> Tags]
      BY DEF Tags
    <2>2. 1 \in Numbers /\ "none" \in Status
      BY DEF Numbers, Status
    <2> QED BY <1>2, <1>3, <1>4, <1>5, <2>1, <2>2 DEF NewNode, TNode
  <1>7. node.chain = e /\ node.made = e /\ node.trxs = e /\ node.paused = 1 /\ node.current = 0
    BY <1>2, <1>4 DEF NewNode
  <1>8. Apart(e, e, e)
    BY <1>4, EmptyRange DEF Apart
  <1>9. posted = e /\ fifo = e /\ Len(posted) = 0 /\ Len(fifo) = 0
    BY <1>1, <1>4, <1>5 DEF Init
  <1>10. node \in Sound(Len(posted))
    BY <1>6, <1>7, <1>8, <1>9 DEF Sound, Balance
  <1>11. QueuesInv
    BY <1>1, <1>5, <1>9, TrxIntakeAssumption DEF Init, QueuesInv
  <1>12. ChannelInv
    <2>1. sent \in Seq(Msg) /\ Len(sent) <= Messages
      BY <1>1, PushOK DEF Init
    <2>2. up = TRUE /\ pushing = FALSE /\ taken = 0 /\ unacked = DOMAIN sent
      BY <1>1 DEF Init
    <2>3. taken \in 0..Len(sent)
      BY <2>1, <2>2
    <2> QED BY <2>1, <2>2, <2>3 DEF ChannelInv
  <1> QED BY <1>10, <1>11, <1>12 DEF Inv

\* Every step.
LEMMA NextOK == Inv /\ [Next]_vars => Inv'
  <1>1. ASSUME Inv, UNCHANGED vars PROVE Inv'
    <2>1. UNCHANGED <<trxq, amqp, node, timer>>
      BY <1>1 DEF vars
    <2>2. QueuesInv'
      BY <1>1, <2>1 DEF Inv, QueuesInv, trxq
    <2>3. ChannelInv'
      BY <1>1, <2>1 DEF Inv, ChannelInv, amqp
    <2>4. (node \in Sound(Len(posted)))'
      BY <1>1, <2>1 DEF Inv, trxq
    <2> QED BY <2>2, <2>3, <2>4 DEF Inv
  <1>2. Inv /\ AmqpThread => Inv'
    BY ConsumeOK, PushWaitedOK, SendAckOK, ChannelReadyOK DEF AmqpThread
  <1> QED BY <1>1, <1>2, LoseChannelOK, TrxqThreadOK, LoopTimerOK, ProduceTimerOK, TrxTaskOK,
             CompletionTaskOK, InterruptOK, SignOK DEF Next

-----------------------------------------------------------------------------
(* The theorems *)

\* The inductive invariant holds for every number of messages, every content, every size
\* of a block and of the fifo queue, every acknowledge mode and any number of faults.
THEOREM IntakeInvariant == Spec => []Inv
  <1> QED BY InitOK, NextOK, PTL DEF Spec

\* The queues are well formed, the fifo queue keeps to amqp-trx-queue-size, and the pause
\* counter of the fifo queue is the number of the tasks not run yet, and one more while no
\* block is being built.
THEOREM IntakeConsistent == Spec => []Consistent
  <1>1. Inv => Consistent
    <2>1. SUFFICES ASSUME Inv PROVE Consistent
      OBVIOUS
    <2>2. Msg \subseteq Nat /\ Item \subseteq Items
      BY TrxIntakeAssumption DEF Msg, Item, Items
    <2>3. PICK n \in Sound(Len(posted)) : n = node
      BY <2>1 DEF Inv
    <2>4. n \in TNode /\ Balance(n, Len(posted))
      BY DEF Sound
    <2>5. /\ node.aborted \in Seq(Msg) /\ node.incoming \in Seq(Item)
          /\ node.tracked \in [Numbers -> {NoBlock, NoTag} \cup Msg]
      BY <2>3, <2>4 DEF TNode, Tags
    <2>6. fifo \in Seq(Items) /\ posted \in Seq(Items) /\ node.incoming \in Seq(Items)
      BY <2>1, <2>2, <2>5, SeqMonotonic DEF Inv, QueuesInv
    <2>7. TypeOK
      BY <2>1, <2>5, <2>6 DEF Inv, QueuesInv, ChannelInv, TypeOK
    <2>8. QueueBalanced
      BY <2>3, <2>4 DEF Balance, QueueBalanced
    <2> QED BY <2>7, <2>8 DEF Consistent
  <1> QED BY <1>1, IntakeInvariant, PTL

\* No transaction is in two blocks or twice in one, whatever is delivered again, aborted
\* or not signed.
THEOREM EachIsOnce == Spec => []EachOnce
  <1>1. Inv => EachOnce
    <2>1. SUFFICES ASSUME Inv PROVE EachOnce
      OBVIOUS
    <2>2. PICK n \in Sound(Len(posted)) : n = node
      BY <2>1 DEF Inv
    <2>3. /\ n.chain \in Seq(Msg) /\ n.made \in Seq(Msg) /\ n.trxs \in Seq(Msg)
          /\ Apart(n.chain, n.made, n.trxs)
      BY DEF Sound, TNode
    <2>4. IsInjective(n.chain \o n.made \o n.trxs)
      BY <2>3, ApartOnce
    <2> QED BY <2>2, <2>4 DEF EachOnce
  <1> QED BY <1>1, IntakeInvariant, PTL
=============================================================================
