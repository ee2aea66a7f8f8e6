--------------------------- MODULE ContainerProofs ---------------------------
(***************************************************************************)
(* The list, the tables and the items of Containers keep what they         *)
(* promise: a section for each.                                            *)
(***************************************************************************)
EXTENDS Containers, FiniteSetTheorems, SequenceTheorems, WellFoundedInduction, TLAPS

-----------------------------------------------------------------------------
(***************************************************************************)
(* Following next from the first item of Json, the instance of CJson in    *)
(* Containers, gives a sequence of items, however long and in whatever     *)
(* order items were added, taken out and replaced, and every call is a     *)
(* step of ItemList.  The invariant: the walk is a chain of next, its      *)
(* items but the first point back by prev, none of them belongs to the     *)
(* program, and no other item has a next.  Nothing is known of the prev of *)
(* the first item, which may be stale.                                     *)
(***************************************************************************)
\* The pointers from first on run through the items of s and end behind them.
Chain(s, first, nxt) ==
  /\ s \in Seq(JsonNodes)
  /\ \A i, j \in 1 .. Len(s) : s[i] = s[j] => i = j
  /\ first = IF Len(s) = 0 THEN NoNode ELSE s[1]
  /\ \A i \in 1 .. Len(s) : nxt[s[i]] = IF i < Len(s) THEN s[i + 1] ELSE NoNode

Back(s, prv) == \A i \in 2 .. Len(s) : prv[s[i]] = s[i - 1]

ItemTypes == /\ loose \subseteq JsonNodes
         /\ child \in JsonNodes \cup {NoNode}
         /\ sibling \in [JsonNodes -> JsonNodes \cup {NoNode}]
         /\ prev \in [JsonNodes -> JsonNodes \cup {NoNode}]

ItemsInv == /\ ItemTypes
        /\ Chain(Json!Walk, child, sibling) /\ Back(Json!Walk, prev)
        /\ loose \cap Json!Listed = {}
        /\ \A n \in JsonNodes \ Json!Listed : sibling[n] = NoNode

\* A step takes the last item out if it leaves the cache of it stale.
Cached == Json!PrevOfFirstIsLast /\ ~Json!PrevOfFirstIsLast' => Json!Last \notin Json!Listed'

\* A set of natural numbers that is not empty has a least element: sets stand in for
\* predicates, so that this is what there is of induction.
LEMMA Least ==
  ASSUME NEW T, T \in SUBSET Nat, T # {}
  PROVE \E x \in T : \A y \in T : x <= y
<1>1. PICK x \in T : \A y \in T : ~(<<y, x>> \in OpToRel(<, Nat))
  BY NatLessThanWellFounded, WFMin
<1>2. ASSUME NEW y \in T PROVE x <= y
  <2>1. <<y, x>> \in Nat \X Nat
    OBVIOUS
  <2>2. ~(y < x)
    BY <1>1, <2>1 DEF OpToRel
  <2> QED BY <2>2
<1> QED BY <1>2

\* A sequence without repetition is no longer than there are items.
LEMMA Fits ==
  ASSUME IsFiniteSet(JsonNodes), NEW s \in Seq(JsonNodes),
         \A i, j \in 1 .. Len(s) : s[i] = s[j] => i = j
  PROVE  Len(s) <= Cardinality(JsonNodes) /\ Cardinality(JsonNodes) \in Nat
<1>1. Cardinality(JsonNodes) \in Nat
  BY FS_CardinalityType
<1>2. Len(s) \in Nat /\ s \in [1 .. Len(s) -> JsonNodes]
  OBVIOUS
<1>3. IsFiniteSet(1 .. Len(s)) /\ Cardinality(1 .. Len(s)) = Len(s)
  BY <1>2, FS_Interval
<1>4. ASSUME Cardinality(JsonNodes) < Cardinality(1 .. Len(s)) PROVE FALSE
  <2>1. \E x, y \in 1 .. Len(s) : x # y /\ s[x] = s[y]
    BY <1>2, <1>3, <1>4, FS_PigeonHole
  <2> QED BY <2>1
<1> QED BY <1>1, <1>2, <1>3, <1>4

\* As many positions as items.
LEMMA PositionsCount == Json!Positions = 1 .. Cardinality(JsonNodes)
  BY DEF Json!Positions, Json!Cardinality, Cardinality, Json!IsFiniteSet, IsFiniteSet

\* What the recursive function of the walk is a choice of.
LEMMA ReachedIsChosen ==
  ASSUME NEW first, NEW nxt
  PROVE  Json!Reached(first, nxt) =
           LET at == CHOOSE f : f = [i \in Json!Positions |->
                 IF i = 1 THEN first ELSE IF f[i - 1] = NoNode THEN NoNode ELSE nxt[f[i - 1]]]
           IN  [i \in {j \in Json!Positions : at[j] # NoNode} |-> at[i]]
  BY DEF Json!Reached

\* The walk over pointers that describe a sequence gives the sequence.
LEMMA WalkIsChain ==
  ASSUME IsFiniteSet(JsonNodes), NoNode \notin JsonNodes, NEW s, NEW first, NEW nxt, Chain(s, first, nxt)
  PROVE  Json!Reached(first, nxt) = s
<1> DEFINE def(f) == [i \in Json!Positions |->
              IF i = 1 THEN first ELSE IF f[i - 1] = NoNode THEN NoNode ELSE nxt[f[i - 1]]]
           at == CHOOSE f : f = def(f)
           g == [i \in Json!Positions |-> IF i <= Len(s) THEN s[i] ELSE NoNode]
<1>1. /\ s \in Seq(JsonNodes) /\ Len(s) \in Nat /\ Len(s) <= Cardinality(JsonNodes)
      /\ Cardinality(JsonNodes) \in Nat
  BY Fits DEF Chain
<1>2. g = def(g)
  <2> SUFFICES ASSUME NEW i \in Json!Positions
               PROVE  g[i] = def(g)[i]
    OBVIOUS
  <2>1. CASE i = 1
    BY <1>1, <2>1, PositionsCount DEF Chain
  <2>2. CASE i # 1
    <3>1. i - 1 \in Json!Positions /\ i \in Nat
      BY <1>1, <2>2, PositionsCount
    <3> QED BY <1>1, <2>2, <3>1, PositionsCount DEF Chain
  <2> QED BY <2>1, <2>2
<1>3. at = def(at)
  BY <1>2
<1> HIDE DEF at
<1>4. at = g
  <2> DEFINE T == {i \in Json!Positions : at[i] # g[i]}
  <2>1. T = {}
    <3> SUFFICES ASSUME T # {} PROVE FALSE
      OBVIOUS
    <3>1. PICK x \in T : \A y \in T : x <= y
      <4>1. T \in SUBSET Nat
        BY <1>1, PositionsCount
      <4> QED BY <4>1, Least
    <3>2. at[x] = def(at)[x] /\ g[x] = def(g)[x]
      BY <1>2, <1>3
    <3>3. CASE x = 1
      BY <3>1, <3>2, <3>3
    <3>4. CASE x # 1
      <4>1. x - 1 \in Json!Positions /\ x - 1 \notin T
        BY <1>1, <3>1, <3>4, PositionsCount
      <4> QED BY <3>1, <3>2, <3>4, <4>1
    <3> QED BY <3>3, <3>4
  <2>2. at = [i \in Json!Positions |-> at[i]]
    BY <1>3
  <2> QED BY <2>1, <2>2
<1>5. Json!Reached(first, nxt) = [i \in {j \in Json!Positions : at[j] # NoNode} |-> at[i]]
  BY ReachedIsChosen DEF at
<1>6. {j \in Json!Positions : at[j] # NoNode} = 1 .. Len(s)
  BY <1>1, <1>4, PositionsCount
<1>7. Json!Reached(first, nxt) = [i \in 1 .. Len(s) |-> s[i]]
  BY <1>1, <1>4, <1>5, <1>6, PositionsCount
<1> QED BY <1>1, <1>7

\* t is s without its k-th element, or with n behind its k-th.
Without(t, S, s, k) ==
  /\ t \in Seq(S) /\ Len(t) = Len(s) - 1
  /\ \A j \in 1 .. Len(s) - 1 : t[j] = s[IF j < k THEN j ELSE j + 1]

With(t, S, s, n, k) ==
  /\ t \in Seq(S) /\ Len(t) = Len(s) + 1
  /\ \A j \in 1 .. Len(s) + 1 :
       t[j] = IF j <= k THEN s[j] ELSE IF j = k + 1 THEN n ELSE s[j - 1]

LEMMA WithoutOne ==
  ASSUME NEW S, NEW s \in Seq(S), NEW k \in 1 .. Len(s)
  PROVE  Without(SubSeq(s, 1, k - 1) \o SubSeq(s, k + 1, Len(s)), S, s, k)
  <1> DEFINE u == SubSeq(s, 1, k - 1)
             v == SubSeq(s, k + 1, Len(s))
  <1>0. Len(s) \in Nat /\ \A i \in 1 .. Len(s) : s[i] \in S
    BY LenProperties, ElementOfSeq
  <1>1. /\ u \in Seq(S) /\ Len(u) = k - 1
        /\ \A i \in 1 .. k - 1 : u[i] = s[i]
    <2>1. \A i \in 1 .. k - 1 : s[i] \in S
      BY <1>0
    <2>2. /\ u \in Seq(S) /\ Len(u) = IF 1 <= k - 1 THEN (k - 1) - 1 + 1 ELSE 0
          /\ \A i \in 1 .. (k - 1) - 1 + 1 : u[i] = s[1 + i - 1]
      <3> k - 1 \in Int /\ 1 \in Int
        BY <1>0
      <3> QED BY <2>1, SubSeqProperties
    <2> QED BY <1>0, <2>2
  <1>2. /\ v \in Seq(S) /\ Len(v) = Len(s) - k
        /\ \A i \in 1 .. Len(s) - k : v[i] = s[k + i]
    <2>1. \A i \in k + 1 .. Len(s) : s[i] \in S
      BY <1>0
    <2>2. /\ v \in Seq(S)
          /\ Len(v) = IF k + 1 <= Len(s) THEN Len(s) - (k + 1) + 1 ELSE 0
          /\ \A i \in 1 .. Len(s) - (k + 1) + 1 : v[i] = s[k + 1 + i - 1]
      <3> k + 1 \in Int /\ Len(s) \in Int
        BY <1>0
      <3> QED BY <2>1, SubSeqProperties
    <2> QED BY <1>0, <2>2
  <1> HIDE DEF u, v
  <1>3. /\ u \o v \in Seq(S) /\ Len(u \o v) = Len(u) + Len(v)
        /\ \A i \in 1 .. Len(u) + Len(v) :
             (u \o v)[i] = IF i <= Len(u) THEN u[i] ELSE v[i - Len(u)]
    BY <1>1, <1>2, ConcatProperties
  <1>4. ASSUME NEW j \in 1 .. Len(s) - 1
        PROVE  (u \o v)[j] = s[IF j < k THEN j ELSE j + 1]
    <2>1. CASE j < k
      BY <1>0, <1>1, <1>2, <1>3, <2>1
    <2>2. CASE j >= k
      <3>1. (u \o v)[j] = v[j - (k - 1)]
        BY <1>0, <1>1, <1>2, <1>3, <2>2
      <3>2. j - (k - 1) \in 1 .. Len(s) - k /\ k + (j - (k - 1)) = j + 1
        BY <1>0, <2>2
      <3> QED BY <1>0, <1>2, <2>2, <3>1, <3>2
    <2>3. j < k \/ j >= k
      BY <1>0
    <2> QED BY <2>1, <2>2, <2>3, Zenon
  <1>5. Len(u) + Len(v) = Len(s) - 1
    BY <1>0, <1>1, <1>2
  <1> QED BY <1>3, <1>4, <1>5, Zenon DEF u, v, Without

LEMMA WithOne ==
  ASSUME NEW S, NEW s \in Seq(S), NEW n \in S, NEW k \in 0 .. Len(s)
  PROVE  With(SubSeq(s, 1, k) \o <<n>> \o SubSeq(s, k + 1, Len(s)), S, s, n, k)
<1> DEFINE u == SubSeq(s, 1, k)
           v == SubSeq(s, k + 1, Len(s))
           w == u \o <<n>>
<1>0. Len(s) \in Nat /\ \A i \in 1 .. Len(s) : s[i] \in S
  BY LenProperties, ElementOfSeq
<1>1. u \in Seq(S) /\ Len(u) = k /\ \A i \in 1 .. k : u[i] = s[i]
  <2>1. \A i \in 1 .. k : s[i] \in S
    BY <1>0
  <2>2. /\ u \in Seq(S) /\ Len(u) = IF 1 <= k THEN k - 1 + 1 ELSE 0
        /\ \A i \in 1 .. k - 1 + 1 : u[i] = s[1 + i - 1]
    <3> k \in Int /\ 1 \in Int
      BY <1>0
    <3> QED BY <2>1, SubSeqProperties
  <2> QED BY <1>0, <2>2
<1>2. /\ v \in Seq(S) /\ Len(v) = Len(s) - k
      /\ \A i \in 1 .. Len(s) - k : v[i] = s[k + i]
  <2>1. \A i \in k + 1 .. Len(s) : s[i] \in S
    BY <1>0
  <2>2. /\ v \in Seq(S)
        /\ Len(v) = IF k + 1 <= Len(s) THEN Len(s) - (k + 1) + 1 ELSE 0
        /\ \A i \in 1 .. Len(s) - (k + 1) + 1 : v[i] = s[k + 1 + i - 1]
    <3> k + 1 \in Int /\ Len(s) \in Int
      BY <1>0
    <3> QED BY <2>1, SubSeqProperties
  <2> QED BY <1>0, <2>2
<1> HIDE DEF u, v
<1>3. /\ w \in Seq(S) /\ Len(w) = k + 1 /\ w[k + 1] = n
      /\ \A i \in 1 .. k : w[i] = s[i]
  BY <1>0, <1>1
<1> HIDE DEF w
<1>4. /\ w \o v \in Seq(S) /\ Len(w \o v) = Len(w) + Len(v)
      /\ \A i \in 1 .. Len(w) + Len(v) :
           (w \o v)[i] = IF i <= Len(w) THEN w[i] ELSE v[i - Len(w)]
  BY <1>2, <1>3, ConcatProperties
<1>5. Len(w) + Len(v) = Len(s) + 1
  BY <1>0, <1>2, <1>3
<1>6. ASSUME NEW j \in 1 .. Len(s) + 1
      PROVE  (w \o v)[j] = IF j <= k THEN s[j] ELSE IF j = k + 1 THEN n ELSE s[j - 1]
  <2>1. CASE j <= k + 1
    BY <1>0, <1>3, <1>4, <1>5, <2>1
  <2>2. CASE j > k + 1
    <3>1. (w \o v)[j] = v[j - (k + 1)]
      BY <1>0, <1>3, <1>4, <1>5, <2>2
    <3>2. j - (k + 1) \in 1 .. Len(s) - k /\ k + (j - (k + 1)) = j - 1
      BY <1>0, <2>2
    <3>3. v[j - (k + 1)] = s[j - 1]
      BY <1>2, <3>2
    <3>4. ~ (j <= k) /\ j # k + 1
      BY <1>0, <2>2
    <3> QED BY <3>1, <3>3, <3>4
  <2>3. j <= k + 1 \/ j > k + 1
    BY <1>0
  <2> QED BY <2>1, <2>2, <2>3
<1> QED BY <1>4, <1>5, <1>6, Zenon DEF u, v, w, With

-----------------------------------------------------------------------------
\* An item n comes behind the k-th.
LEMMA ChainWith ==
  ASSUME NEW s, NEW first, NEW nxt, Chain(s, first, nxt), NEW n \in JsonNodes,
         NEW k \in 0 .. Len(s), \A i \in 1 .. Len(s) : s[i] # n,
         NEW t, With(t, JsonNodes, s, n, k),
         NEW nxt2,
         nxt2[n] = IF k < Len(s) THEN s[k + 1] ELSE NoNode,
         k > 0 => nxt2[s[k]] = n,
         \A i \in 1 .. Len(s) : i # k => nxt2[s[i]] = nxt[s[i]]
  PROVE  Chain(t, IF k = 0 THEN n ELSE first, nxt2)
<1>1. /\ t \in Seq(JsonNodes) /\ Len(t) = Len(s) + 1 /\ Len(s) \in Nat
      /\ \A j \in 1 .. Len(s) + 1 :
           t[j] = IF j <= k THEN s[j] ELSE IF j = k + 1 THEN n ELSE s[j - 1]
  BY DEF With, Chain
<1>2. \A i, j \in 1 .. Len(t) : t[i] = t[j] => i = j
  <2> SUFFICES ASSUME NEW i \in 1 .. Len(t), NEW j \in 1 .. Len(t), t[i] = t[j]
               PROVE  i = j
    OBVIOUS
  <2>1. CASE i = k + 1
    BY <1>1, <2>1 DEF Chain
  <2>2. CASE j = k + 1
    BY <1>1, <2>2 DEF Chain
  <2>3. CASE i # k + 1 /\ j # k + 1
    <3> DEFINE x == IF i <= k THEN i ELSE i - 1
               y == IF j <= k THEN j ELSE j - 1
    <3>1. x \in 1 .. Len(s) /\ y \in 1 .. Len(s) /\ s[x] = s[y]
      BY <1>1, <2>3
    <3>2. x = y
      <4> HIDE DEF x, y
      <4> QED BY <3>1 DEF Chain
    <3> QED BY <1>1, <2>3, <3>2
  <2> QED BY <2>1, <2>2, <2>3
<1>3. ASSUME NEW i \in 1 .. Len(t)
      PROVE  nxt2[t[i]] = IF i < Len(t) THEN t[i + 1] ELSE NoNode
  <2>1. CASE i < k
    BY <1>1, <2>1 DEF Chain
  <2>2. CASE i = k
    BY <1>1, <2>2 DEF Chain
  <2>3. CASE i = k + 1
    BY <1>1, <2>3 DEF Chain
  <2>4. CASE i > k + 1
    <3>1. t[i] = s[i - 1] /\ i - 1 \in 1 .. Len(s) /\ i - 1 # k
      BY <1>1, <2>4
    <3>2. i < Len(t) => t[i + 1] = s[i]
      BY <1>1, <2>4
    <3>3. nxt[s[i - 1]] = IF i - 1 < Len(s) THEN s[i] ELSE NoNode
      BY <1>1, <3>1 DEF Chain
    <3> QED BY <1>1, <3>1, <3>2, <3>3
  <2> QED BY <1>1, <2>1, <2>2, <2>3, <2>4
<1> QED BY <1>1, <1>2, <1>3 DEF Chain

LEMMA BackWith ==
  ASSUME NEW s \in Seq(JsonNodes), NEW prv, Back(s, prv), NEW n \in JsonNodes,
         NEW k \in 0 .. Len(s),
         NEW t, With(t, JsonNodes, s, n, k),
         NEW prv2,
         k > 0 => prv2[n] = s[k],
         k < Len(s) => prv2[s[k + 1]] = n,
         \A i \in 2 .. Len(s) : i # k + 1 => prv2[s[i]] = prv[s[i]]
  PROVE  Back(t, prv2)
<1>1. /\ Len(t) = Len(s) + 1 /\ Len(s) \in Nat
      /\ \A j \in 1 .. Len(s) + 1 :
           t[j] = IF j <= k THEN s[j] ELSE IF j = k + 1 THEN n ELSE s[j - 1]
  BY DEF With
<1> SUFFICES ASSUME NEW i \in 2 .. Len(t) PROVE prv2[t[i]] = t[i - 1]
  BY DEF Back
<1>2. CASE i <= k
  BY <1>1, <1>2 DEF Back
<1>3. CASE i = k + 1
  BY <1>1, <1>3
<1>4. CASE i = k + 2
  BY <1>1, <1>4
<1>5. CASE i > k + 2
  <2>1. t[i] = s[i - 1] /\ t[i - 1] = s[i - 2] /\ i - 1 \in 2 .. Len(s) /\ i - 1 # k + 1
    BY <1>1, <1>5
  <2>2. prv[s[i - 1]] = s[i - 2]
    BY <2>1 DEF Back
  <2> QED BY <2>1, <2>2
<1> QED BY <1>1, <1>2, <1>3, <1>4, <1>5

\* The k-th item goes.
LEMMA ChainWithout ==
  ASSUME NEW s, NEW first, NEW nxt, Chain(s, first, nxt), NEW k \in 1 .. Len(s),
         NEW t, Without(t, JsonNodes, s, k),
         NEW nxt2,
         k > 1 => nxt2[s[k - 1]] = nxt[s[k]],
         \A i \in 1 .. Len(s) : i # k /\ i # k - 1 => nxt2[s[i]] = nxt[s[i]]
  PROVE  Chain(t, IF k = 1 THEN nxt[s[k]] ELSE first, nxt2)
<1>1. /\ t \in Seq(JsonNodes) /\ Len(t) = Len(s) - 1 /\ Len(s) \in Nat
      /\ \A j \in 1 .. Len(s) - 1 : t[j] = s[IF j < k THEN j ELSE j + 1]
  BY DEF Without, Chain
<1>2. \A i, j \in 1 .. Len(t) : t[i] = t[j] => i = j
  <2> SUFFICES ASSUME NEW i \in 1 .. Len(t), NEW j \in 1 .. Len(t), t[i] = t[j]
               PROVE  i = j
    OBVIOUS
  <2> DEFINE at(x) == IF x < k THEN x ELSE x + 1
  <2>1. at(i) \in 1 .. Len(s) /\ at(j) \in 1 .. Len(s) /\ s[at(i)] = s[at(j)]
    BY <1>1
  <2>2. at(i) = at(j)
    <3> HIDE DEF at
    <3> QED BY <2>1 DEF Chain
  <2> QED BY <1>1, <2>2
<1>3. ASSUME NEW i \in 1 .. Len(t)
      PROVE  nxt2[t[i]] = IF i < Len(t) THEN t[i + 1] ELSE NoNode
  <2>1. nxt[s[k]] = IF k < Len(s) THEN s[k + 1] ELSE NoNode
    BY DEF Chain
  <2>2. CASE i < k - 1
    <3>1. t[i] = s[i] /\ t[i + 1] = s[i + 1] /\ nxt2[s[i]] = nxt[s[i]] /\ i < Len(t)
      <4>1. i \in 1 .. Len(s) /\ i # k /\ i # k - 1 /\ i < Len(t) /\ i + 1 < k
        BY <1>1, <2>2
      <4>2. i \in 1 .. Len(s) - 1 /\ i + 1 \in 1 .. Len(s) - 1
        BY <1>1, <2>2
      <4>3. t[i] = s[i]
        BY <1>1, <4>1, <4>2
      <4>4. t[i + 1] = s[i + 1]
        BY <1>1, <4>1, <4>2
      <4>5. nxt2[s[i]] = nxt[s[i]]
        BY <4>1
      <4> QED BY <4>1, <4>3, <4>4, <4>5
    <3> QED BY <1>1, <2>2, <3>1 DEF Chain
  <2>3. CASE i = k - 1
    BY <1>1, <2>1, <2>3
  <2>4. CASE i > k - 1
    <3>1. /\ t[i] = s[i + 1] /\ i + 1 \in 1 .. Len(s) /\ i + 1 # k /\ i + 1 # k - 1
          /\ i < Len(t) => t[i + 1] = s[i + 2]
      BY <1>1, <2>4
    <3>2. nxt[s[i + 1]] = IF i + 1 < Len(s) THEN s[i + 2] ELSE NoNode
      BY <1>1, <3>1 DEF Chain
    <3> QED BY <1>1, <3>1, <3>2
  <2> QED BY <1>1, <2>2, <2>3, <2>4
<1>4. (IF k = 1 THEN nxt[s[k]] ELSE first) = IF Len(t) = 0 THEN NoNode ELSE t[1]
  <2>1. nxt[s[k]] = IF k < Len(s) THEN s[k + 1] ELSE NoNode
    BY DEF Chain
  <2>2. first = s[1]
    BY <1>1 DEF Chain
  <2> QED BY <1>1, <2>1, <2>2
<1> QED BY <1>1, <1>2, <1>3, <1>4 DEF Chain

LEMMA BackWithout ==
  ASSUME NEW s \in Seq(JsonNodes), NEW prv, Back(s, prv), NEW k \in 1 .. Len(s),
         NEW t, Without(t, JsonNodes, s, k),
         NEW prv2,
         k < Len(s) => prv2[s[k + 1]] = prv[s[k]],
         \A i \in 2 .. Len(s) : i # k /\ i # k + 1 => prv2[s[i]] = prv[s[i]]
  PROVE  Back(t, prv2)
<1>1. /\ Len(t) = Len(s) - 1 /\ Len(s) \in Nat
      /\ \A j \in 1 .. Len(s) - 1 : t[j] = s[IF j < k THEN j ELSE j + 1]
  BY DEF Without
<1> SUFFICES ASSUME NEW i \in 2 .. Len(t) PROVE prv2[t[i]] = t[i - 1]
  BY DEF Back
<1>2. CASE i < k
  <2>1. /\ i \in 1 .. Len(s) - 1 /\ i \in 2 .. Len(s) /\ i # k /\ i # k + 1
        /\ i - 1 \in 1 .. Len(s) - 1 /\ i - 1 < k
    BY <1>1, <1>2
  <2>2. t[i] = s[i] /\ t[i - 1] = s[i - 1]
    BY <1>1, <1>2, <2>1
  <2>3. prv2[s[i]] = prv[s[i]] /\ prv[s[i]] = s[i - 1]
    BY <2>1 DEF Back
  <2> QED BY <2>2, <2>3
<1>3. CASE i = k
  <2>1. /\ k \in 1 .. Len(s) - 1 /\ k \in 2 .. Len(s) /\ k < Len(s) /\ ~ (k < k)
        /\ k - 1 \in 1 .. Len(s) - 1 /\ k - 1 < k
    BY <1>1, <1>3
  <2>2. t[k] = s[k + 1] /\ t[k - 1] = s[k - 1]
    BY <1>1, <2>1
  <2>3. prv2[s[k + 1]] = prv[s[k]] /\ prv[s[k]] = s[k - 1]
    BY <2>1 DEF Back
  <2> QED BY <1>3, <2>2, <2>3
<1>4. CASE i > k
  <2>1. t[i] = s[i + 1] /\ i + 1 \in 2 .. Len(s) /\ i + 1 # k + 1 /\ i + 1 # k
    <3>1. i \in 1 .. Len(s) - 1 /\ ~ (i < k) /\ i + 1 \in 2 .. Len(s)
      BY <1>1, <1>4
    <3>2. t[i] = s[i + 1]
      BY <1>1, <3>1
    <3>3. i + 1 # k + 1 /\ i + 1 # k
      BY <1>4, <3>1
    <3> QED BY <3>1, <3>2, <3>3
  <2>2. i - 1 \in 1 .. Len(s) - 1 /\ ~ (i - 1 < k) /\ (i - 1) + 1 = i
    BY <1>1, <1>4
  <2>3. t[i - 1] = s[i]
    BY <1>1, <2>2
  <2>4. prv[s[i + 1]] = s[i]
    BY <2>1 DEF Back
  <2> QED BY <2>1, <2>3, <2>4
<1> QED BY <1>1, <1>2, <1>3, <1>4

\* The k-th item is another.
LEMMA ChainOther ==
  ASSUME NEW s, NEW first, NEW nxt, Chain(s, first, nxt), NEW k \in 1 .. Len(s),
         NEW n \in JsonNodes, \A i \in 1 .. Len(s) : s[i] # n,
         NEW nxt2,
         nxt2[n] = nxt[s[k]],
         k > 1 => nxt2[s[k - 1]] = n,
         \A i \in 1 .. Len(s) : i # k /\ i # k - 1 => nxt2[s[i]] = nxt[s[i]]
  PROVE  Chain([s EXCEPT ![k] = n], IF k = 1 THEN n ELSE first, nxt2)
<1> DEFINE t == [s EXCEPT ![k] = n]
<1>1. /\ t \in Seq(JsonNodes) /\ Len(t) = Len(s) /\ Len(s) \in Nat
      /\ \A j \in 1 .. Len(s) : t[j] = IF j = k THEN n ELSE s[j]
  BY DEF Chain
<1> HIDE DEF t
<1>2. \A i, j \in 1 .. Len(t) : t[i] = t[j] => i = j
  BY <1>1 DEF Chain
<1>3. ASSUME NEW i \in 1 .. Len(t)
      PROVE  nxt2[t[i]] = IF i < Len(t) THEN t[i + 1] ELSE NoNode
  BY <1>1 DEF Chain
<1>4. (IF k = 1 THEN n ELSE first) = IF Len(t) = 0 THEN NoNode ELSE t[1]
  BY <1>1 DEF Chain
<1>5. Chain(t, IF k = 1 THEN n ELSE first, nxt2)
  BY <1>1, <1>2, <1>3, <1>4 DEF Chain
<1> QED BY <1>5 DEF t

LEMMA BackOther ==
  ASSUME NEW s \in Seq(JsonNodes), NEW prv, Back(s, prv), NEW k \in 1 .. Len(s), NEW n \in JsonNodes,
         NEW prv2,
         k > 1 => prv2[n] = prv[s[k]],
         k < Len(s) => prv2[s[k + 1]] = n,
         \A i \in 2 .. Len(s) : i # k /\ i # k + 1 => prv2[s[i]] = prv[s[i]]
  PROVE  Back([s EXCEPT ![k] = n], prv2)
<1> DEFINE t == [s EXCEPT ![k] = n]
<1>1. /\ Len(t) = Len(s) /\ Len(s) \in Nat
      /\ \A j \in 1 .. Len(s) : t[j] = IF j = k THEN n ELSE s[j]
  OBVIOUS
<1> HIDE DEF t
<1>2. ASSUME NEW i \in 2 .. Len(t) PROVE prv2[t[i]] = t[i - 1]
  BY <1>1 DEF Back
<1>3. Back(t, prv2)
  BY <1>2 DEF Back
<1> QED BY <1>3 DEF t

-----------------------------------------------------------------------------
\* What a step must leave behind, and what it then has done to the list.
LEMMA Rebuilt ==
  ASSUME NEW t, ItemTypes', Chain(t, child', sibling'), Back(t, prev'),
         \A i \in 1 .. Len(t) : t[i] \notin loose',
         \A n \in JsonNodes : (\A i \in 1 .. Len(t) : t[i] # n) => sibling'[n] = NoNode
  PROVE  ItemsInv' /\ Json!Walk' = t
<1>1. Json!Walk' = t
  BY WalkIsChain, JsonAssumption DEF Json!Walk
<1>2. Json!Listed' = {t[i] : i \in 1 .. Len(t)}
  <2>1. DOMAIN t = 1 .. Len(t)
    BY DEF Chain
  <2> QED BY <1>1, <2>1 DEF Json!Listed
<1> QED BY <1>1, <1>2 DEF ItemsInv

LEMMA ItemsStart == ASSUME Json!Init PROVE ItemsInv /\ Json!Walk = <<>>
<1>1. Chain(<<>>, child, sibling)
  BY DEF Json!Init, Chain
<1>2. Json!Walk = <<>>
  BY <1>1, WalkIsChain, JsonAssumption DEF Json!Walk
<1> QED BY <1>1, <1>2 DEF Json!Init, ItemsInv, ItemTypes, Back, Json!Listed

\* What is in the list.
LEMMA Items ==
  ASSUME ItemsInv
  PROVE  /\ Json!Walk \in Seq(JsonNodes) /\ Len(Json!Walk) \in Nat /\ DOMAIN Json!Walk = 1 .. Len(Json!Walk)
         /\ \A i \in 1 .. Len(Json!Walk) : Json!Walk[i] \in JsonNodes /\ Json!Walk[i] \notin loose
         /\ \A i, j \in 1 .. Len(Json!Walk) : Json!Walk[i] = Json!Walk[j] => i = j
         /\ \A n : n \in Json!Listed <=> \E i \in 1 .. Len(Json!Walk) : n = Json!Walk[i]
         /\ child = IF Len(Json!Walk) = 0 THEN NoNode ELSE Json!Walk[1]
         /\ child = NoNode <=> Len(Json!Walk) = 0
         /\ \A i \in 1 .. Len(Json!Walk) :
              sibling[Json!Walk[i]] = IF i < Len(Json!Walk) THEN Json!Walk[i + 1] ELSE NoNode
         /\ \A i \in 2 .. Len(Json!Walk) : prev[Json!Walk[i]] = Json!Walk[i - 1]
         /\ \A n \in JsonNodes : n \notin Json!Listed => sibling[n] = NoNode
  BY JsonAssumption DEF ItemsInv, Chain, Back, Json!Listed

\* Calls that leave the list alone.
LEMMA CreateStep ==
  ASSUME ItemsInv, NEW n \in JsonNodes, Json!Create(n)
  PROVE  ItemsInv' /\ Json!List!Make(n) /\ Cached
<1> USE JsonAssumption
<1>1. /\ n \notin loose /\ n \notin Json!Listed /\ loose' = loose \cup {n} /\ child' = child
      /\ sibling' = [sibling EXCEPT ![n] = NoNode] /\ prev' = [prev EXCEPT ![n] = NoNode]
  BY DEF Json!Create, Json!New
<1>2. \A i \in 1 .. Len(Json!Walk) : Json!Walk[i] # n
  BY <1>1, Items
<1>3. ItemTypes'
  BY <1>1 DEF ItemsInv, ItemTypes
<1>4. Chain(Json!Walk, child', sibling') /\ Back(Json!Walk, prev')
  <2>1. \A i \in 1 .. Len(Json!Walk) : /\ sibling'[Json!Walk[i]] = sibling[Json!Walk[i]]
                                 /\ prev'[Json!Walk[i]] = prev[Json!Walk[i]]
    BY <1>1, <1>2, Items DEF ItemsInv, ItemTypes
  <2>2. Chain(Json!Walk, child, sibling) /\ Back(Json!Walk, prev) /\ Len(Json!Walk) \in Nat
    BY Items DEF ItemsInv
  <2>3. \A i \in 2 .. Len(Json!Walk) : i \in 1 .. Len(Json!Walk)
    BY <2>2
  <2> QED BY <1>1, <2>1, <2>2, <2>3 DEF Chain, Back
<1>5. /\ \A i \in 1 .. Len(Json!Walk) : Json!Walk[i] \notin loose'
      /\ \A m \in JsonNodes : (\A i \in 1 .. Len(Json!Walk) : Json!Walk[i] # m) => sibling'[m] = NoNode
  BY <1>1, <1>2, Items DEF ItemsInv, ItemTypes
<1>6. ItemsInv' /\ Json!Walk' = Json!Walk
  BY <1>3, <1>4, <1>5, Rebuilt
<1>7. Cached
  BY <1>1, <1>2, <1>6, Items DEF Cached, Json!PrevOfFirstIsLast, Json!Last, ItemsInv, ItemTypes, Chain
<1> QED BY <1>1, <1>6, <1>7 DEF Json!List!Make, Json!List!Held, Json!Listed

LEMMA FreeStep ==
  ASSUME ItemsInv, NEW n \in JsonNodes, Json!DeleteItem(n)
  PROVE  ItemsInv' /\ Json!List!Free(n) /\ Cached
<1>1. n \in loose /\ loose' = loose \ {n} /\ UNCHANGED <<child, sibling, prev>>
  BY DEF Json!DeleteItem
<1>2. Json!Walk' = Json!Walk /\ Json!Listed' = Json!Listed
  BY <1>1 DEF Json!Walk, Json!Listed
<1> QED BY <1>1, <1>2 DEF ItemsInv, ItemTypes, Json!List!Free, Cached, Json!PrevOfFirstIsLast, Json!Last

\* An item n comes behind the k-th, whatever becomes of the prev of the first.
LEMMA Grown ==
  ASSUME ItemsInv, NEW n \in JsonNodes, n \notin Json!Listed, NEW k \in 0 .. Len(Json!Walk),
         ItemTypes', loose' = loose \ {n},
         child' = IF k = 0 THEN n ELSE child,
         sibling'[n] = IF k < Len(Json!Walk) THEN Json!Walk[k + 1] ELSE NoNode,
         k > 0 => sibling'[Json!Walk[k]] = n,
         \A m \in JsonNodes : m # n /\ (k > 0 => m # Json!Walk[k]) => sibling'[m] = sibling[m],
         k > 0 => prev'[n] = Json!Walk[k],
         k < Len(Json!Walk) => prev'[Json!Walk[k + 1]] = n,
         \A m \in JsonNodes : m # n /\ m # child /\ (k < Len(Json!Walk) => m # Json!Walk[k + 1])
                            => prev'[m] = prev[m]
  PROVE  /\ ItemsInv' /\ Json!List!Insert(k, n)
         /\ Json!Last' = IF k = Len(Json!Walk) THEN n ELSE Json!Last
<1> DEFINE t == SubSeq(Json!Walk, 1, k) \o <<n>> \o SubSeq(Json!Walk, k + 1, Len(Json!Walk))
<1>0. /\ Json!Walk \in Seq(JsonNodes) /\ Len(Json!Walk) \in Nat /\ k \in Nat /\ k <= Len(Json!Walk)
      /\ \A i \in 1 .. Len(Json!Walk) : Json!Walk[i] \in JsonNodes /\ Json!Walk[i] # n
      /\ Chain(Json!Walk, child, sibling) /\ Back(Json!Walk, prev)
  BY Items DEF ItemsInv
<1>1. With(t, JsonNodes, Json!Walk, n, k)
  BY <1>0, WithOne
<1> HIDE DEF t
<1>2. Chain(t, child', sibling')
  <2>1. \A i \in 1 .. Len(Json!Walk) : i # k => sibling'[Json!Walk[i]] = sibling[Json!Walk[i]]
    BY <1>0, Items
  <2> QED BY <1>0, <1>1, <2>1, ChainWith
<1>3. Back(t, prev')
  <2>1. \A i \in 2 .. Len(Json!Walk) : i # k + 1 => prev'[Json!Walk[i]] = prev[Json!Walk[i]]
    BY <1>0, Items
  <2> QED BY <1>0, <1>1, <2>1, BackWith
<1>4. /\ Len(t) = Len(Json!Walk) + 1
      /\ \A i \in 1 .. Len(t) :
           t[i] = IF i <= k THEN Json!Walk[i] ELSE IF i = k + 1 THEN n ELSE Json!Walk[i - 1]
  BY <1>1 DEF With
<1>5. \A i \in 1 .. Len(t) : t[i] \notin loose'
  <2> SUFFICES ASSUME NEW i \in 1 .. Len(t) PROVE t[i] \notin loose'
    OBVIOUS
  <2>1. t[i] = n \/ \E j \in 1 .. Len(Json!Walk) : t[i] = Json!Walk[j]
    BY <1>0, <1>4
  <2> QED BY <2>1, Items
<1>6. ASSUME NEW m \in JsonNodes, \A i \in 1 .. Len(t) : t[i] # m
      PROVE  sibling'[m] = NoNode
  <2>1. m # n
    BY <1>0, <1>4, <1>6
  <2>2. ASSUME NEW j \in 1 .. Len(Json!Walk) PROVE Json!Walk[j] # m
    <3>1. CASE j <= k
      BY <1>0, <1>4, <1>6, <3>1
    <3>2. CASE j > k
      <4>1. j + 1 \in 1 .. Len(t) /\ ~ (j + 1 <= k) /\ j + 1 # k + 1 /\ (j + 1) - 1 = j
        BY <1>0, <1>4, <3>2
      <4>2. t[j + 1] = Json!Walk[(j + 1) - 1]
        BY <1>4, <4>1
      <4> QED BY <1>6, <4>1, <4>2
    <3> QED BY <1>0, <3>1, <3>2
  <2>3. m \notin Json!Listed
    BY <2>2, Items
  <2> QED BY <1>0, <2>1, <2>2, <2>3, Items
<1>7. ItemsInv' /\ Json!Walk' = t
  BY <1>2, <1>3, <1>5, <1>6, Rebuilt
<1>8. Json!List!Insert(k, n)
  BY <1>7 DEF Json!List!Insert, Json!List!Held, Json!Listed, t
<1>9. Json!Last' = IF k = Len(Json!Walk) THEN n ELSE Json!Last
  <2>1. Len(t) = Len(Json!Walk) + 1 /\ Len(t) \in 1 .. Len(t)
    BY <1>0, <1>4
  <2>2. t[Len(t)] = IF k = Len(Json!Walk) THEN n ELSE Json!Walk[Len(Json!Walk)]
    BY <1>0, <1>4, <2>1
  <2> QED BY <1>7, <2>2 DEF Json!Last
<1> QED BY <1>7, <1>8, <1>9

LEMMA LinkStep ==
  ASSUME ItemsInv, NEW n \in JsonNodes, n \notin Json!Listed, Json!Link(n),
         loose' = loose \ {n}
  PROVE  ItemsInv' /\ Json!List!Insert(Len(Json!Walk), n) /\ Cached
<1>0. /\ Len(Json!Walk) \in Nat /\ Len(Json!Walk) \in 0 .. Len(Json!Walk)
      /\ ItemTypes
      /\ child = NoNode <=> Len(Json!Walk) = 0
  BY Items DEF ItemsInv
<1>1. CASE child = NoNode
  <2>1. /\ child' = n /\ prev' = [prev EXCEPT ![n] = n] /\ sibling' = [sibling EXCEPT ![n] = NoNode]
        /\ Len(Json!Walk) = 0
    BY <1>0, <1>1 DEF Json!Link
  <2>2. ItemTypes'
    BY <1>0, <2>1 DEF ItemTypes
  <2>3. /\ sibling'[n] = NoNode /\ prev'[n] = n
        /\ \A m \in JsonNodes : m # n => sibling'[m] = sibling[m] /\ prev'[m] = prev[m]
    BY <1>0, <2>1 DEF ItemTypes
  <2>4. ItemsInv' /\ Json!List!Insert(Len(Json!Walk), n) /\ Json!Last' = n
    BY <1>0, <2>1, <2>2, <2>3, Grown
  <2> QED BY <2>1, <2>3, <2>4 DEF Cached, Json!PrevOfFirstIsLast
<1>2. CASE child # NoNode
  <2>1. Len(Json!Walk) > 0 /\ Json!Last = Json!Walk[Len(Json!Walk)] /\ Json!Last \in JsonNodes /\ child \in JsonNodes
        /\ Json!Last # n /\ child # n
    BY <1>0, <1>2, Items DEF Json!Last
  <2>2. Json!Behind = Json!Last
    BY <1>2 DEF Json!Link, Json!PrevOfFirstIsLast, Json!Behind
  <2>3. /\ sibling' = [sibling EXCEPT ![Json!Last] = n] /\ child' = child
        /\ prev' = [prev EXCEPT ![n] = Json!Last, ![child] = n]
    BY <1>2, <2>2 DEF Json!Link
  <2>4. ItemTypes'
    BY <1>0, <2>1, <2>3 DEF ItemTypes
  <2>5. /\ sibling'[n] = NoNode /\ sibling'[Json!Last] = n /\ prev'[n] = Json!Last /\ prev'[child] = n
        /\ \A m \in JsonNodes : m # Json!Last => sibling'[m] = sibling[m]
        /\ \A m \in JsonNodes : m # n /\ m # child => prev'[m] = prev[m]
    BY <1>0, <2>1, <2>3, Items DEF ItemTypes
  <2>6. PICK k \in 0 .. Len(Json!Walk) : k = Len(Json!Walk) /\ k > 0 /\ ~ (k < Len(Json!Walk))
    BY <1>0, <2>1
  <2>7. /\ child' = IF k = 0 THEN n ELSE child
        /\ sibling'[n] = IF k < Len(Json!Walk) THEN Json!Walk[k + 1] ELSE NoNode
        /\ k > 0 => sibling'[Json!Walk[k]] = n
        /\ \A m \in JsonNodes : m # n /\ (k > 0 => m # Json!Walk[k]) => sibling'[m] = sibling[m]
        /\ k > 0 => prev'[n] = Json!Walk[k]
        /\ k < Len(Json!Walk) => prev'[Json!Walk[k + 1]] = n
        /\ \A m \in JsonNodes : m # n /\ m # child /\ (k < Len(Json!Walk) => m # Json!Walk[k + 1])
                           => prev'[m] = prev[m]
    BY <2>1, <2>3, <2>5, <2>6
  <2>8. ItemsInv' /\ Json!List!Insert(k, n) /\ Json!Last' = IF k = Len(Json!Walk) THEN n ELSE Json!Last
    BY <2>4, <2>7, Grown
  <2> QED BY <2>3, <2>5, <2>6, <2>8 DEF Cached, Json!PrevOfFirstIsLast
<1> QED BY <1>1, <1>2

LEMMA InsertStep ==
  ASSUME ItemsInv, NEW n \in JsonNodes, NEW i \in Json!Positions,
         Json!InsertInArray(i, n)
  PROVE  ItemsInv' /\ (\E k \in 0 .. Len(Json!Walk) : Json!List!Insert(k, n)) /\ Cached
<1>0. /\ Len(Json!Walk) \in Nat /\ i \in Nat /\ i >= 1 /\ ItemTypes
      /\ n \notin Json!Listed /\ loose' = loose \ {n}
  BY Items DEF ItemsInv, Json!InsertInArray, Json!AddToArray, Json!Positions
<1>1. CASE i > Len(Json!Walk)
  <2>1. Json!Link(n)
    BY <1>1 DEF Json!InsertInArray, Json!AddToArray
  <2> QED BY <1>0, <2>1, LinkStep
<1>2. CASE i <= Len(Json!Walk)
  <2> DEFINE after == Json!Walk[i]
             k == i - 1
  <2>1. /\ prev' = [prev EXCEPT ![n] = prev[after], ![after] = n]
        /\ after = child => child' = n /\ sibling' = [sibling EXCEPT ![n] = after]
        /\ after # child => /\ sibling' = [sibling EXCEPT ![n] = after, ![prev[after]] = n]
                            /\ child' = child
    BY <1>0, <1>2 DEF Json!InsertInArray
  <2>2. /\ k \in 0 .. Len(Json!Walk) /\ k < Len(Json!Walk) /\ Json!Walk[k + 1] = after /\ after \in JsonNodes
        /\ after # n /\ child \in JsonNodes /\ child # n
        /\ after = child <=> k = 0
        /\ k > 0 => prev[after] = Json!Walk[k] /\ Json!Walk[k] \in JsonNodes /\ Json!Walk[k] # n
    BY <1>0, <1>2, Items
  <2> HIDE DEF after, k
  <2>3. /\ ItemTypes'
        /\ child' = IF k = 0 THEN n ELSE child
    BY <1>0, <2>1, <2>2 DEF ItemTypes
  <2>4. /\ sibling'[n] = after
        /\ k > 0 => sibling'[Json!Walk[k]] = n
        /\ \A m \in JsonNodes : m # n /\ (k > 0 => m # Json!Walk[k]) => sibling'[m] = sibling[m]
    BY <1>0, <2>1, <2>2 DEF ItemTypes
  <2>5. /\ prev'[n] = prev[after] /\ prev'[after] = n
        /\ \A m \in JsonNodes : m # n /\ m # after => prev'[m] = prev[m]
    BY <1>0, <2>1, <2>2 DEF ItemTypes
  <2>6. ItemsInv' /\ Json!List!Insert(k, n) /\ Json!Last' = Json!Last
    BY <1>0, <2>2, <2>3, <2>4, <2>5, Grown
  <2>7. Cached
    <3>1. prev'[child'] = prev[child]
      BY <2>2, <2>3, <2>5
    <3>2. child # NoNode /\ child' # NoNode
      BY <2>2, <2>3, JsonAssumption
    <3> QED BY <2>6, <3>1, <3>2 DEF Cached, Json!PrevOfFirstIsLast
  <2> QED BY <2>2, <2>6, <2>7
<1> QED BY <1>0, <1>1, <1>2

LEMMA UnlinkStep ==
  ASSUME ItemsInv, NEW k \in 1 .. Len(Json!Walk), Json!Unlink(Json!Walk[k]),
         loose' \in {loose, loose \cup {Json!Walk[k]}}
  PROVE  ItemsInv' /\ Json!List!Remove(k) /\ Cached
<1> DEFINE n == Json!Walk[k]
           t == SubSeq(Json!Walk, 1, k - 1) \o SubSeq(Json!Walk, k + 1, Len(Json!Walk))
<1>0. /\ Json!Walk \in Seq(JsonNodes) /\ Len(Json!Walk) \in Nat /\ k \in Nat /\ n \in JsonNodes
      /\ ItemTypes
      /\ Chain(Json!Walk, child, sibling) /\ Back(Json!Walk, prev)
      /\ \A i \in 1 .. Len(Json!Walk) : Json!Walk[i] \in JsonNodes /\ (i # k => Json!Walk[i] # n)
      /\ child = Json!Walk[1]
      /\ n = child <=> k = 1
      /\ k > 1 => prev[n] = Json!Walk[k - 1]
      /\ sibling[n] = IF k < Len(Json!Walk) THEN Json!Walk[k + 1] ELSE NoNode
      /\ NoNode \notin JsonNodes
  BY Items, JsonAssumption DEF ItemsInv
<1>1. /\ child' = IF n = child THEN sibling[n] ELSE child
      /\ sibling' = IF n = child THEN [sibling EXCEPT ![n] = NoNode]
                 ELSE [sibling EXCEPT ![prev[n]] = sibling[n], ![n] = NoNode]
      /\ prev' = IF sibling[n] = NoNode THEN [prev EXCEPT ![n] = NoNode]
                 ELSE [prev EXCEPT ![sibling[n]] = prev[n], ![n] = NoNode]
      /\ loose' = loose \/ loose' = loose \cup {n}
  BY DEF Json!Unlink
<1>2. Without(t, JsonNodes, Json!Walk, k)
  BY <1>0, WithoutOne
<1> HIDE DEF n, t
<1>3. /\ ItemTypes'
      /\ sibling'[n] = NoNode
      /\ k > 1 => sibling'[Json!Walk[k - 1]] = sibling[n]
      /\ \A m \in JsonNodes : m # n /\ (k > 1 => m # Json!Walk[k - 1]) => sibling'[m] = sibling[m]
  <2>1. CASE k = 1
    BY <1>0, <1>1, <2>1 DEF ItemTypes
  <2>2. CASE k > 1
    <3>1. Json!Walk[k - 1] \in JsonNodes /\ Json!Walk[k - 1] # n
      BY <1>0, <2>2
    <3> QED BY <1>0, <1>1, <2>2, <3>1 DEF ItemTypes
  <2> QED BY <1>0, <2>1, <2>2
<1>4. /\ k < Len(Json!Walk) => prev'[Json!Walk[k + 1]] = prev[n]
      /\ \A m \in JsonNodes : m # n /\ (k < Len(Json!Walk) => m # Json!Walk[k + 1]) => prev'[m] = prev[m]
  <2>1. CASE k < Len(Json!Walk)
    <3>1. Json!Walk[k + 1] \in JsonNodes /\ Json!Walk[k + 1] # n /\ sibling[n] # NoNode
      BY <1>0, <2>1
    <3> QED BY <1>0, <1>1, <2>1, <3>1 DEF ItemTypes
  <2>2. CASE ~ (k < Len(Json!Walk))
    BY <1>0, <1>1, <2>2 DEF ItemTypes
  <2> QED BY <2>1, <2>2
<1>5. Chain(t, child', sibling')
  <2>1. \A i \in 1 .. Len(Json!Walk) : i # k /\ i # k - 1 => sibling'[Json!Walk[i]] = sibling[Json!Walk[i]]
    <3> SUFFICES ASSUME NEW i \in 1 .. Len(Json!Walk), i # k, i # k - 1
                 PROVE  sibling'[Json!Walk[i]] = sibling[Json!Walk[i]]
      OBVIOUS
    <3>1. Json!Walk[i] \in JsonNodes /\ Json!Walk[i] # n
      BY <1>0
    <3>2. k > 1 => Json!Walk[i] # Json!Walk[k - 1]
      BY <1>0, Items
    <3> QED BY <1>3, <3>1, <3>2
  <2>2. child' = IF k = 1 THEN sibling[Json!Walk[k]] ELSE child
    BY <1>0, <1>1 DEF n
  <2> QED BY <1>0, <1>2, <1>3, <2>1, <2>2, ChainWithout DEF n
<1>6. Back(t, prev')
  <2>1. \A i \in 2 .. Len(Json!Walk) : i # k /\ i # k + 1 => prev'[Json!Walk[i]] = prev[Json!Walk[i]]
    <3> SUFFICES ASSUME NEW i \in 2 .. Len(Json!Walk), i # k, i # k + 1
                 PROVE  prev'[Json!Walk[i]] = prev[Json!Walk[i]]
      OBVIOUS
    <3>1. i \in 1 .. Len(Json!Walk) /\ Json!Walk[i] \in JsonNodes /\ Json!Walk[i] # n
      BY <1>0
    <3>2. k < Len(Json!Walk) => Json!Walk[i] # Json!Walk[k + 1]
      BY <1>0, <3>1, Items
    <3> QED BY <1>4, <3>1, <3>2
  <2> QED BY <1>0, <1>2, <1>4, <2>1, BackWithout DEF n
<1>7. /\ Len(t) = Len(Json!Walk) - 1
      /\ \A i \in 1 .. Len(Json!Walk) - 1 : t[i] = Json!Walk[IF i < k THEN i ELSE i + 1]
  BY <1>2 DEF Without
<1>8. \A i \in 1 .. Len(t) : t[i] \notin loose' /\ t[i] # n
  <2> SUFFICES ASSUME NEW i \in 1 .. Len(t) PROVE t[i] \notin loose' /\ t[i] # n
    OBVIOUS
  <2>1. PICK j \in 1 .. Len(Json!Walk) : t[i] = Json!Walk[j] /\ j # k
    <3>1. i \in 1 .. Len(Json!Walk) - 1 /\ i \in 1 .. Len(Json!Walk) /\ i + 1 \in 1 .. Len(Json!Walk)
      BY <1>0, <1>7
    <3>2. CASE i < k
      BY <1>0, <1>7, <3>1, <3>2
    <3>3. CASE ~(i < k)
      <4>1. t[i] = Json!Walk[i + 1] /\ i + 1 # k
        BY <1>0, <1>7, <3>1, <3>3
      <4> QED BY <3>1, <4>1
    <3> QED BY <3>2, <3>3
  <2> QED BY <1>0, <1>1, <2>1, Items
<1>9. ASSUME NEW m \in JsonNodes, \A i \in 1 .. Len(t) : t[i] # m
      PROVE  sibling'[m] = NoNode
  <2>1. CASE m = n
    BY <1>3, <2>1
  <2>2. CASE m # n
    <3>1. ASSUME NEW j \in 1 .. Len(Json!Walk) PROVE Json!Walk[j] # m
      <4>1. CASE j < k
        BY <1>0, <1>7, <1>9, <4>1
      <4>2. CASE j = k
        BY <2>2, <4>2 DEF n
      <4>3. CASE j > k
        <5>1. j - 1 \in 1 .. Len(t) /\ ~ (j - 1 < k) /\ (j - 1) + 1 = j
          BY <1>0, <1>7, <4>3
        <5>2. t[j - 1] = Json!Walk[(j - 1) + 1]
          BY <1>7, <5>1
        <5> QED BY <1>9, <5>1, <5>2
      <4> QED BY <1>0, <4>1, <4>2, <4>3
    <3>2. sibling[m] = NoNode
      BY <3>1, Items
    <3>3. k > 1 => m # Json!Walk[k - 1]
      BY <1>0, <3>1
    <3> QED BY <1>3, <2>2, <3>2, <3>3
  <2> QED BY <2>1, <2>2
<1>10. ItemsInv' /\ Json!Walk' = t
  BY <1>3, <1>5, <1>6, <1>8, <1>9, Rebuilt
<1>11. Json!List!Remove(k)
  BY <1>1, <1>10 DEF Json!List!Remove, t, n
<1>12. Cached
  <2>1. CASE k = Len(Json!Walk)
    <3>1. \A i \in 1 .. Len(t) : t[i] # Json!Last
      BY <1>8, <2>1 DEF n, Json!Last
    <3>2. DOMAIN t = 1 .. Len(t)
      BY <1>2 DEF Without
    <3>3. Json!Last \notin Json!Listed'
      BY <1>10, <3>1, <3>2 DEF Json!Listed
    <3> QED BY <3>3 DEF Cached
  <2>2. CASE k < Len(Json!Walk)
    <3>1. Json!Last' = Json!Last
      <4>1. /\ Len(t) \in 1 .. Len(Json!Walk) - 1 /\ ~ (Len(t) < k) /\ Len(t) + 1 = Len(Json!Walk)
        BY <1>0, <1>7, <2>2
      <4>2. t[Len(t)] = Json!Walk[Len(Json!Walk)]
        BY <1>7, <4>1
      <4> QED BY <1>10, <4>2 DEF Json!Last
    <3>2. prev'[child'] = prev[child]
      <4>1. CASE k = 1
        BY <1>0, <1>1, <1>4, <2>2, <4>1
      <4>2. CASE k > 1
        <5>1. Json!Walk[1] \in JsonNodes /\ Json!Walk[1] # n /\ Json!Walk[1] # Json!Walk[k + 1]
          BY <1>0, <2>2, <4>2, Items
        <5> QED BY <1>0, <1>1, <1>4, <4>2, <5>1
      <4> QED BY <1>0, <4>1, <4>2
    <3>3. child # NoNode
      BY <1>0
    <3> QED BY <3>1, <3>2, <3>3 DEF Cached, Json!PrevOfFirstIsLast
  <2> QED BY <1>0, <2>1, <2>2
<1> QED BY <1>10, <1>11, <1>12

LEMMA SupplantStep ==
  ASSUME ItemsInv, NEW k \in 1 .. Len(Json!Walk), NEW n \in JsonNodes, Json!Supplant(Json!Walk[k], n)
  PROVE  ItemsInv' /\ Json!List!Replace(k, n) /\ Cached
<1> DEFINE old == Json!Walk[k]
           t == [Json!Walk EXCEPT ![k] = n]
<1>0. /\ Json!Walk \in Seq(JsonNodes) /\ Len(Json!Walk) \in Nat /\ k \in Nat /\ old \in JsonNodes
      /\ ItemTypes
      /\ Chain(Json!Walk, child, sibling) /\ Back(Json!Walk, prev)
      /\ \A i \in 1 .. Len(Json!Walk) : Json!Walk[i] \in JsonNodes /\ Json!Walk[i] # n /\ (i # k => Json!Walk[i] # old)
      /\ child = Json!Walk[1]
      /\ old = child <=> k = 1
      /\ k > 1 => prev[old] = Json!Walk[k - 1]
      /\ sibling[old] = IF k < Len(Json!Walk) THEN Json!Walk[k + 1] ELSE NoNode
      /\ NoNode \notin JsonNodes
  BY Items, JsonAssumption DEF ItemsInv, Json!Supplant
<1>1. /\ n \in loose /\ loose' = loose \ {n} /\ n # old
      /\ child' = IF child = old THEN n ELSE child
      /\ sibling' = [m \in JsonNodes |-> CASE m = n -> sibling[old]
                                    [] m = old -> NoNode
                                    [] child # old /\ prev[old] = m -> n
                                    [] OTHER -> sibling[m]]
      /\ prev' = [m \in JsonNodes |-> CASE m = n -> prev[old]
                                    [] m = old -> NoNode
                                    [] sibling[old] = m -> n
                                    [] OTHER -> prev[m]]
  BY <1>0 DEF Json!Supplant
<1> HIDE DEF old
<1>2. /\ ItemTypes'
      /\ sibling'[n] = sibling[old] /\ sibling'[old] = NoNode
      /\ k > 1 => sibling'[Json!Walk[k - 1]] = n
      /\ \A m \in JsonNodes : m # n /\ m # old /\ (k > 1 => m # Json!Walk[k - 1]) => sibling'[m] = sibling[m]
  <2>0. k > 1 => Json!Walk[k - 1] \in JsonNodes /\ Json!Walk[k - 1] # n /\ Json!Walk[k - 1] # old
    BY <1>0
  <2>1. /\ sibling'[n] = sibling[old] /\ sibling'[old] = NoNode
        /\ k > 1 => sibling'[Json!Walk[k - 1]] = n
    BY <1>0, <1>1, <2>0
  <2>2. \A m \in JsonNodes : m # n /\ m # old /\ (k > 1 => m # Json!Walk[k - 1]) => sibling'[m] = sibling[m]
    BY <1>0, <1>1
  <2>3. sibling' \in [JsonNodes -> JsonNodes \cup {NoNode}]
    <3>1. \A m \in JsonNodes : sibling'[m] \in JsonNodes \cup {NoNode}
      BY <1>0, <2>0, <2>1, <2>2 DEF ItemTypes
    <3>2. sibling' = [m \in JsonNodes |-> sibling'[m]]
      BY <1>1
    <3> QED BY <3>1, <3>2
  <2>4. prev' \in [JsonNodes -> JsonNodes \cup {NoNode}]
    <3>1. ASSUME NEW m \in JsonNodes PROVE prev'[m] \in JsonNodes \cup {NoNode}
      <4>1. CASE m = n
        BY <1>0, <1>1, <4>1 DEF ItemTypes
      <4>2. CASE m = old
        BY <1>1, <4>2
      <4>3. CASE m # n /\ m # old /\ sibling[old] = m
        BY <1>1, <4>3
      <4>4. CASE m # n /\ m # old /\ sibling[old] # m
        BY <1>0, <1>1, <4>4 DEF ItemTypes
      <4> QED BY <4>1, <4>2, <4>3, <4>4
    <3>2. prev' = [m \in JsonNodes |-> prev'[m]]
      BY <1>1
    <3> QED BY <3>1, <3>2
  <2> QED BY <1>0, <1>1, <2>1, <2>2, <2>3, <2>4 DEF ItemTypes
<1>3. /\ prev'[n] = prev[old]
      /\ k < Len(Json!Walk) => prev'[Json!Walk[k + 1]] = n
      /\ \A m \in JsonNodes : m # n /\ m # old /\ (k < Len(Json!Walk) => m # Json!Walk[k + 1])
                          => prev'[m] = prev[m]
  <2>1. k < Len(Json!Walk) => Json!Walk[k + 1] \in JsonNodes /\ Json!Walk[k + 1] # n /\ Json!Walk[k + 1] # old
    BY <1>0
  <2> QED BY <1>0, <1>1, <2>1
<1>4. Chain(t, child', sibling')
  <2>1. \A i \in 1 .. Len(Json!Walk) : i # k /\ i # k - 1 => sibling'[Json!Walk[i]] = sibling[Json!Walk[i]]
    <3> SUFFICES ASSUME NEW i \in 1 .. Len(Json!Walk), i # k, i # k - 1
                 PROVE  sibling'[Json!Walk[i]] = sibling[Json!Walk[i]]
      OBVIOUS
    <3>1. Json!Walk[i] \in JsonNodes /\ Json!Walk[i] # old /\ Json!Walk[i] # n
      BY <1>0
    <3>2. k > 1 => Json!Walk[i] # Json!Walk[k - 1]
      BY <1>0, Items
    <3> QED BY <1>2, <3>1, <3>2
  <2>2. child' = IF k = 1 THEN n ELSE child
    BY <1>0, <1>1
  <2> QED BY <1>0, <1>2, <2>1, <2>2, ChainOther DEF old
<1>5. Back(t, prev')
  <2>1. \A i \in 2 .. Len(Json!Walk) : i # k /\ i # k + 1 => prev'[Json!Walk[i]] = prev[Json!Walk[i]]
    <3> SUFFICES ASSUME NEW i \in 2 .. Len(Json!Walk), i # k, i # k + 1
                 PROVE  prev'[Json!Walk[i]] = prev[Json!Walk[i]]
      OBVIOUS
    <3>1. i \in 1 .. Len(Json!Walk) /\ Json!Walk[i] \in JsonNodes /\ Json!Walk[i] # old /\ Json!Walk[i] # n
      BY <1>0
    <3>2. k < Len(Json!Walk) => Json!Walk[i] # Json!Walk[k + 1]
      BY <1>0, <3>1, Items
    <3> QED BY <1>3, <3>1, <3>2
  <2> QED BY <1>0, <1>3, <2>1, BackOther DEF old
<1>6. /\ Len(t) = Len(Json!Walk) /\ DOMAIN t = 1 .. Len(t)
      /\ \A i \in 1 .. Len(Json!Walk) : t[i] = IF i = k THEN n ELSE Json!Walk[i]
  BY <1>0
<1> HIDE DEF t
<1>7. \A i \in 1 .. Len(t) : t[i] \notin loose' /\ t[i] # old
  BY <1>0, <1>1, <1>6, Items
<1>8. ASSUME NEW m \in JsonNodes, \A i \in 1 .. Len(t) : t[i] # m
      PROVE  sibling'[m] = NoNode
  <2>1. CASE m = old
    BY <1>2, <2>1
  <2>2. CASE m # old
    <3>1. m # n
      BY <1>6, <1>8
    <3>2. \A j \in 1 .. Len(Json!Walk) : Json!Walk[j] # m
      BY <1>6, <1>8, <2>2 DEF old
    <3>3. sibling[m] = NoNode
      BY <3>2, Items
    <3>4. k > 1 => m # Json!Walk[k - 1]
      BY <1>0, <3>2
    <3> QED BY <1>2, <2>2, <3>1, <3>3, <3>4
  <2> QED BY <2>1, <2>2
<1>9. ItemsInv' /\ Json!Walk' = t
  BY <1>2, <1>4, <1>5, <1>7, <1>8, Rebuilt
<1>10. Json!List!Replace(k, n)
  BY <1>1, <1>9 DEF Json!List!Replace, t
<1>11. Cached
  <2>1. CASE k = Len(Json!Walk)
    <3>1. Json!Last = old
      BY <2>1 DEF old, Json!Last
    <3>2. Json!Last \notin Json!Listed'
      BY <1>6, <1>7, <1>9, <3>1 DEF Json!Listed
    <3> QED BY <3>2 DEF Cached
  <2>2. CASE k < Len(Json!Walk)
    <3>1. Json!Last' = Json!Last
      BY <1>0, <1>6, <1>9, <2>2 DEF Json!Last
    <3>2. prev'[child'] = prev[child]
      <4>1. CASE k = 1
        BY <1>0, <1>1, <1>3, <4>1
      <4>2. CASE k > 1
        <5>1. /\ Json!Walk[1] \in JsonNodes /\ Json!Walk[1] # n /\ Json!Walk[1] # old
              /\ Json!Walk[1] # Json!Walk[k + 1]
          BY <1>0, <2>2, <4>2, Items
        <5> QED BY <1>0, <1>1, <1>3, <4>2, <5>1
      <4> QED BY <1>0, <4>1, <4>2
    <3>3. child # NoNode
      BY <1>0
    <3> QED BY <3>1, <3>2, <3>3 DEF Cached, Json!PrevOfFirstIsLast
  <2> QED BY <1>0, <2>1, <2>2
<1> QED BY <1>9, <1>10, <1>11

LEMMA FillStep ==
  ASSUME ItemsInv, NEW len \in Json!Positions, NEW s \in [1 .. len -> JsonNodes], NEW names,
         Json!Fill(s, names)
  PROVE  ItemsInv' /\ Json!List!Fill /\ Cached
<1> DEFINE at(n) == CHOOSE i \in DOMAIN s : s[i] = n
           new == {s[i] : i \in DOMAIN s}
<1>0. /\ len \in Nat /\ len >= 1 /\ s \in Seq(JsonNodes) /\ Len(s) = len /\ DOMAIN s = 1 .. len
      /\ NoNode \notin JsonNodes
  BY JsonAssumption DEF Json!Positions
<1>1. /\ child = NoNode /\ child' = s[1] /\ loose' = loose /\ new \cap loose = {}
      /\ \A i, j \in 1 .. len : s[i] = s[j] => i = j
      /\ sibling' = [n \in JsonNodes |-> IF n \in new \ {s[Len(s)]} THEN s[at(n) + 1] ELSE NoNode]
      /\ prev' = [n \in JsonNodes |-> IF n \in new \ {s[1]} THEN s[at(n) - 1] ELSE NoNode]
  BY <1>0 DEF Json!Fill
<1>2. \A i \in 1 .. len : at(s[i]) = i /\ s[i] \in JsonNodes /\ s[i] \in new
  BY <1>0, <1>1
<1>3. \A n \in new : at(n) \in 1 .. len /\ s[at(n)] = n
  BY <1>0
<1> HIDE DEF at, new
<1>4. ItemTypes'
  <2>1. \A n \in JsonNodes : sibling'[n] \in JsonNodes \cup {NoNode}
    <3> SUFFICES ASSUME NEW n \in JsonNodes, n \in new \ {s[len]} PROVE s[at(n) + 1] \in JsonNodes
      BY <1>0, <1>1
    <3>1. at(n) + 1 \in 1 .. len
      BY <1>0, <1>3
    <3> QED BY <1>2, <3>1
  <2>2. \A n \in JsonNodes : prev'[n] \in JsonNodes \cup {NoNode}
    <3> SUFFICES ASSUME NEW n \in JsonNodes, n \in new \ {s[1]} PROVE s[at(n) - 1] \in JsonNodes
      BY <1>0, <1>1
    <3>1. at(n) - 1 \in 1 .. len
      BY <1>0, <1>3
    <3> QED BY <1>2, <3>1
  <2>3. loose' \subseteq JsonNodes /\ child' \in JsonNodes
    BY <1>0, <1>1, <1>2 DEF ItemsInv, ItemTypes
  <2> QED BY <1>1, <2>1, <2>2, <2>3 DEF ItemTypes
<1>5. Chain(s, child', sibling')
  <2>1. ASSUME NEW i \in 1 .. len PROVE sibling'[s[i]] = IF i < len THEN s[i + 1] ELSE NoNode
    <3>1. s[i] = s[len] <=> i = len
      BY <1>0, <1>1
    <3> QED BY <1>0, <1>1, <1>2, <3>1
  <2>2. child' = IF Len(s) = 0 THEN NoNode ELSE s[1]
    BY <1>0, <1>1
  <2>3. \A i, j \in 1 .. Len(s) : s[i] = s[j] => i = j
    BY <1>0, <1>1
  <2>4. \A i \in 1 .. Len(s) : sibling'[s[i]] = IF i < Len(s) THEN s[i + 1] ELSE NoNode
    BY <1>0, <2>1
  <2> QED BY <1>0, <2>2, <2>3, <2>4, Zenon DEF Chain
<1>6. Back(s, prev')
  <2>1. ASSUME NEW i \in 2 .. len PROVE prev'[s[i]] = s[i - 1]
    <3>1. i \in 1 .. len /\ 1 \in 1 .. len /\ s[i] # s[1]
      BY <1>0, <1>1
    <3> QED BY <1>1, <1>2, <3>1
  <2> QED BY <1>0, <2>1 DEF Back
<1>7. /\ \A i \in 1 .. Len(s) : s[i] \notin loose'
      /\ \A n \in JsonNodes : (\A i \in 1 .. Len(s) : s[i] # n) => sibling'[n] = NoNode
  <2>1. \A n \in JsonNodes : (\A i \in 1 .. len : s[i] # n) => n \notin new
    BY <1>0 DEF new
  <2> QED BY <1>0, <1>1, <1>2, <2>1
<1>8. ItemsInv' /\ Json!Walk' = s
  BY <1>4, <1>5, <1>6, <1>7, Rebuilt
<1>9. Json!Walk = <<>>
  BY <1>1, Items
<1>10. s \in Seq(JsonNodes \ loose) /\ s # <<>>
  <2>1. \A i \in 1 .. len : s[i] \in JsonNodes \ loose
    BY <1>1, <1>2
  <2> QED BY <1>0, <2>1
<1>11. Json!List!Fill
  BY <1>0, <1>1, <1>8, <1>9, <1>10 DEF Json!List!Fill
<1>12. Cached
  <2>1. prev'[child'] = NoNode
    BY <1>0, <1>1, <1>2
  <2> QED BY <2>1 DEF Cached, Json!PrevOfFirstIsLast
<1> QED BY <1>8, <1>11, <1>12

LEMMA DeleteStep == ASSUME ItemsInv, Json!Delete PROVE ItemsInv' /\ Json!List!Clear /\ Cached
<1>1. /\ child' = NoNode /\ loose' = loose
      /\ sibling' = [n \in JsonNodes |-> NoNode] /\ prev' = [n \in JsonNodes |-> NoNode]
  BY DEF Json!Delete
<1>2. ItemTypes' /\ Chain(<<>>, child', sibling') /\ Back(<<>>, prev')
  BY <1>1 DEF ItemsInv, ItemTypes, Chain, Back
<1>3. ItemsInv' /\ Json!Walk' = <<>>
  BY <1>1, <1>2, Rebuilt
<1> QED BY <1>1, <1>3 DEF Json!List!Clear, Cached, Json!PrevOfFirstIsLast

\* The first of a set of places.
LEMMA FirstOf == ASSUME NEW S \in SUBSET Nat, S # {} PROVE Json!First(S) \in S
<1>1. \E i \in S : \A j \in S : i <= j
  BY Least
<1> QED BY <1>1 DEF Json!First

LEMMA NamedPlace ==
  ASSUME ItemsInv, NEW nm, NEW b, Json!Named(nm, b) # {}
  PROVE  Json!First(Json!Named(nm, b)) \in 1 .. Len(Json!Walk)
<1>1. Json!Named(nm, b) \subseteq 1 .. Len(Json!Walk)
  BY Items DEF Json!Named
<1>2. Json!Named(nm, b) \in SUBSET Nat
  BY <1>1, Items
<1> QED BY <1>1, <1>2, FirstOf

LEMMA DetachStep ==
  ASSUME ItemsInv, NEW k \in 1 .. Len(Json!Walk), NEW drop \in BOOLEAN, Json!Detach(k, drop)
  PROVE  ItemsInv' /\ Json!List!Remove(k) /\ Cached
<1>1. Json!Unlink(Json!Walk[k]) /\ loose' \in {loose, loose \cup {Json!Walk[k]}}
  BY DEF Json!Detach
<1> QED BY <1>1, UnlinkStep

\* A name changes and nothing else.
LEMMA Renamed ==
  ASSUME ItemsInv, UNCHANGED <<child, sibling, prev, loose>>
  PROVE  ItemsInv' /\ Json!Walk' = Json!Walk /\ loose' = loose /\ Cached
<1>1. Json!Walk' = Json!Walk /\ Json!Listed' = Json!Listed
  BY DEF Json!Walk, Json!Listed
<1> QED BY <1>1 DEF ItemsInv, ItemTypes, Cached, Json!PrevOfFirstIsLast, Json!Last

LEMMA StepRefines ==
  ASSUME ItemsInv, [Json!Next]_Json!vars
  PROVE  ItemsInv' /\ [Json!List!Next]_<<Json!Walk, loose>> /\ Cached
<1>0. DOMAIN Json!Walk = 1 .. Len(Json!Walk) /\ Len(Json!Walk) \in Nat
  BY Items
<1>1. CASE Json!Delete
  BY <1>1, DeleteStep DEF Json!List!Next
<1>2. ASSUME NEW len \in Json!Positions, NEW s \in [1 .. len -> JsonNodes],
             Json!CreateArray(s) \/ \E names \in [1 .. len -> Names] : Json!Duplicate(s, names)
      PROVE  ItemsInv' /\ [Json!List!Next]_<<Json!Walk, loose>> /\ Cached
  <2>1. PICK names : Json!Fill(s, names)
    BY <1>2 DEF Json!CreateArray, Json!Duplicate
  <2> QED BY <2>1, FillStep DEF Json!List!Next
<1>3. ASSUME NEW n \in JsonNodes, Json!Create(n) \/ Json!DeleteItem(n)
      PROVE  ItemsInv' /\ [Json!List!Next]_<<Json!Walk, loose>> /\ Cached
  BY <1>3, CreateStep, FreeStep DEF Json!List!Next
<1>4. ASSUME NEW n \in JsonNodes,
             \/ Json!AddToArray(n)
             \/ \E nm \in Names : Json!AddToObject(n, nm) \/ Json!AddNewToObject(n, nm)
      PROVE  ItemsInv' /\ [Json!List!Next]_<<Json!Walk, loose>> /\ Cached
  <2>1. /\ n \notin Json!Listed /\ Json!Link(n) /\ loose' = loose \ {n}
    <3>1. CASE n \in loose /\ Json!Link(n) /\ loose' = loose \ {n}
      BY <3>1 DEF ItemsInv
    <3>2. CASE n \notin loose \cup Json!Listed /\ Json!Link(n) /\ loose' = loose
      BY <3>2
    <3> QED BY <1>4, <3>1, <3>2 DEF Json!AddToArray, Json!AddToObject, Json!AddNewToObject
  <2>2. ItemsInv' /\ Json!List!Insert(Len(Json!Walk), n) /\ Cached
    BY <2>1, LinkStep
  <2>3. Len(Json!Walk) \in 0 .. Len(Json!Walk)
    BY <1>0
  <2> QED BY <2>2, <2>3 DEF Json!List!Next
<1>5. ASSUME NEW n \in JsonNodes, NEW i \in Json!Positions, Json!InsertInArray(i, n)
      PROVE  ItemsInv' /\ [Json!List!Next]_<<Json!Walk, loose>> /\ Cached
  BY <1>5, InsertStep DEF Json!List!Next
<1>6. ASSUME NEW n \in JsonNodes, NEW i \in DOMAIN Json!Walk, Json!Replace(i, n)
      PROVE  ItemsInv' /\ [Json!List!Next]_<<Json!Walk, loose>> /\ Cached
  <2>1. Json!Supplant(Json!Walk[i], n) /\ i \in 1 .. Len(Json!Walk)
    BY <1>0, <1>6 DEF Json!Replace
  <2> QED BY <2>1, <1>0, SupplantStep DEF Json!List!Next
<1>7. ASSUME NEW n \in JsonNodes, NEW nm \in Names, NEW b \in BOOLEAN, Json!ReplaceNamed(nm, b, n)
      PROVE  ItemsInv' /\ [Json!List!Next]_<<Json!Walk, loose>> /\ Cached
  <2>1. CASE Json!Named(nm, b) = {}
    BY <1>7, <2>1, Renamed DEF Json!ReplaceNamed
  <2>2. CASE Json!Named(nm, b) # {}
    <3>1. PICK i \in 1 .. Len(Json!Walk) : Json!Supplant(Json!Walk[i], n)
      BY <1>7, <2>2, NamedPlace DEF Json!ReplaceNamed
    <3> QED BY <3>1, <1>0, SupplantStep DEF Json!List!Next
  <2> QED BY <2>1, <2>2
<1>8. ASSUME NEW drop \in BOOLEAN, NEW i \in DOMAIN Json!Walk, Json!Detach(i, drop)
      PROVE  ItemsInv' /\ [Json!List!Next]_<<Json!Walk, loose>> /\ Cached
  BY <1>0, <1>8, DetachStep DEF Json!List!Next
<1>9. ASSUME NEW drop \in BOOLEAN, NEW nm \in Names, NEW b \in BOOLEAN,
             Json!DetachNamed(nm, b, drop)
      PROVE  ItemsInv' /\ [Json!List!Next]_<<Json!Walk, loose>> /\ Cached
  <2>1. PICK i \in 1 .. Len(Json!Walk) : Json!Detach(i, drop)
    BY <1>9, NamedPlace DEF Json!DetachNamed
  <2> QED BY <1>0, <2>1, DetachStep DEF Json!List!Next
<1>10. CASE UNCHANGED Json!vars
  BY <1>10, Renamed DEF Json!vars
<1> QED BY <1>1, <1>2, <1>3, <1>4, <1>5, <1>6, <1>7, <1>8, <1>9, <1>10 DEF Json!Next

-----------------------------------------------------------------------------
\* Whatever a program does with an array or an object (cJSON.c), if it appends nothing
\* while the cached last item is stale: items come and go at the one place a call
\* names, none is lost, doubled or owned twice, and the cache gets stale only when
\* the last item goes.
THEOREM JsonChildrenAreItems == Json!Spec => JsonIsItemList
<1>1. Json!Init => ItemsInv /\ Json!List!Init
  BY ItemsStart DEF Json!Init, Json!List!Init
<1>2. ItemsInv /\ [Json!Next]_Json!vars => ItemsInv' /\ [Json!List!Next]_<<Json!Walk, loose>> /\ Cached
  BY StepRefines
<1>3. Json!Spec => Json!List!Spec
  BY <1>1, <1>2, PTL DEF Json!Spec, Json!List!Spec
<1>4. Cached => [Json!PrevOfFirstIsLast /\ ~Json!PrevOfFirstIsLast' => Json!Last \notin Json!Listed']_Json!vars
  BY DEF Cached
<1>5. Json!Spec => Json!StaleOnlyAfterLast
  BY <1>1, <1>2, <1>4, PTL DEF Json!Spec, Json!StaleOnlyAfterLast
<1> QED BY <1>3, <1>5 DEF JsonIsItemList, Json!JsonIsItemList, Json!ImplementsItemList

-----------------------------------------------------------------------------
(***************************************************************************)
(* The pointers of List, the instance of CfList in Containers, always      *)
(* describe a sequence of cells, and the iterator stands in it, for lists  *)
(* of any length.  The invariant is Linked with the types: cells leave     *)
(* `used' only when they leave the list, so that a cell that is pushed is  *)
(* not linked yet.  With it every step is one of ListWalk, or none.        *)
(***************************************************************************)
ListTypes == /\ used \subseteq Nodes
         /\ order \in Seq(Nodes)
         /\ next \in [List!Cells -> List!Cells \cup {NoData}]
         /\ pre \in [List!Cells -> List!Cells \cup {NoData}]
         /\ tail \in List!Cells
         /\ length \in Nat
         /\ iter \in List!Cells \cup {NoData}

ListInv == ListTypes /\ List!Linked

\* Following next from any place of the list leads to the place after it.
LEMMA Follow ==
  ASSUME ListInv, NEW i \in 0 .. length
  PROVE  /\ List!At(i) \in List!Cells
         /\ i < length => next[List!At(i)] = List!At(i + 1)
         /\ i = length => next[List!At(i)] = NoData
  BY ListAssumption DEF ListInv, ListTypes, List!Linked, List!At, List!Cells

\* Places of the list differ, the sentinel's from all the others.
LEMMA Apart ==
  ASSUME ListInv, NEW i \in 0 .. length, NEW j \in 0 .. length, i # j
  PROVE  List!At(i) # List!At(j)
  BY ListAssumption DEF ListInv, ListTypes, List!Linked, List!At, List!Cells

LEMMA ListStarts == List!Init => ListInv
  BY ListAssumption DEF List!Init, ListInv, ListTypes, List!Linked, List!At, List!Cells

LEMMA PushInv ==
  ASSUME ListInv, NEW n \in Nodes, NEW d \in Data \cup {NoData}, List!Push(n, d)
  PROVE  ListInv'
  <1> USE ListAssumption DEF ListInv, ListTypes, List!Cells
  <1>1. /\ n \notin used /\ used' = used \cup {n} /\ order' = Append(order, n)
        /\ length' = length + 1 /\ tail' = n /\ iter' = iter
        /\ pre' = [pre EXCEPT ![n] = tail]
        /\ next' = [next EXCEPT ![n] = NoData, ![tail] = n]
    BY DEF List!Push
  <1>2. ListTypes'
    BY <1>1
  <1>3. /\ length' = Len(order') /\ n # tail
        /\ \A i \in 0 .. length : List!At(i)' = List!At(i) /\ List!At(i) # n
        /\ List!At(length)' = n
    BY <1>1 DEF List!Linked, List!At
  <1>4. \A i \in 1 .. length' : /\ order'[i] \in used'
                                /\ next'[List!At(i - 1)'] = order'[i]
                                /\ pre'[order'[i]] = List!At(i - 1)'
    <2> SUFFICES ASSUME NEW i \in 1 .. length'
                 PROVE  /\ order'[i] \in used'
                        /\ next'[List!At(i - 1)'] = order'[i]
                        /\ pre'[order'[i]] = List!At(i - 1)'
      OBVIOUS
    <2>1. CASE i = length + 1
      BY <1>1, <1>3, <2>1 DEF List!Linked
    <2>2. CASE i # length + 1
      <3> i \in 1 .. length
        BY <1>1, <2>2
      <3>1. order'[i] = order[i] /\ order[i] = List!At(i)
        BY <1>1 DEF List!Linked, List!At
      <3>2. List!At(i - 1) # tail /\ List!At(i - 1) # n /\ order[i] # n
        BY <1>3, <3>1, Apart DEF List!Linked
      <3> QED BY <1>1, <1>3, <3>1, <3>2, Follow DEF List!Linked
    <2> QED BY <2>1, <2>2
  <1>5. \A i, j \in 1 .. length' : order'[i] = order'[j] => i = j
    <2>1. /\ length = Len(order) /\ order'[length + 1] = n
          /\ \A i \in 1 .. length : order'[i] = order[i] /\ order[i] # n
      BY <1>1 DEF List!Linked
    <2>2. \A i \in 1 .. length' : i \in 1 .. length \/ i = length + 1
      BY <1>1
    <2>3. \A i, j \in 1 .. length : order[i] = order[j] => i = j
      BY DEF List!Linked
    <2> QED BY <2>1, <2>2, <2>3, Zenon
  <1>6. iter' # NoData => \E i \in 0 .. length' : iter' = List!At(i)'
    BY <1>1, <1>3 DEF List!Linked
  <1>7. tail' = List!At(length)' /\ next'[tail'] = NoData
    BY <1>1, <1>3
  <1> QED BY <1>2, <1>3, <1>4, <1>5, <1>6, <1>7 DEF List!Linked

LEMMA TakeInv == ASSUME ListInv, List!Take PROVE ListInv'
  <1> USE ListAssumption DEF ListInv, ListTypes, List!Cells
  <1> DEFINE node == next[Root]
  <1>1. /\ length > 0 /\ length' = length - 1 /\ iter' = NoData
        /\ next' = [next EXCEPT ![Root] = next[node]]
        /\ pre' = IF next[node] = NoData THEN pre
                  ELSE [pre EXCEPT ![next[node]] = Root]
        /\ used' = used \ {node} /\ order' = Tail(order)
        /\ tail' = IF length = 1 THEN Root ELSE tail
    BY DEF List!Take
  <1>2. node = List!At(1) /\ node = order[1] /\ node \in Nodes
    BY <1>1 DEF List!Linked, List!At
  <1>3. /\ length = 1 => next[node] = NoData
        /\ length > 1 => next[node] = List!At(2) /\ next[node] \in Nodes
    BY <1>1, <1>2, Follow DEF List!Linked, List!At
  <1>4. ListTypes'
    BY <1>1, <1>2, <1>3 DEF List!Linked
  <1>5. /\ length' = Len(order')
        /\ \A i \in 1 .. length' : order'[i] = order[i + 1]
        /\ \A i \in 1 .. length' : List!At(i)' = List!At(i + 1)
        /\ List!At(0)' = Root
    BY <1>1 DEF List!Linked, List!At
  <1>6. tail' = List!At(length)' /\ next'[tail'] = NoData
    <2>1. CASE length = 1
      BY <1>1, <1>3, <1>5, <2>1
    <2>2. CASE length > 1
      BY <1>1, <1>5, <2>2, Apart DEF List!Linked, List!At
    <2> QED BY <1>1, <2>1, <2>2
  <1>7. \A i \in 1 .. length' : /\ order'[i] \in used'
                                /\ next'[List!At(i - 1)'] = order'[i]
                                /\ pre'[order'[i]] = List!At(i - 1)'
    <2> SUFFICES ASSUME NEW i \in 1 .. length'
                 PROVE  /\ order'[i] \in used'
                        /\ next'[List!At(i - 1)'] = order'[i]
                        /\ pre'[order'[i]] = List!At(i - 1)'
      OBVIOUS
    <2>1. order'[i] = order[i + 1] /\ order[i + 1] = List!At(i + 1) /\ length > 1
      BY <1>1, <1>5 DEF List!At
    <2>2. order'[i] \in used'
      BY <1>1, <1>2, <2>1 DEF List!Linked
    <2>3. CASE i = 1
      BY <1>1, <1>3, <1>5, <2>1, <2>2, <2>3
    <2>4. CASE i > 1
      <3>1. List!At(i - 1)' = List!At(i) /\ List!At(i) # Root /\ List!At(i) \in List!Cells
        BY <1>1, <1>5, <2>4, Apart DEF List!At
      <3>2. List!At(i + 1) # List!At(2) /\ List!At(i + 1) \in List!Cells
        BY <1>1, <2>4, Apart, Follow
      <3>3. next[List!At(i)] = order[i + 1] /\ pre[order[i + 1]] = List!At(i)
        <4>1. i + 1 \in 1 .. length /\ (i + 1) - 1 = i
          BY <1>1, <2>4
        <4>2. /\ next[List!At((i + 1) - 1)] = order[i + 1]
              /\ pre[order[i + 1]] = List!At((i + 1) - 1)
          BY <4>1 DEF List!Linked
        <4> QED BY <4>1, <4>2
      <3>4. next'[List!At(i - 1)'] = order'[i]
        BY <1>1, <2>1, <3>1, <3>3
      <3>5. pre'[order'[i]] = List!At(i - 1)'
        BY <1>1, <1>3, <2>1, <3>1, <3>2, <3>3
      <3> QED BY <2>2, <3>4, <3>5
    <2> QED BY <2>3, <2>4
  <1>8. \A i, j \in 1 .. length' : order'[i] = order'[j] => i = j
    BY <1>1, <1>5 DEF List!Linked
  <1> QED BY <1>1, <1>4, <1>5, <1>6, <1>7, <1>8 DEF List!Linked

LEMMA WalkInv == ASSUME ListInv, List!Begin \/ List!Advance PROVE ListInv'
  <1> USE ListAssumption DEF ListInv, ListTypes, List!Cells
  <1>1. /\ UNCHANGED <<used, next, pre, tail, length, order>>
        /\ \A i : List!At(i)' = List!At(i)
    BY DEF List!Begin, List!Advance, List!At
  <1>2. PICK i \in 0 .. length : iter' = next[List!At(i)]
    <2>1. CASE List!Begin
      <3>1. iter' = next[List!At(0)]
        BY <2>1 DEF List!Begin, List!At
      <3>2. 0 \in 0 .. length
        OBVIOUS
      <3> QED BY <3>1, <3>2
    <2>2. CASE List!Advance
      BY <2>2 DEF List!Advance, List!Linked
    <2> QED BY <2>1, <2>2
  <1>3. \/ iter' = NoData
        \/ i + 1 \in 0 .. length /\ iter' = List!At(i + 1) /\ List!At(i + 1) \in List!Cells
    BY <1>2, Follow
  <1> QED BY <1>1, <1>3 DEF List!Linked

LEMMA RemoveInv == ASSUME ListInv, List!Remove PROVE ListInv'
  <1> USE ListAssumption DEF ListInv, ListTypes, List!Cells
  <1> DEFINE k == CHOOSE i \in 1 .. length : order[i] = iter
  <1>1. /\ iter \in Nodes /\ length' = length - 1 /\ used' = used
        /\ next' = [next EXCEPT ![pre[iter]] = next[iter]]
        /\ pre' = IF next[iter] = NoData THEN pre
                  ELSE [pre EXCEPT ![next[iter]] = pre[iter]]
        /\ iter' = pre[iter] /\ tail' = List!TailAfter /\ order' = List!Without(k)
    BY DEF List!Remove, List!StepBack
  <1>2. k \in 1 .. length /\ order[k] = iter /\ List!At(k) = iter
    <2>1. \E i \in 1 .. length : order[i] = iter
      BY <1>1 DEF List!Linked, List!At
    <2> QED BY <2>1 DEF List!At
  <1> HIDE DEF k
  <1>3. pre[iter] = List!At(k - 1) /\ List!At(k - 1) \in List!Cells
    BY <1>2, Follow DEF List!Linked
  <1>4. /\ k < length => next[iter] = List!At(k + 1) /\ List!At(k + 1) \in Nodes
        /\ k = length => next[iter] = NoData
    BY <1>2, Follow DEF List!Linked, List!At
  <1>5. /\ order' \in Seq(Nodes) /\ Len(order') = length - 1
        /\ \A i \in 1 .. length - 1 :
             order'[i] = order[IF i < k THEN i ELSE i + 1]
    BY <1>1, <1>2 DEF List!Without, List!Linked
  <1>6. \A i \in 0 .. length - 1 : List!At(i)' = List!At(IF i < k THEN i ELSE i + 1)
    BY <1>2, <1>5 DEF List!At
  <1>7. tail = List!At(length) /\ tail' = IF k = length THEN List!At(k - 1) ELSE tail
    <2>1. tail = List!At(length) /\ (tail = iter <=> k = length)
      BY <1>2, Apart DEF List!Linked
    <2>2. length = 1 => k = 1 /\ List!At(k - 1) = Root
      BY <1>2 DEF List!At
    <2> QED BY <1>1, <1>3, <2>1, <2>2 DEF List!TailAfter
  <1>8. ListTypes'
    BY <1>1, <1>2, <1>3, <1>4, <1>5, <1>7 DEF List!Linked
  <1>9. tail' = List!At(length)'
    BY <1>1, <1>2, <1>6, <1>7
  <1>10. next'[tail'] = NoData
    <2>1. CASE k = length
      BY <1>1, <1>3, <1>4, <1>7, <2>1
    <2>2. CASE k < length
      <3>1. tail # List!At(k - 1)
        BY <1>2, <1>7, <2>2, Apart
      <3> QED BY <1>1, <1>3, <1>7, <2>2, <3>1 DEF List!Linked
    <2> QED BY <1>2, <2>1, <2>2
  <1>11. \A i \in 1 .. length' : /\ order'[i] \in used'
                                 /\ next'[List!At(i - 1)'] = order'[i]
                                 /\ pre'[order'[i]] = List!At(i - 1)'
    <2> SUFFICES ASSUME NEW i \in 1 .. length'
                 PROVE  /\ order'[i] \in used'
                        /\ next'[List!At(i - 1)'] = order'[i]
                        /\ pre'[order'[i]] = List!At(i - 1)'
      OBVIOUS
    <2>1. i \in 1 .. length - 1 /\ order'[i] = List!At(i)'
      BY <1>1, <1>5 DEF List!At
    <2>2. order'[i] \in used'
      BY <1>1, <1>2, <1>5, <2>1 DEF List!Linked
    <2>3. CASE i < k
      <3>1. order'[i] = order[i] /\ order[i] = List!At(i) /\ List!At(i - 1)' = List!At(i - 1)
        BY <1>2, <1>5, <1>6, <2>1, <2>3 DEF List!At
      <3>2. List!At(i - 1) # List!At(k - 1) /\ List!At(i - 1) \in List!Cells
        <4>1. i - 1 \in 0 .. length /\ k - 1 \in 0 .. length /\ i - 1 # k - 1
          BY <1>2, <2>1, <2>3
        <4> QED BY <4>1, Apart, Follow
      <3>3. k < length => List!At(i) # List!At(k + 1)
        BY <1>2, <2>1, <2>3, Apart
      <3>4. next[List!At(i - 1)] = order[i] /\ pre[order[i]] = List!At(i - 1)
        BY <2>1 DEF List!Linked
      <3>5. next'[List!At(i - 1)'] = order'[i]
        BY <1>1, <1>3, <3>1, <3>2, <3>4
      <3>6. pre'[order'[i]] = List!At(i - 1)'
        BY <1>1, <1>2, <1>4, <3>1, <3>3, <3>4, Follow
      <3> QED BY <2>2, <3>5, <3>6
    <2>4. CASE i = k
      <3>1. k < length /\ order'[i] = List!At(k + 1) /\ List!At(i - 1)' = List!At(k - 1)
        BY <1>2, <1>5, <1>6, <2>1, <2>4 DEF List!At
      <3> QED BY <1>1, <1>3, <1>4, <2>2, <3>1
    <2>5. CASE i > k
      <3>1. /\ order'[i] = order[i + 1] /\ order[i + 1] = List!At(i + 1)
            /\ List!At(i - 1)' = List!At(i)
        BY <1>2, <1>5, <1>6, <2>1, <2>5 DEF List!At
      <3>2. List!At(i) # List!At(k - 1) /\ List!At(i) \in List!Cells /\ List!At(i + 1) # List!At(k + 1)
        BY <1>2, <2>1, <2>5, Apart, Follow
      <3>3. next[List!At(i)] = order[i + 1] /\ pre[order[i + 1]] = List!At(i)
        BY <2>1 DEF List!Linked
      <3>4. next'[List!At(i - 1)'] = order'[i]
        BY <1>1, <1>3, <3>1, <3>2, <3>3
      <3>5. pre'[order'[i]] = List!At(i - 1)'
        BY <1>1, <1>2, <1>4, <3>1, <3>2, <3>3
      <3> QED BY <2>2, <3>4, <3>5
    <2> QED BY <1>2, <2>1, <2>3, <2>4, <2>5
  <1>12. \A i, j \in 1 .. length' : order'[i] = order'[j] => i = j
    <2> SUFFICES ASSUME NEW i \in 1 .. length - 1, NEW j \in 1 .. length - 1,
                        order'[i] = order'[j]
                 PROVE  i = j
      BY <1>1
    <2> DEFINE at(x) == IF x < k THEN x ELSE x + 1
    <2>1. /\ at(i) \in 1 .. length /\ at(j) \in 1 .. length
          /\ order[at(i)] = order[at(j)]
      BY <1>2, <1>5
    <2>2. at(i) = at(j)
      <3> HIDE DEF at
      <3> QED BY <2>1 DEF List!Linked
    <2> QED BY <1>2, <2>2
  <1>13. \E i \in 0 .. length' : iter' = List!At(i)'
    BY <1>1, <1>2, <1>3, <1>6
  <1> QED BY <1>1, <1>5, <1>8, <1>9, <1>10, <1>11, <1>12, <1>13 DEF List!Linked

LEMMA StepInv == ASSUME ListInv, [List!Next]_List!vars PROVE ListInv'
  <1>1. CASE List!TakeFront \/ List!ClearTake
    BY <1>1, TakeInv DEF List!TakeFront, List!ClearTake
  <1>2. CASE List!Clear \/ List!ClearEnd \/ UNCHANGED List!vars
    BY <1>2 DEF List!Clear, List!ClearEnd, List!vars, ListInv, ListTypes, List!Linked, List!At
  <1>3. CASE List!Begin \/ List!Advance
    BY <1>3, WalkInv
  <1>4. CASE List!Remove
    BY <1>4, RemoveInv
  <1>5. CASE \E n \in Nodes, d \in Data \cup {NoData} : List!Push(n, d)
    BY <1>5, PushInv
  <1> QED BY <1>1, <1>2, <1>3, <1>4, <1>5 DEF List!Next

-----------------------------------------------------------------------------
\* The list as its users see it.
WInv == ListInv /\ data \in [List!Cells -> Data \cup {NoData}]

Content == [i \in 1 .. length |-> data[order[i]]]

Position == IF iter = NoData THEN -1 ELSE CHOOSE i \in 0 .. length : iter = List!At(i)

\* The place of the iterator is the one place that is its cell.
Placed == /\ iter = NoData => Position = -1
          /\ \A i \in 0 .. length : iter = List!At(i) => Position = i /\ iter # NoData

LEMMA Place == ListInv => Placed
  <1> SUFFICES ASSUME ListInv, NEW i \in 0 .. length, iter = List!At(i)
               PROVE  Position = i /\ iter # NoData
    BY DEF Placed, Position
  <1>1. iter # NoData
    BY Follow, ListAssumption DEF List!Cells
  <1>2. \A j \in 0 .. length : iter = List!At(j) => j = i
    BY Apart
  <1> QED BY <1>1, <1>2 DEF Position

LEMMA PlaceNext == ListInv' => Placed'
  BY Place, PTL

\* What is seen of it is a sequence of its length.
Sized == /\ Content \in Seq(Data \cup {NoData})
         /\ Len(Content) = length
         /\ \A i \in 1 .. length : Content[i] = data[order[i]]

LEMMA ContentSeq == WInv => Sized
  BY DEF WInv, ListInv, ListTypes, List!Linked, Sized, Content, List!Cells

LEMMA ContentNext == WInv' => Sized'
  BY ContentSeq, PTL

\* The iterator keeps its position where the cells before it keep their places.
LEMMA PositionStays ==
  ASSUME WInv, WInv', iter' = iter, length' >= length,
         \A i \in 0 .. length : List!At(i)' = List!At(i)
  PROVE  Position' = Position
  <1> USE DEF WInv, ListInv, ListTypes
  <1>1. Placed /\ Placed'
    BY Place, PlaceNext
  <1>2. CASE iter = NoData
    BY <1>1, <1>2 DEF Placed
  <1>3. CASE iter # NoData
    <2>1. PICK i \in 0 .. length : iter = List!At(i)
      BY <1>3 DEF List!Linked
    <2> QED BY <1>1, <2>1 DEF Placed
  <1> QED BY <1>2, <1>3

LEMMA PushWalk ==
  ASSUME WInv, NEW n \in Nodes, NEW d \in Data \cup {NoData}, List!Push(n, d)
  PROVE  WInv' /\ List!Walk!Push(d)
  <1>1. /\ n \notin used /\ order' = Append(order, n)
        /\ data' = [data EXCEPT ![n] = d]
        /\ length' = length + 1 /\ iter' = iter
    BY DEF List!Push
  <1>2. WInv'
    BY <1>1, PushInv DEF WInv, List!Cells
  <1>3. Sized /\ Sized'
    BY <1>2, ContentSeq, ContentNext
  <1>4. /\ length = Len(order) /\ length \in Nat /\ order \in Seq(Nodes)
        /\ \A i \in 1 .. length : order[i] \in Nodes /\ order[i] # n
    BY <1>1 DEF WInv, ListInv, ListTypes, List!Linked
  <1>5. Content' = Append(Content, d)
    <2> DEFINE S == Data \cup {NoData}
               t == Append(Content, d)
    <2>1. /\ t \in Seq(S) /\ Len(t) = length + 1 /\ t[length + 1] = d
          /\ \A i \in 1 .. length : t[i] = data[order[i]]
      BY <1>3, <1>4 DEF Sized
    <2>2. /\ order'[length + 1] = n
          /\ \A i \in 1 .. length : order'[i] = order[i]
      BY <1>1, <1>4
    <2>3. ASSUME NEW i \in 1 .. length + 1
          PROVE  Content'[i] = t[i]
      <3>1. Content'[i] = data'[order'[i]]
        BY <1>1, <1>3 DEF Sized
      <3>2. CASE i = length + 1
        BY <1>1, <2>1, <2>2, <3>1, <3>2 DEF WInv, List!Cells
      <3>3. CASE i # length + 1
        BY <1>1, <1>4, <2>1, <2>2, <3>1, <3>3 DEF WInv, List!Cells
      <3> QED BY <3>2, <3>3
    <2>4. Content' \in Seq(S) /\ Len(Content') = length + 1
      BY <1>1, <1>3 DEF Sized
    <2> HIDE DEF S, t
    <2>5. Content' = t
      BY <2>1, <2>3, <2>4, SeqEqual
    <2> QED BY <2>5 DEF t
  <1>6. Position' = Position
    <2>1. \A i \in 0 .. length : List!At(i)' = List!At(i)
      BY <1>1, <1>4 DEF List!At
    <2> QED BY <1>1, <1>2, <1>4, <2>1, PositionStays
  <1> QED BY <1>2, <1>5, <1>6 DEF List!Walk!Push, Content, Position

LEMMA TakeWalk == ASSUME WInv, List!Take PROVE WInv' /\ List!Walk!Take
  <1>1. /\ length > 0 /\ length' = length - 1 /\ order' = Tail(order)
        /\ data' = data /\ iter' = NoData
    BY DEF List!Take
  <1>2. WInv'
    BY <1>1, TakeInv DEF WInv
  <1>3. Sized /\ Sized'
    BY <1>2, ContentSeq, ContentNext
  <1>4. /\ length = Len(order) /\ length \in Nat /\ order \in Seq(Nodes)
        /\ \A i \in 1 .. length - 1 : order'[i] = order[i + 1]
    BY <1>1 DEF WInv, ListInv, ListTypes, List!Linked
  <1>5. Content # <<>>
    BY <1>1, <1>3, <1>4 DEF Sized
  <1>6. Content' = Tail(Content)
    <2> DEFINE S == Data \cup {NoData}
               t == Tail(Content)
    <2>1. /\ t \in Seq(S) /\ Len(t) = length - 1
          /\ \A i \in 1 .. length - 1 : t[i] = Content[i + 1]
      BY <1>3, <1>5, HeadTailProperties DEF Sized
    <2>2. ASSUME NEW i \in 1 .. length - 1
          PROVE  Content'[i] = t[i]
      BY <1>1, <1>3, <1>4, <2>1 DEF Sized
    <2>3. Content' \in Seq(S) /\ Len(Content') = length - 1
      BY <1>1, <1>3 DEF Sized
    <2> HIDE DEF S, t
    <2>4. Content' = t
      BY <2>1, <2>2, <2>3, SeqEqual
    <2> QED BY <2>4 DEF t
  <1>7. Position' = -1
    BY <1>1 DEF Position
  <1> QED BY <1>2, <1>5, <1>6, <1>7 DEF List!Walk!Take, List!Walk!Over, Content, Position

LEMMA BeginWalk == ASSUME WInv, List!Begin PROVE WInv' /\ List!Walk!Begin
  <1>1. /\ iter' = next[Root]
        /\ UNCHANGED <<data, length, order>>
    BY DEF List!Begin
  <1>2. WInv'
    BY <1>1, WalkInv DEF WInv
  <1>3. Placed' /\ Sized
    BY <1>2, PlaceNext, ContentSeq DEF WInv
  <1>4. Content' = Content /\ \A i \in 0 .. length : List!At(i)' = List!At(i)
    BY <1>1 DEF Content, List!At
  <1>5. length \in Nat /\ List!At(0) = Root
    BY DEF WInv, ListInv, ListTypes, List!At
  <1>6. CASE length = 0
    <2>1. next[Root] = NoData /\ Content = <<>>
      BY <1>3, <1>5, <1>6, Follow DEF WInv, Sized
    <2>2. Position' = -1
      BY <1>1, <2>1 DEF Position
    <2> QED BY <1>2, <1>4, <2>1, <2>2 DEF List!Walk!Begin, List!Walk!Over, Content, Position
  <1>7. CASE length > 0
    <2>1. next[Root] = List!At(1) /\ Content # <<>>
      BY <1>3, <1>5, <1>7, Follow DEF WInv, Sized
    <2>2. Position' = 1
      BY <1>1, <1>3, <1>4, <1>5, <1>7, <2>1 DEF Placed
    <2> QED BY <1>2, <1>4, <2>1, <2>2 DEF List!Walk!Begin, Content, Position
  <1> QED BY <1>5, <1>6, <1>7

LEMMA AdvanceWalk == ASSUME WInv, List!Advance PROVE WInv' /\ List!Walk!Advance
  <1>1. /\ iter # NoData /\ iter' = next[iter]
        /\ UNCHANGED <<data, length, order>>
    BY DEF List!Advance
  <1>2. WInv'
    BY <1>1, WalkInv DEF WInv
  <1>3. Placed /\ Placed' /\ Sized
    BY <1>2, Place, PlaceNext, ContentSeq DEF WInv
  <1>4. Content' = Content /\ \A i \in 0 .. length : List!At(i)' = List!At(i)
    BY <1>1 DEF Content, List!At
  <1>5. PICK i \in 0 .. length : iter = List!At(i)
    BY <1>1 DEF WInv, ListInv, List!Linked
  <1>6. length \in Nat /\ Position = i /\ Len(Content) = length
    BY <1>3, <1>5 DEF WInv, ListInv, ListTypes, Placed, Sized
  <1>7. ASSUME i = length PROVE Position' = -1
    <2>1. next[iter] = NoData
      BY <1>5, <1>7, Follow DEF WInv
    <2> QED BY <1>1, <2>1 DEF Position
  <1>8. ASSUME i < length PROVE Position' = i + 1
    <2>1. next[iter] = List!At(i + 1)
      BY <1>5, <1>8, Follow DEF WInv
    <2> QED BY <1>1, <1>3, <1>4, <1>6, <1>8, <2>1 DEF Placed
  <1>9. Position' = IF Position = Len(Content) THEN -1 ELSE Position + 1
    BY <1>6, <1>7, <1>8
  <1>10. Position # -1
    BY <1>6
  <1> QED BY <1>2, <1>4, <1>9, <1>10 DEF List!Walk!Advance, List!Walk!Over, Content, Position

LEMMA RemoveWalk == ASSUME WInv, List!Remove PROVE WInv' /\ List!Walk!Remove
  <1>1. /\ iter \in Nodes /\ length' = length - 1 /\ data' = data
        /\ iter' = pre[iter]
        /\ order' = List!Without(CHOOSE i \in 1 .. length : order[i] = iter)
    BY DEF List!Remove, List!StepBack
  <1>2. WInv'
    BY <1>1, RemoveInv DEF WInv
  <1>3. Placed /\ Placed' /\ Sized /\ Sized'
    BY <1>2, Place, PlaceNext, ContentSeq, ContentNext DEF WInv
  <1>4. PICK k \in 1 .. length :
          order' = List!Without(k) /\ order[k] = iter /\ List!At(k) = iter
    <2>1. \E i \in 1 .. length : order[i] = iter
      BY <1>1, ListAssumption DEF WInv, ListInv, ListTypes, List!Cells, List!Linked, List!At
    <2> DEFINE c == CHOOSE i \in 1 .. length : order[i] = iter
    <2>2. c \in 1 .. length /\ order[c] = iter
      BY <2>1
    <2>3. order' = List!Without(c)
      BY <1>1
    <2> HIDE DEF c
    <2>4. List!At(c) = iter
      BY <2>2 DEF List!At
    <2> QED BY <2>2, <2>3, <2>4
  <1>5. /\ length \in Nat /\ length = Len(order) /\ pre[iter] = List!At(k - 1)
        /\ \A i \in 1 .. length - 1 :
             order'[i] = order[IF i < k THEN i ELSE i + 1]
    BY <1>1, <1>4 DEF WInv, ListInv, ListTypes, List!Linked, List!Without
  <1>6. Position = k
    BY <1>3, <1>4, <1>5 DEF Placed
  <1>7. Position' = k - 1
    <2>1. k - 1 \in 0 .. length - 1
      BY <1>4, <1>5
    <2>2. List!At(k - 1)' = List!At(k - 1)
      <3>1. CASE k = 1
        BY <3>1 DEF List!At
      <3>2. CASE k > 1
        <4>1. k - 1 \in 1 .. length - 1 /\ k - 1 < k
          BY <1>4, <1>5, <3>2
        <4>2. order'[k - 1] = order[k - 1]
          BY <1>5, <4>1
        <4> QED BY <4>1, <4>2 DEF List!At
      <3> QED BY <1>4, <1>5, <3>1, <3>2
    <2>3. iter' = List!At(k - 1)'
      BY <1>1, <1>5, <2>2
    <2> QED BY <1>1, <1>3, <2>1, <2>3 DEF Placed
  <1>8. Content' = SubSeq(Content, 1, k - 1) \o SubSeq(Content, k + 1, Len(Content))
    <2> DEFINE S == Data \cup {NoData}
               t == SubSeq(Content, 1, k - 1) \o SubSeq(Content, k + 1, Len(Content))
    <2>1. /\ Content \in Seq(S) /\ Len(Content) = length /\ k \in 1 .. Len(Content)
          /\ Content' \in Seq(S) /\ Len(Content') = length - 1
      BY <1>1, <1>3, <1>4 DEF Sized
    <2> HIDE DEF S
    <2>2. /\ t \in Seq(S) /\ Len(t) = length - 1
          /\ \A i \in 1 .. length - 1 :
               t[i] = Content[IF i < k THEN i ELSE i + 1]
      BY <2>1, WithoutOne DEF Without
    <2> HIDE DEF t
    <2>3. ASSUME NEW i \in 1 .. length - 1
          PROVE  Content'[i] = t[i]
      <3> DEFINE from == IF i < k THEN i ELSE i + 1
      <3>1. from \in 1 .. length
        BY <1>4, <1>5
      <3>2. order'[i] = order[from] /\ t[i] = Content[from]
        BY <1>5, <2>2
      <3> HIDE DEF from
      <3>3. Content[from] = data[order[from]]
        BY <1>3, <3>1 DEF Sized
      <3>4. Content'[i] = data'[order'[i]]
        BY <1>1, <1>3 DEF Sized
      <3> QED BY <1>1, <3>2, <3>3, <3>4
    <2>4. Content' = t
      BY <2>1, <2>2, <2>3, SeqEqual
    <2> QED BY <2>4 DEF t
  <1>9. k \in 1 .. Len(Content)
    BY <1>3, <1>4 DEF Sized
  <1> QED BY <1>2, <1>6, <1>7, <1>8, <1>9 DEF List!Walk!Remove, Content, Position

LEMMA StepWalk ==
  ASSUME WInv, [List!Next]_List!vars
  PROVE  WInv' /\ [List!Walk!Next]_<<Content, Position>>
  <1>1. CASE List!TakeFront \/ List!ClearTake
    <2>1. WInv' /\ List!Walk!Take
      BY <1>1, TakeWalk DEF List!TakeFront, List!ClearTake
    <2> QED BY <2>1 DEF List!Walk!Next
  <1>2. CASE List!Clear \/ List!ClearEnd \/ UNCHANGED List!vars
    <2>1. UNCHANGED <<used, data, next, pre, tail, length, iter, order>>
      BY <1>2 DEF List!Clear, List!ClearEnd, List!vars
    <2>2. WInv'
      BY <2>1, StepInv DEF WInv
    <2>3. Content' = Content /\ Position' = Position
      BY <2>1 DEF Content, Position, List!At
    <2> QED BY <2>2, <2>3
  <1>3. CASE List!Begin
    BY <1>3, BeginWalk DEF List!Walk!Next
  <1>4. CASE List!Advance
    BY <1>4, AdvanceWalk DEF List!Walk!Next
  <1>5. CASE List!Remove
    BY <1>5, RemoveWalk DEF List!Walk!Next
  <1>6. CASE \E n \in Nodes, d \in Data \cup {NoData} : List!Push(n, d)
    <2>1. PICK n \in Nodes, d \in Data \cup {NoData} : List!Push(n, d)
      BY <1>6
    <2>2. WInv' /\ List!Walk!Push(d)
      BY <2>1, PushWalk
    <2> QED BY <2>2 DEF List!Walk!Next
  <1> QED BY <1>1, <1>2, <1>3, <1>4, <1>5, <1>6 DEF List!Next

-----------------------------------------------------------------------------
\* Whatever is pushed, taken, walked and removed in whatever order (cf_list.c),
\* both chains of pointers, the tail and the length describe one sequence of
\* allocated cells, and the iterator stands on one of them or on the sentinel.
LEMMA StaysLinked == List!Spec => []List!Linked
  <1>1. List!Init => ListInv
    BY ListStarts
  <1>2. ListInv /\ [List!Next]_List!vars => ListInv'
    BY StepInv
  <1>3. ListInv => List!Linked
    BY DEF ListInv
  <1> QED BY <1>1, <1>2, <1>3, PTL DEF List!Spec

\* Every step is a step of ListWalk.
LEMMA Walks == List!Spec => List!ImplementsWalk
  <1>1. List!Init => WInv /\ List!Walk!Init
    <2> SUFFICES ASSUME List!Init PROVE WInv /\ List!Walk!Init
      OBVIOUS
    <2>1. WInv
      BY ListStarts DEF List!Init, WInv
    <2>2. Content = <<>>
      BY <2>1, ContentSeq DEF List!Init, Sized
    <2>3. Position = -1
      BY DEF List!Init, Position
    <2> QED BY <2>1, <2>2, <2>3 DEF List!Walk!Init, List!Walk!Over, Content, Position
  <1>2. WInv /\ [List!Next]_List!vars => WInv' /\ [List!Walk!Next]_<<Content, Position>>
    BY StepWalk
  <1> QED BY <1>1, <1>2, PTL DEF List!Spec, List!ImplementsWalk, List!Walk!Spec, Content, Position

\* The list is what its users take it for (cf_list.c, cf_iterator.h): items come
\* from the front in the order they were pushed, and a walk passes the items in
\* that order and every one of them, though items are removed under it; the pointers
\* describe its nodes all the while.
THEOREM ListWalks == List!Spec => ListIsWalk
  BY StaysLinked, Walks, PTL DEF ListIsWalk, List!ListIsWalk

-----------------------------------------------------------------------------
(***************************************************************************)
(* Both tables of Containers answer as maps, for any number of keys and    *)
(* any hash function.                                                      *)
(* Of the hash the invariant says that a bucket in conflict is in use and  *)
(* that its list holds a key once: a look-up then finds one item or none,  *)
(* wherever it is in the list, and so does the deletion.                   *)
(* The dictionary of an ini file always has a hole for the next entry.     *)
(* The invariant says that the count bounds the entries that are there,    *)
(* that the hash in a slot is that of its key, and that no key is in two   *)
(* slots: a new entry is only made for a key that no slot holds, in a slot *)
(* that holds none.                                                        *)
(***************************************************************************)
\* The parts count as this module does.
LEMMA SameCounts ==
  /\ \A S : Table!Cardinality(S) = Cardinality(S)
  /\ \A S : Dict!Cardinality(S) = Cardinality(S)
  BY Zenon DEF Table!Cardinality, Dict!Cardinality, Cardinality, Table!IsFiniteSet,
               Dict!IsFiniteSet, IsFiniteSet

-----------------------------------------------------------------------------
\* The hash
Pairs == [key : HashKeys, value : HashValues]

KeyOnce(c) == \A i, j \in 1 .. Len(c) : c[i].key = c[j].key => i = j

HashInv == /\ usedFlag \subseteq Table!Buckets
           /\ conflictFlag \subseteq usedFlag
           /\ item \in [Table!Buckets -> Pairs \cup {Table!NoItem}]
           /\ \A b \in usedFlag : item[b] \in Pairs
           /\ chain \in [Table!Buckets -> Seq(Pairs)]
           /\ \A b \in conflictFlag : KeyOnce(chain[b])

\* A list that holds a key once has one item to find for it.
LEMMA OneFound ==
  ASSUME NEW c \in Seq(Pairs), KeyOnce(c), NEW i \in 1 .. Len(c)
  PROVE  /\ {j \in DOMAIN c : c[j].key = c[i].key} = {i}
         /\ Table!FirstIn({i}) = i
  <1>1. {j \in DOMAIN c : c[j].key = c[i].key} = {i}
    BY DEF KeyOnce
  <1>2. Table!FirstIn({i}) = i
    BY DEF Table!FirstIn
  <1> QED BY <1>1, <1>2

\* What a look-up answers, by the state of the bucket of the key.
HashLooks ==
  \A k \in HashKeys :
    /\ BucketOf[k] \notin usedFlag => Table!Get(k) = NotThere
    /\ BucketOf[k] \in usedFlag \ conflictFlag =>
         Table!Get(k) = IF item[BucketOf[k]].key = k THEN item[BucketOf[k]].value ELSE NotThere
    /\ BucketOf[k] \in conflictFlag =>
         /\ Table!Found(BucketOf[k], k) = {} => Table!Get(k) = NotThere
         /\ \A i \in 1 .. Len(chain[BucketOf[k]]) : chain[BucketOf[k]][i].key = k =>
              /\ Table!Get(k) = chain[BucketOf[k]][i].value
              /\ Table!Found(BucketOf[k], k) = {i}
              /\ Table!FirstIn(Table!Found(BucketOf[k], k)) = i

LEMMA HashLookup == HashInv => HashLooks
  <1> SUFFICES ASSUME HashInv, NEW k \in HashKeys
               PROVE  /\ BucketOf[k] \notin usedFlag => Table!Get(k) = NotThere
                      /\ BucketOf[k] \in usedFlag \ conflictFlag =>
                           Table!Get(k) = IF item[BucketOf[k]].key = k
                                    THEN item[BucketOf[k]].value ELSE NotThere
                      /\ BucketOf[k] \in conflictFlag =>
                           /\ Table!Found(BucketOf[k], k) = {} => Table!Get(k) = NotThere
                           /\ \A i \in 1 .. Len(chain[BucketOf[k]]) :
                                chain[BucketOf[k]][i].key = k =>
                                  /\ Table!Get(k) = chain[BucketOf[k]][i].value
                                  /\ Table!Found(BucketOf[k], k) = {i}
                                  /\ Table!FirstIn(Table!Found(BucketOf[k], k)) = i
    BY DEF HashLooks
  <1>1. BucketOf[k] \notin usedFlag => Table!Get(k) = NotThere
    BY DEF Table!Get, HashInv
  <1>2. BucketOf[k] \in usedFlag \ conflictFlag =>
          Table!Get(k) = IF item[BucketOf[k]].key = k THEN item[BucketOf[k]].value ELSE NotThere
    BY DEF Table!Get
  <1>3. BucketOf[k] \in conflictFlag =>
          Table!Get(k) = IF Table!Found(BucketOf[k], k) = {} THEN NotThere
                   ELSE chain[BucketOf[k]][Table!FirstIn(Table!Found(BucketOf[k], k))].value
    BY DEF Table!Get, HashInv
  <1>4. ASSUME BucketOf[k] \in conflictFlag, NEW i \in 1 .. Len(chain[BucketOf[k]]),
               chain[BucketOf[k]][i].key = k
        PROVE  Table!Found(BucketOf[k], k) = {i} /\ Table!FirstIn(Table!Found(BucketOf[k], k)) = i
    <2>1. chain[BucketOf[k]] \in Seq(Pairs) /\ KeyOnce(chain[BucketOf[k]])
      BY <1>4, HashAssumption DEF HashInv, Table!Buckets
    <2> QED BY <1>4, <2>1, OneFound DEF Table!Found
  <1> QED BY <1>1, <1>2, <1>3, <1>4

LEMMA HashLookupNext == HashInv' => HashLooks'
  BY HashLookup, PTL

LEMMA HashInitInv == Table!Init => HashInv /\ Table!Map!Init
  <1> SUFFICES ASSUME Table!Init PROVE HashInv /\ Table!Map!Init
    OBVIOUS
  <1>1. HashInv
    BY DEF Table!Init, HashInv
  <1>2. \A k \in HashKeys : Table!Get(k) = NotThere
    BY DEF Table!Init, Table!Get
  <1> QED BY <1>1, <1>2 DEF Table!Init, Table!Map!Init

\* A key of a bucket that did not change has the answer it had.
Untouched(c) ==
  /\ c \in usedFlag' <=> c \in usedFlag
  /\ c \in conflictFlag' <=> c \in conflictFlag
  /\ item'[c] = item[c]
  /\ chain'[c] = chain[c]

LEMMA SameAnswer ==
  ASSUME NEW j \in HashKeys, Untouched(BucketOf[j])
  PROVE  Table!Get(j)' = Table!Get(j)
  BY DEF Untouched, Table!Get, Table!Found

\* An insertion changes the answer for its key, and for no other.
Puts(k, v) ==
  /\ Table!Get(k)' = v
  /\ \A j \in HashKeys \ {k} : Table!Get(j)' = Table!Get(j)

LEMMA InsertInv ==
  ASSUME HashInv, NEW k \in HashKeys, NEW v \in HashValues, Table!Insert(k, v)
  PROVE  HashInv' /\ Puts(k, v)
  <1> DEFINE b == BucketOf[k]
             Answered == /\ Table!Get(k)' = v
                         /\ \A j \in HashKeys \ {k} : BucketOf[j] = b => Table!Get(j)' = Table!Get(j)
             Framed == \A c \in Table!Buckets \ {b} : Untouched(c)
  <1>1. /\ b \in Table!Buckets /\ Table!Item(k, v) \in Pairs
        /\ Table!Item(k, v).key = k /\ Table!Item(k, v).value = v
        /\ \A j \in HashKeys : BucketOf[j] \in Table!Buckets
    BY HashAssumption DEF Table!Item, Pairs, Table!Buckets
  <1>2. HashLooks /\ (HashInv' => HashLooks')
    BY HashLookup, HashLookupNext
  <1>3. chain[b] \in Seq(Pairs) /\ item[b] \in Pairs \cup {Table!NoItem}
    BY <1>1 DEF HashInv
  <1>4. CASE Table!InsertFree(b, k, v)
    <2>1. /\ b \notin usedFlag /\ usedFlag' = usedFlag \cup {b}
          /\ item' = [item EXCEPT ![b] = Table!Item(k, v)]
          /\ conflictFlag' = conflictFlag /\ chain' = chain
      BY <1>4 DEF Table!InsertFree
    <2>2. HashInv' /\ Framed /\ item'[b] = Table!Item(k, v) /\ b \notin conflictFlag'
      BY <1>1, <2>1 DEF HashInv, Untouched
    <2>3. Answered
      BY <1>1, <1>2, <2>1, <2>2 DEF HashLooks
    <2> QED BY <1>1, <2>2, <2>3, SameAnswer DEF Puts
  <1>5. CASE Table!Replace(b, k, v)
    <2>1. /\ b \in usedFlag \ conflictFlag /\ item[b].key = k
          /\ item' = [item EXCEPT ![b].value = v]
          /\ usedFlag' = usedFlag /\ conflictFlag' = conflictFlag
          /\ chain' = chain
      BY <1>5 DEF Table!Replace
    <2>2. /\ item[b] \in Pairs
          /\ item' = [item EXCEPT ![b] = [item[b] EXCEPT !.value = v]]
      BY <2>1 DEF HashInv
    <2>3. /\ item'[b] \in Pairs /\ item'[b].key = k /\ item'[b].value = v
          /\ \A c \in Table!Buckets \ {b} : item'[c] = item[c]
          /\ item' \in [Table!Buckets -> Pairs \cup {Table!NoItem}]
      BY <1>1, <2>1, <2>2 DEF HashInv, Pairs
    <2>4. HashInv' /\ Framed
      BY <1>1, <2>1, <2>3 DEF HashInv, Untouched
    <2>5. Answered
      BY <1>1, <1>2, <2>1, <2>3, <2>4 DEF HashLooks
    <2> QED BY <1>1, <2>4, <2>5, SameAnswer DEF Puts
  <1>6. CASE Table!Split(b, k, v)
    <2>1. /\ b \in usedFlag \ conflictFlag /\ item[b].key # k
          /\ conflictFlag' = conflictFlag \cup {b}
          /\ chain' = [chain EXCEPT ![b] = <<item[b], Table!Item(k, v)>>]
          /\ usedFlag' = usedFlag /\ item' = item
      BY <1>6 DEF Table!Split, Table!BothItems
    <2>2. /\ item[b] \in Pairs /\ chain'[b] = <<item[b], Table!Item(k, v)>>
          /\ chain'[b] \in Seq(Pairs) /\ KeyOnce(chain'[b])
          /\ \A c \in Table!Buckets \ {b} : chain'[c] = chain[c]
      BY <1>1, <2>1 DEF HashInv, KeyOnce
    <2>3. HashInv' /\ Framed
      BY <1>1, <2>1, <2>2 DEF HashInv, Untouched
    <2>4. Table!Get(k)' = v
      <3>1. 2 \in 1 .. Len(chain'[b]) /\ chain'[b][2] = Table!Item(k, v)
        BY <2>2
      <3> QED BY <1>1, <1>2, <2>1, <2>3, <3>1 DEF HashLooks
    <2>5. ASSUME NEW j \in HashKeys \ {k}, BucketOf[j] = b PROVE Table!Get(j)' = Table!Get(j)
      <3>1. CASE item[b].key = j
        <4>1. 1 \in 1 .. Len(chain'[b]) /\ chain'[b][1] = item[b]
          BY <2>2
        <4> QED BY <1>2, <2>1, <2>3, <2>5, <3>1, <4>1 DEF HashLooks
      <3>2. CASE item[b].key # j
        <4>1. Table!Found(b, j)' = {}
          BY <1>1, <2>2, <3>2 DEF Table!Found
        <4> QED BY <1>2, <2>1, <2>3, <2>5, <3>2, <4>1 DEF HashLooks
      <3> QED BY <3>1, <3>2
    <2> QED BY <1>1, <2>3, <2>4, <2>5, SameAnswer DEF Puts
  <1>7. CASE Table!ReplaceInChain(b, k, v)
    <2>1. /\ b \in conflictFlag /\ Table!Found(b, k) # {}
          /\ chain' = [chain EXCEPT ![b][Table!FirstIn(Table!Found(b, k))].value = v]
          /\ usedFlag' = usedFlag /\ conflictFlag' = conflictFlag
          /\ item' = item
      BY <1>7 DEF Table!ReplaceInChain
    <2>2. PICK i \in 1 .. Len(chain[b]) : chain[b][i].key = k
      BY <1>3, <2>1 DEF Table!Found
    <2>3. Table!FirstIn(Table!Found(b, k)) = i
      BY <1>2, <2>1, <2>2 DEF HashLooks
    <2>4. /\ chain'[b] = [chain[b] EXCEPT ![i] = [chain[b][i] EXCEPT !.value = v]]
          /\ \A c \in Table!Buckets \ {b} : chain'[c] = chain[c]
          /\ DOMAIN chain' = Table!Buckets
      BY <1>1, <2>1, <2>3 DEF HashInv
    <2>5. /\ chain'[b] \in Seq(Pairs) /\ Len(chain'[b]) = Len(chain[b])
          /\ chain'[b][i].key = k /\ chain'[b][i].value = v
          /\ \A x \in 1 .. Len(chain[b]) :
               /\ chain'[b][x].key = chain[b][x].key
               /\ x # i => chain'[b][x] = chain[b][x]
      <3> DEFINE e == [chain[b][i] EXCEPT !.value = v]
      <3>1. chain[b][i] \in Pairs
        BY <1>3, <2>2
      <3>2. e \in Pairs /\ e.key = k /\ e.value = v
        BY <2>2, <3>1 DEF Pairs
      <3>3. chain'[b] = [chain[b] EXCEPT ![i] = e]
        BY <2>4
      <3> HIDE DEF e
      <3>4. /\ chain'[b] \in Seq(Pairs) /\ Len(chain'[b]) = Len(chain[b])
            /\ chain'[b][i] = e
            /\ \A x \in 1 .. Len(chain[b]) : x # i => chain'[b][x] = chain[b][x]
        BY <1>3, <2>2, <3>2, <3>3, ExceptSeq
      <3> QED BY <2>2, <3>2, <3>4
    <2>6. KeyOnce(chain'[b]) /\ chain' \in [Table!Buckets -> Seq(Pairs)]
      <3>1. KeyOnce(chain[b])
        BY <2>1 DEF HashInv
      <3>2. KeyOnce(chain'[b])
        BY <2>5, <3>1 DEF KeyOnce
      <3>3. \A c \in Table!Buckets : chain'[c] \in Seq(Pairs)
        BY <2>4, <2>5 DEF HashInv
      <3>4. chain' = [c \in Table!Buckets |-> chain'[c]]
        BY <2>1 DEF HashInv
      <3> QED BY <3>2, <3>3, <3>4
    <2>7. HashInv' /\ Framed
      BY <1>1, <2>1, <2>4, <2>6 DEF HashInv, Untouched
    <2>c. b \in conflictFlag /\ conflictFlag' = conflictFlag
      BY <2>1
    <2>8. Table!Get(k)' = v
      BY <1>2, <2>c, <2>2, <2>5, <2>7 DEF HashLooks
    <2>9. ASSUME NEW j \in HashKeys \ {k}, BucketOf[j] = b PROVE Table!Get(j)' = Table!Get(j)
      <3>1. CASE Table!Found(b, j) = {}
        <4>1. Table!Found(b, j)' = {}
          BY <1>3, <2>5, <3>1 DEF Table!Found
        <4> QED BY <1>2, <2>c, <2>7, <2>9, <3>1, <4>1 DEF HashLooks
      <3>2. CASE Table!Found(b, j) # {}
        <4>1. PICK x \in 1 .. Len(chain[b]) : chain[b][x].key = j
          BY <1>3, <3>2 DEF Table!Found
        <4>2. chain'[b][x] = chain[b][x] /\ x \in 1 .. Len(chain'[b])
          BY <2>2, <2>5, <4>1
        <4> QED BY <1>2, <2>c, <2>7, <2>9, <4>1, <4>2 DEF HashLooks
      <3> QED BY <3>1, <3>2
    <2> QED BY <1>1, <2>7, <2>8, <2>9, SameAnswer DEF Puts
  <1>8. CASE Table!AppendToChain(b, k, v)
    <2>1. /\ b \in conflictFlag /\ Table!Found(b, k) = {}
          /\ chain' = [chain EXCEPT ![b] = Append(chain[b], Table!Item(k, v))]
          /\ usedFlag' = usedFlag /\ conflictFlag' = conflictFlag
          /\ item' = item
      BY <1>8 DEF Table!AppendToChain
    <2> DEFINE n == Len(chain[b]) + 1
    <2>2. /\ chain'[b] \in Seq(Pairs) /\ Len(chain'[b]) = n
          /\ chain'[b][n] = Table!Item(k, v)
          /\ \A x \in 1 .. Len(chain[b]) : chain'[b][x] = chain[b][x]
          /\ \A c \in Table!Buckets \ {b} : chain'[c] = chain[c]
          /\ chain' \in [Table!Buckets -> Seq(Pairs)]
      BY <1>1, <1>3, <2>1 DEF HashInv
    <2>3. \A x \in 1 .. Len(chain[b]) : chain[b][x].key # k
      BY <1>3, <2>1 DEF Table!Found
    <2>4. KeyOnce(chain'[b])
      BY <1>1, <1>3, <2>1, <2>2, <2>3 DEF HashInv, KeyOnce
    <2>5. HashInv' /\ Framed
      BY <1>1, <2>1, <2>2, <2>4 DEF HashInv, Untouched
    <2>6. Table!Get(k)' = v
      <3>1. n \in 1 .. Len(chain'[b])
        BY <1>3, <2>2
      <3> QED BY <1>1, <1>2, <2>1, <2>2, <2>5, <3>1 DEF HashLooks
    <2>7. ASSUME NEW j \in HashKeys \ {k}, BucketOf[j] = b PROVE Table!Get(j)' = Table!Get(j)
      <3>1. CASE Table!Found(b, j) = {}
        <4>1. Table!Found(b, j)' = {}
          <5>1. DOMAIN chain'[b] = 1 .. Len(chain[b]) + 1
            BY <1>3, <2>2
          <5>2. \A x \in 1 .. Len(chain[b]) : chain'[b][x].key # j
            BY <1>3, <2>2, <3>1 DEF Table!Found
          <5>3. chain'[b][Len(chain[b]) + 1].key # j
            BY <2>2 DEF Table!Item
          <5>4. Len(chain[b]) \in Nat
            BY <1>3
          <5> QED BY <5>1, <5>2, <5>3, <5>4 DEF Table!Found
        <4> QED BY <1>2, <2>1, <2>5, <2>7, <3>1, <4>1 DEF HashLooks
      <3>2. CASE Table!Found(b, j) # {}
        <4>1. PICK x \in 1 .. Len(chain[b]) : chain[b][x].key = j
          BY <1>3, <3>2 DEF Table!Found
        <4>2. chain'[b][x] = chain[b][x] /\ x \in 1 .. Len(chain'[b])
          BY <1>3, <2>2, <4>1
        <4> QED BY <1>2, <2>1, <2>5, <2>7, <4>1, <4>2 DEF HashLooks
      <3> QED BY <3>1, <3>2
    <2> QED BY <1>1, <2>5, <2>6, <2>7, SameAnswer DEF Puts
  <1> QED BY <1>4, <1>5, <1>6, <1>7, <1>8 DEF Table!Insert

\* Deletion gives a key back once if a look-up found it, and never otherwise.
LEMMA DeleteInv ==
  ASSUME HashInv, Table!Delete
  PROVE  HashInv' /\ Table!Map!Release
  <1>1. HashInv'
    BY SameCounts DEF HashInv, Table!Delete, Table!Buckets
  <1>2. \A k \in HashKeys : Table!Get(k)' = NotThere
    BY SameCounts DEF Table!Delete, Table!Get
  <1>3. ASSUME NEW k \in HashKeys
        PROVE  freed'[k] = IF Table!Get(k) = NotThere THEN 0 ELSE 1
    <2> DEFINE b == BucketOf[k]
    <2>1. /\ b \in Table!Buckets /\ HashLooks
          /\ freed'[k] = IF b \in conflictFlag THEN Cardinality(Table!Found(b, k))
                           ELSE IF b \in usedFlag /\ item[b].key = k THEN 1 ELSE 0
      BY <1>3, HashLookup, SameCounts, HashAssumption DEF Table!Delete, Table!Buckets
    <2>2. CASE b \in conflictFlag
      <3>1. CASE Table!Found(b, k) = {}
        BY <1>3, <2>1, <2>2, <3>1, FS_EmptySet DEF HashLooks
      <3>2. CASE Table!Found(b, k) # {}
        <4>1. chain[b] \in Seq(Pairs)
          BY <2>1 DEF HashInv
        <4>2. PICK i \in 1 .. Len(chain[b]) : chain[b][i].key = k
          BY <3>2, <4>1 DEF Table!Found
        <4>3. Table!Found(b, k) = {i} /\ Table!Get(k) = chain[b][i].value
          BY <1>3, <2>1, <2>2, <4>2 DEF HashLooks
        <4>4. Table!Get(k) # NotThere
          <5>1. chain[b][i] \in Pairs
            BY <4>1, <4>2
          <5>2. chain[b][i].value \in HashValues
            BY <5>1 DEF Pairs
          <5> QED BY <4>3, <5>2, HashAssumption DEF Table!Buckets
        <4> QED BY <2>1, <2>2, <4>3, <4>4, FS_Singleton
      <3> QED BY <3>1, <3>2
    <2>3. CASE b \in usedFlag \ conflictFlag
      <3>1. item[b].value # NotThere
        BY <2>3, HashAssumption DEF HashInv, Pairs, Table!Buckets
      <3> QED BY <1>3, <2>1, <2>3, <3>1 DEF HashLooks
    <2>4. CASE b \notin usedFlag
      BY <1>3, <2>1, <2>4 DEF HashLooks, HashInv
    <2> QED BY <2>2, <2>3, <2>4
  <1>4. freed' = [k \in HashKeys |-> IF Table!Get(k) = NotThere THEN 0 ELSE 1]
    BY <1>3, SameCounts DEF Table!Delete
  <1> QED BY <1>1, <1>2, <1>4 DEF Table!Map!Release

LEMMA HashStepInv ==
  ASSUME HashInv, [Table!Next]_Table!vars
  PROVE  HashInv' /\ [Table!Map!Next]_<<[k \in HashKeys |-> Table!Get(k)], freed>>
  <1>1. CASE Table!Delete
    BY <1>1, DeleteInv DEF Table!Map!Next
  <1>2. ASSUME NEW k \in HashKeys, NEW v \in HashValues, Table!Insert(k, v)
        PROVE  HashInv' /\ Table!Map!Put(k, v)
    <2>1. HashInv' /\ Puts(k, v) /\ freed' = freed
      BY <1>2, InsertInv DEF Table!Insert
    <2> QED BY <2>1 DEF Puts, Table!Map!Put
  <1>3. CASE UNCHANGED Table!vars
    <2>1. \A k \in HashKeys : Table!Get(k)' = Table!Get(k)
      BY <1>3 DEF Table!vars, Table!Get, Table!Found
    <2> QED BY <1>3, <2>1 DEF Table!vars, HashInv
  <1> QED BY <1>1, <1>2, <1>3 DEF Table!Next, Table!Map!Next

\* Whatever is inserted and replaced, in whatever order and with whatever
\* collisions, cf_hash_get answers as a map does, and cf_hash_delete frees every
\* key it holds once (cf_hash.c).
THEOREM HashIsMap == Table!Spec => Table!ImplementsMap
  <1>1. Table!Init => HashInv /\ Table!Map!Init
    BY HashInitInv
  <1>2. HashInv /\ [Table!Next]_Table!vars =>
          HashInv' /\ [Table!Map!Next]_<<[k \in HashKeys |-> Table!Get(k)], freed>>
    BY HashStepInv
  <1> QED BY <1>1, <1>2, PTL DEF Table!Spec, Table!ImplementsMap, Table!Map!Spec

-----------------------------------------------------------------------------
\* The dictionary
Once == \A i, j \in Dict!Occupied : key[i] = key[j] => i = j

DictTypes == /\ entries \in Nat
         /\ size \in Nat \ {0}
         /\ key \in [Dict!Slots -> DictKeys \cup {NoKey}]
         /\ val \in [Dict!Slots -> DictValues \cup {Null}]
         /\ hash \in [Dict!Slots -> Nat]
         /\ \A i \in Dict!Occupied : hash[i] = DictHash[key[i]]

DictInv == DictTypes /\ Once /\ Dict!SlotLeft

-----------------------------------------------------------------------------
\* Sets of slots.
LEMMA Smallest ==
  ASSUME NEW S \in SUBSET Nat, S # {}
  PROVE  Dict!First(S) \in S
  <1>1. PICK i \in S : \A j \in S : ~(<<j, i>> \in OpToRel(<, Nat))
    BY NatLessThanWellFounded, WFMin
  <1>2. ASSUME NEW j \in S PROVE i <= j
    <2>1. <<j, i>> \in Nat \X Nat
      OBVIOUS
    <2>2. ~(j < i)
      BY <1>1, <2>1 DEF OpToRel
    <2> QED BY <2>2
  <1> QED BY <1>2 DEF Dict!First

LEMMA OccupiedFinite ==
  ASSUME DictTypes
  PROVE  /\ IsFiniteSet(Dict!Slots) /\ Cardinality(Dict!Slots) = size
         /\ IsFiniteSet(Dict!Occupied) /\ Cardinality(Dict!Occupied) \in Nat
  <1>1. IsFiniteSet(Dict!Slots) /\ Cardinality(Dict!Slots) = size
    <2>1. /\ IsFiniteSet(0 .. size - 1)
          /\ Cardinality(0 .. size - 1) = IF 0 > size - 1 THEN 0 ELSE size - 1 - 0 + 1
      BY FS_Interval DEF DictTypes
    <2> QED BY <2>1 DEF Dict!Slots, DictTypes
  <1>2. Dict!Occupied \in SUBSET Dict!Slots
    BY DEF Dict!Occupied
  <1>3. IsFiniteSet(Dict!Occupied)
    BY <1>1, <1>2, FS_Subset
  <1> QED BY <1>1, <1>3, FS_CardinalityType

\* A slot is free for a new entry, and the search finds it.
LEMMA FreeSlotFree ==
  ASSUME DictTypes, NEW free \in SUBSET Nat, free # {}
  PROVE  Dict!FreeSlot(free) \in free
  <1>1. CASE \E i \in free : i >= entries
    <2>1. Dict!First({i \in free : i >= entries}) \in {i \in free : i >= entries}
      BY <1>1, Smallest
    <2> QED BY <1>1, <2>1 DEF Dict!FreeSlot
  <1>2. CASE ~ \E i \in free : i >= entries
    BY <1>2, Smallest DEF Dict!FreeSlot
  <1> QED BY <1>1, <1>2

\* A search for a key finds one slot or none.
LEMMA OneMatch ==
  ASSUME DictTypes, Once, NEW k \in DictKeys, NEW i \in Dict!Occupied, key[i] = k
  PROVE  Dict!Matches(k) = {i} /\ Dict!First(Dict!Matches(k)) = i /\ Dict!Get(k) = val[i]
  <1>1. Dict!Matches(k) = {i}
    BY DEF Dict!Matches, Once, DictTypes
  <1>2. Dict!First({i}) = i
    BY DEF Dict!First
  <1> QED BY <1>1, <1>2 DEF Dict!Get

LEMMA NoMatch ==
  ASSUME DictTypes, NEW k \in DictKeys, \A i \in Dict!Occupied : key[i] # k
  PROVE  Dict!Matches(k) = {} /\ Dict!Get(k) = Default
  BY DEF Dict!Matches, Dict!Get

\* What a look-up answers.
DictLooks == \A k \in DictKeys :
           /\ \A x \in Dict!Occupied : key[x] = k =>
                Dict!Get(k) = val[x] /\ Dict!Matches(k) = {x} /\ Dict!First(Dict!Matches(k)) = x
           /\ (\A x \in Dict!Occupied : key[x] # k) => Dict!Get(k) = Default /\ Dict!Matches(k) = {}

LEMMA DictLookup == DictInv => DictLooks
  BY OneMatch, NoMatch DEF DictInv, DictLooks

LEMMA DictLookupNext == DictInv' => DictLooks'
  BY DictLookup, PTL

LEMMA DictInitInv == Dict!Init => DictInv /\ Dict!Map!Init
  <1> SUFFICES ASSUME Dict!Init PROVE DictInv /\ Dict!Map!Init
    OBVIOUS
  <1>1. DictTypes /\ Dict!Occupied = {}
    BY DictionaryAssumption DEF Dict!Init, DictTypes, Dict!Slots, Dict!Occupied
  <1>2. Cardinality(Dict!Occupied) = 0
    BY <1>1, FS_EmptySet
  <1>3. DictInv
    BY <1>1, <1>2, SameCounts, DictionaryAssumption DEF DictInv, Once, Dict!SlotLeft, Dict!Init
  <1>4. \A k \in DictKeys : Dict!Get(k) = Default
    BY <1>1, <1>3, DictLookup DEF DictLooks
  <1> QED BY <1>3, <1>4 DEF Dict!Init, Dict!Map!Init

\* A call that keeps the answers for all other keys, and gives k the answer a.
Answers(k, a) ==
  /\ Dict!Get(k)' = a
  /\ \A j \in DictKeys \ {k} : Dict!Get(j)' = Dict!Get(j)

LEMMA ModifyInv ==
  ASSUME DictInv, NEW k \in DictKeys, NEW v \in DictValues \cup {Null}, Dict!Modify(k, v)
  PROVE  DictInv' /\ Answers(k, v)
  <1>1. DictLooks /\ (DictInv' => DictLooks')
    BY DictLookup, DictLookupNext
  <1>2. PICK i \in Dict!Occupied : key[i] = k
    BY <1>1 DEF Dict!Modify, DictLooks
  <1>3. /\ val' = [val EXCEPT ![i] = v] /\ UNCHANGED <<entries, size, key, hash>>
        /\ i \in Dict!Slots
    BY <1>1, <1>2 DEF Dict!Modify, DictLooks, Dict!Occupied
  <1>4. Dict!Slots' = Dict!Slots /\ Dict!Occupied' = Dict!Occupied
    BY <1>3 DEF Dict!Slots, Dict!Occupied
  <1>5. DictInv'
    BY <1>3, <1>4, SameCounts DEF DictInv, DictTypes, Once, Dict!SlotLeft
  <1>6. /\ val'[i] = v
        /\ \A x \in Dict!Occupied \ {i} : val'[x] = val[x]
    BY <1>3 DEF DictInv, DictTypes, Dict!Occupied
  <1>7. Dict!Get(k)' = v
    BY <1>1, <1>2, <1>3, <1>4, <1>5, <1>6 DEF DictLooks
  <1>8. ASSUME NEW j \in DictKeys \ {k} PROVE Dict!Get(j)' = Dict!Get(j)
    BY <1>1, <1>2, <1>3, <1>4, <1>5, <1>6 DEF DictLooks
  <1> QED BY <1>5, <1>7, <1>8 DEF Answers

\* A new entry goes to a slot that holds none, at either end of the array or in a
\* hole, and is there if its key could be copied.
LEMMA AddInv ==
  ASSUME DictInv, NEW k \in DictKeys, NEW stored \in {k, NoKey},
         NEW v \in DictValues \cup {Null}, Dict!Add(k, stored, v)
  PROVE  /\ DictInv'
         /\ stored = k => Answers(k, v)
         /\ stored = NoKey => \A j \in DictKeys : Dict!Get(j)' = Dict!Get(j)
  <1> DEFINE grow == entries = size
             free == IF grow THEN size .. 2 * size - 1 ELSE Dict!Slots \ Dict!Occupied
             i == Dict!FreeSlot(free)
  <1>1. /\ size' = IF grow THEN 2 * size ELSE size
        /\ key' = [IF grow THEN Dict!Wider(key, NoKey) ELSE key EXCEPT ![i] = stored]
        /\ val' = [IF grow THEN Dict!Wider(val, Null) ELSE val EXCEPT ![i] = v]
        /\ hash' = [IF grow THEN Dict!Wider(hash, 0) ELSE hash EXCEPT ![i] = DictHash[k]]
        /\ entries' = entries + 1 /\ Dict!Matches(k) = {}
    BY DEF Dict!Add
  <1>2. DictLooks /\ (DictInv' => DictLooks') /\ DictTypes /\ Once /\ Dict!SlotLeft
    BY DictLookup, DictLookupNext DEF DictInv
  <1>3. \A x \in Dict!Occupied : key[x] # k
    BY <1>1, <1>2 DEF DictLooks
  <1>4. free \in SUBSET Nat /\ free # {}
    <2>1. CASE grow
      <3>1. size \in Nat \ {0}
        BY <1>2 DEF DictTypes
      <3>2. free = size .. 2 * size - 1
        BY <2>1
      <3>3. size \in size .. 2 * size - 1 /\ size .. 2 * size - 1 \subseteq Nat
        BY <3>1
      <3> QED BY <3>2, <3>3
    <2>2. CASE ~grow
      <3>1. Dict!Occupied # Dict!Slots
        BY <1>2, <2>2, OccupiedFinite, SameCounts DEF Dict!SlotLeft, DictTypes
      <3> QED BY <1>2, <2>2, <3>1 DEF Dict!Occupied, Dict!Slots, DictTypes
    <2> QED BY <2>1, <2>2
  <1>5. i \in free
    BY <1>2, <1>4, FreeSlotFree
  <1> HIDE DEF i
  <1>6. /\ i \in Dict!Slots' /\ i \notin Dict!Occupied
        /\ Dict!Slots \subseteq Dict!Slots'
        /\ size' \in Nat \ {0}
    <2>1. size \in Nat \ {0} /\ Dict!Slots = 0 .. size - 1 /\ Dict!Occupied \subseteq Dict!Slots
      BY <1>2 DEF DictTypes, Dict!Slots, Dict!Occupied
    <2>2. CASE grow
      <3>1. size' = 2 * size /\ Dict!Slots' = 0 .. 2 * size - 1 /\ i \in size .. 2 * size - 1
        BY <1>1, <1>5, <2>2 DEF Dict!Slots
      <3>2. i \notin Dict!Slots /\ i \in Dict!Slots' /\ Dict!Slots \subseteq Dict!Slots'
        BY <2>1, <3>1
      <3> QED BY <2>1, <3>1, <3>2
    <2>3. CASE ~grow
      <3>1. size' = size /\ Dict!Slots' = Dict!Slots /\ i \in Dict!Slots \ Dict!Occupied
        BY <1>1, <1>5, <2>3 DEF Dict!Slots
      <3> QED BY <2>1, <3>1
    <2> QED BY <2>2, <2>3
  <1>7. /\ key' \in [Dict!Slots' -> DictKeys \cup {NoKey}]
        /\ key'[i] = stored
        /\ \A x \in Dict!Slots \ {i} : key'[x] = key[x]
        /\ \A x \in Dict!Slots' \ (Dict!Slots \cup {i}) : key'[x] = NoKey
    BY <1>1, <1>2, <1>6 DEF DictTypes, Dict!Wider, Dict!Slots
  <1>8. /\ val' \in [Dict!Slots' -> DictValues \cup {Null}]
        /\ val'[i] = v
        /\ \A x \in Dict!Slots \ {i} : val'[x] = val[x]
    BY <1>1, <1>2, <1>6 DEF DictTypes, Dict!Wider, Dict!Slots
  <1>9. /\ hash' \in [Dict!Slots' -> Nat]
        /\ hash'[i] = DictHash[k]
        /\ \A x \in Dict!Slots \ {i} : hash'[x] = hash[x]
    BY <1>1, <1>2, <1>6, DictionaryAssumption DEF DictTypes, Dict!Wider, Dict!Slots
  <1>10. /\ Dict!Occupied \subseteq Dict!Slots \ {i}
         /\ Dict!Occupied' = IF stored = NoKey THEN Dict!Occupied ELSE Dict!Occupied \cup {i}
    BY <1>6, <1>7 DEF Dict!Occupied
  <1>11. DictTypes'
    <2>1. \A x \in Dict!Occupied' : hash'[x] = DictHash[key'[x]]
      BY <1>2, <1>7, <1>9, <1>10 DEF DictTypes
    <2> QED BY <1>1, <1>2, <1>6, <1>7, <1>8, <1>9, <2>1 DEF DictTypes
  <1>12. Once'
    <2> SUFFICES ASSUME NEW x \in Dict!Occupied', NEW y \in Dict!Occupied', key'[x] = key'[y]
                 PROVE  x = y
      BY DEF Once
    <2> QED BY <1>2, <1>3, <1>7, <1>10 DEF Once
  <1>13. Dict!SlotLeft'
    <2>1. IsFiniteSet(Dict!Occupied) /\ Cardinality(Dict!Occupied) \in Nat
      BY <1>2, OccupiedFinite
    <2>2. Cardinality(Dict!Occupied \cup {i}) = Cardinality(Dict!Occupied) + 1
      BY <1>6, <2>1, FS_AddElement
    <2>3. \/ Cardinality(Dict!Occupied') = Cardinality(Dict!Occupied)
          \/ Cardinality(Dict!Occupied') = Cardinality(Dict!Occupied) + 1
      BY <1>10, <2>2
    <2> QED BY <1>1, <1>2, <2>1, <2>3, SameCounts DEF Dict!SlotLeft, DictTypes
  <1>14. DictInv' /\ DictLooks'
    BY <1>2, <1>11, <1>12, <1>13 DEF DictInv
  <1>15. ASSUME NEW j \in DictKeys, stored # j PROVE Dict!Get(j)' = Dict!Get(j)
    <2>1. CASE \A x \in Dict!Occupied : key[x] # j
      <3>1. \A x \in Dict!Occupied' : key'[x] # j
        BY <1>7, <1>10, <1>15, <2>1
      <3> QED BY <1>2, <1>14, <2>1, <3>1 DEF DictLooks
    <2>2. CASE \E x \in Dict!Occupied : key[x] = j
      <3>1. PICK x \in Dict!Occupied : key[x] = j
        BY <2>2
      <3>2. x \in Dict!Occupied' /\ key'[x] = j /\ val'[x] = val[x]
        BY <1>7, <1>8, <1>10, <3>1
      <3> QED BY <1>2, <1>14, <3>1, <3>2 DEF DictLooks
    <2> QED BY <2>1, <2>2
  <1>16. CASE stored = k
    <2>1. i \in Dict!Occupied' /\ key'[i] = k
      BY <1>7, <1>10, <1>16, DictionaryAssumption
    <2>2. Dict!Get(k)' = v
      BY <1>8, <1>14, <2>1 DEF DictLooks
    <2> QED BY <1>14, <1>15, <1>16, <2>2, DictionaryAssumption DEF Answers
  <1>17. CASE stored = NoKey
    BY <1>14, <1>15, <1>17, DictionaryAssumption
  <1> QED BY <1>16, <1>17

LEMMA UnsetInv ==
  ASSUME DictInv, NEW k \in DictKeys, Dict!Unset(k)
  PROVE  DictInv' /\ Answers(k, Default)
  <1>1. DictLooks /\ (DictInv' => DictLooks') /\ DictTypes /\ Once /\ Dict!SlotLeft
    BY DictLookup, DictLookupNext DEF DictInv
  <1>2. PICK i \in Dict!Occupied : key[i] = k
    BY <1>1 DEF Dict!Unset, DictLooks
  <1>3. Dict!First(Dict!Matches(k)) = i
    BY <1>1, <1>2 DEF DictLooks
  <1>4. /\ key' = [key EXCEPT ![i] = NoKey]
        /\ val' = [val EXCEPT ![i] = Null]
        /\ hash' = [hash EXCEPT ![i] = 0]
        /\ entries' = entries - 1 /\ size' = size /\ i \in Dict!Slots
    BY <1>3 DEF Dict!Unset, Dict!Occupied
  <1>5. Dict!Slots' = Dict!Slots /\ Dict!Occupied' = Dict!Occupied \ {i}
    BY <1>1, <1>4 DEF Dict!Slots, Dict!Occupied, DictTypes
  <1>6. \A x \in Dict!Occupied' : /\ key'[x] = key[x] /\ val'[x] = val[x]
                                  /\ hash'[x] = hash[x]
    BY <1>1, <1>4, <1>5 DEF DictTypes, Dict!Occupied
  <1>7. /\ Cardinality(Dict!Occupied') = Cardinality(Dict!Occupied) - 1
        /\ Cardinality(Dict!Occupied') \in Nat
    BY <1>1, <1>2, <1>5, OccupiedFinite, FS_RemoveElement, FS_CardinalityType
  <1>8. entries' \in Nat /\ Dict!SlotLeft'
    BY <1>1, <1>4, <1>7, OccupiedFinite, SameCounts DEF Dict!SlotLeft, DictTypes
  <1>9. DictTypes' /\ Once'
    BY <1>1, <1>4, <1>5, <1>6, <1>8 DEF DictTypes, Once
  <1>10. DictInv' /\ DictLooks'
    BY <1>1, <1>8, <1>9 DEF DictInv
  <1>11. Dict!Get(k)' = Default
    BY <1>1, <1>2, <1>5, <1>6, <1>10 DEF DictLooks, Once
  <1>12. ASSUME NEW j \in DictKeys \ {k} PROVE Dict!Get(j)' = Dict!Get(j)
    BY <1>1, <1>2, <1>5, <1>6, <1>10 DEF DictLooks
  <1> QED BY <1>10, <1>11, <1>12 DEF Answers

LEMMA DelInv ==
  ASSUME DictInv, Dict!Del
  PROVE  DictInv' /\ Dict!Map!Release
  <1>1. DictLooks /\ (DictInv' => DictLooks') /\ DictTypes
    BY DictLookup, DictLookupNext DEF DictInv
  <1>2. /\ entries' = 0 /\ size' = size /\ Dict!Slots' = Dict!Slots
        /\ key' = [x \in Dict!Slots |-> NoKey]
        /\ val' = [x \in Dict!Slots |-> Null]
        /\ hash' = [x \in Dict!Slots |-> 0]
        /\ deleted' = [k \in DictKeys |-> Cardinality({x \in Dict!Occupied : key[x] = k})]
    BY SameCounts DEF Dict!Del, Dict!Slots
  <1>3. Dict!Occupied' = {}
    BY <1>2 DEF Dict!Occupied
  <1>4. Cardinality(Dict!Occupied') = 0
    BY <1>3, FS_EmptySet
  <1>5. DictInv' /\ DictLooks'
    BY <1>1, <1>2, <1>3, <1>4, SameCounts DEF DictInv, DictTypes, Once, Dict!SlotLeft
  <1>6. \A k \in DictKeys : Dict!Get(k)' = Default
    BY <1>3, <1>5 DEF DictLooks
  <1>7. ASSUME NEW k \in DictKeys
        PROVE  Cardinality({x \in Dict!Occupied : key[x] = k}) =
                 IF Dict!Get(k) = Default THEN 0 ELSE 1
    <2>1. CASE \A x \in Dict!Occupied : key[x] # k
      <3>1. {x \in Dict!Occupied : key[x] = k} = {} /\ Dict!Get(k) = Default
        BY <1>1, <2>1 DEF DictLooks
      <3> QED BY <3>1, FS_EmptySet
    <2>2. CASE \E x \in Dict!Occupied : key[x] = k
      <3>1. PICK i \in Dict!Occupied : key[i] = k
        BY <2>2
      <3>2. {x \in Dict!Occupied : key[x] = k} = {i}
        BY <3>1 DEF DictInv, Once
      <3>3. Dict!Get(k) # Default
        BY <1>1, <3>1, DictionaryAssumption DEF DictLooks, DictTypes, Dict!Occupied
      <3> QED BY <3>2, <3>3, FS_Singleton
    <2> QED BY <2>1, <2>2
  <1> QED BY <1>2, <1>5, <1>6, <1>7 DEF Dict!Map!Release

LEMMA DictStepInv ==
  ASSUME DictInv, [Dict!Next]_Dict!vars
  PROVE  DictInv' /\ [Dict!Map!Next]_<<[k \in DictKeys |-> Dict!Get(k)], deleted>>
  <1>1. CASE Dict!Del
    BY <1>1, DelInv DEF Dict!Map!Next
  <1>2. ASSUME NEW k \in DictKeys, Dict!Unset(k)
        PROVE  DictInv' /\ Dict!Map!Remove(k)
    BY <1>2, UnsetInv DEF Answers, Dict!Unset, Dict!Map!Remove
  <1>3. ASSUME NEW k \in DictKeys, NEW v \in DictValues \cup {Null}, Dict!Modify(k, v)
        PROVE  DictInv' /\ Dict!Map!Put(k, v)
    BY <1>3, ModifyInv DEF Answers, Dict!Modify, Dict!Map!Put
  <1>4. ASSUME NEW k \in DictKeys, NEW v \in DictValues \cup {Null}, Dict!Add(k, k, v)
        PROVE  DictInv' /\ Dict!Map!Put(k, v)
    BY <1>4, AddInv DEF Answers, Dict!Add, Dict!Map!Put
  <1>5. ASSUME NEW k \in DictKeys, NEW v \in DictValues \cup {Null}, Dict!Add(k, NoKey, v)
        PROVE  DictInv' /\ UNCHANGED <<[j \in DictKeys |-> Dict!Get(j)], deleted>>
    BY <1>5, AddInv DEF Dict!Add
  <1>6. CASE UNCHANGED Dict!vars
    <2>1. \A k \in DictKeys : Dict!Get(k)' = Dict!Get(k)
      BY <1>6 DEF Dict!vars, Dict!Get, Dict!Matches, Dict!First, Dict!Occupied, Dict!Slots
    <2> QED
      BY <1>6, <2>1, SameCounts DEF Dict!vars, DictInv, DictTypes, Once, Dict!SlotLeft, Dict!Occupied, Dict!Slots
  <1> QED BY <1>1, <1>2, <1>3, <1>4, <1>5, <1>6 DEF Dict!Next, Dict!Set, Dict!Map!Next

\* The count of a dictionary bounds its entries, so that the search for an empty
\* slot has an end whatever was set, unset, grown or failed before
\* (dictionary.c:289-294).
THEOREM SlotIsLeft == Dict!Spec => []Dict!SlotLeft
  <1>1. Dict!Init => DictInv
    BY DictInitInv
  <1>2. DictInv /\ [Dict!Next]_Dict!vars => DictInv'
    BY DictStepInv
  <1>3. DictInv => Dict!SlotLeft
    BY DEF DictInv
  <1> QED BY <1>1, <1>2, <1>3, PTL DEF Dict!Spec

\* A dictionary answers as a map does, through holes, growth, colliding hashes and
\* failed copies, and frees each key it holds once (dictionary.c).
THEOREM DictionaryIsMap == Dict!Spec => Dict!ImplementsMap
  <1>1. Dict!Init => DictInv /\ Dict!Map!Init
    BY DictInitInv
  <1>2. DictInv /\ [Dict!Next]_Dict!vars =>
          DictInv' /\ [Dict!Map!Next]_<<[k \in DictKeys |-> Dict!Get(k)], deleted>>
    BY DictStepInv
  <1> QED BY <1>1, <1>2, PTL DEF Dict!Spec, Dict!ImplementsMap, Dict!Map!Spec

\* What is put into a table is found and given back, and a dictionary that is not
\* full says so (cf_hash.c, dictionary.c): the three theorems above.
THEOREM TablesAnswerAsMaps == Table!Spec /\ Dict!Spec => TablesAreMaps
  BY HashIsMap, DictionaryIsMap, SlotIsLeft, PTL DEF TablesAreMaps
=============================================================================
