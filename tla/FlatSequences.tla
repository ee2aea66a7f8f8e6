---------------------------- MODULE FlatSequences ----------------------------
(***************************************************************************)
(* Facts that proofs about streams, texts and lists share: recursion over  *)
(* an interval, FlattenSeq of SequencesExt, which puts sequences one behind*)
(* the other, and a sequence without its last element.                     *)
(***************************************************************************)
EXTENDS Integers, Sequences, SequenceTheorems, WellFoundedInduction, TLAPS

Ext == INSTANCE SequencesExt

-----------------------------------------------------------------------------
(***************************************************************************)
(* Recursive functions over an interval.  Sets of numbers stand in for     *)
(* predicates: one that has 0 and the successor of each number it has      *)
(* below n has n.                                                          *)
(***************************************************************************)
LEMMA Upward ==
  ASSUME NEW n \in Nat, NEW T, 0 \in T, \A i \in 0 .. n - 1 : i \in T => i + 1 \in T
  PROVE  n \in T
<1> DEFINE U == {i \in 0 .. n : i \notin T}
<1>1. SUFFICES ASSUME U # {} PROVE FALSE
  <2>1. n \in 0 .. n
    OBVIOUS
  <2> QED BY <2>1
<1>2. U \subseteq Nat
  OBVIOUS
<1>3. PICK x \in U : \A y \in U : ~(<<y, x>> \in OpToRel(<, Nat))
  BY <1>1, <1>2, NatLessThanWellFounded, WFMin
<1>4. x \in 0 .. n /\ x # 0
  OBVIOUS
<1>5. x - 1 \in 0 .. n - 1 /\ (x - 1) + 1 = x
  BY <1>4
<1>6. x - 1 \in U
  BY <1>4, <1>5
<1>7. <<x - 1, x>> \in OpToRel(<, Nat)
  BY <1>4 DEF OpToRel
<1> QED BY <1>3, <1>6, <1>7

Iterates(g, S, a, n, f) == /\ g \in [0 .. n -> S] /\ g[0] = a
                           /\ \A i \in 1 .. n : g[i] = f[<<i, g[i - 1]>>]

LEMMA Recursion ==
  ASSUME NEW S, NEW a \in S, NEW n \in Nat, NEW f \in [(1 .. n) \X S -> S]
  PROVE  \E g : Iterates(g, S, a, n, f)
<1> DEFINE T == {m \in Nat : \E g : Iterates(g, S, a, m, f)}
<1>1. 0 \in T
  <2> DEFINE g == [i \in 0 .. 0 |-> a]
  <2>1. Iterates(g, S, a, 0, f)
    BY DEF Iterates
  <2> QED BY <2>1
<1>2. ASSUME NEW m \in 0 .. n - 1, m \in T PROVE m + 1 \in T
  <2>1. PICK g : Iterates(g, S, a, m, f)
    BY <1>2
  <2> DEFINE h == [i \in 0 .. m + 1 |-> IF i = m + 1 THEN f[<<m + 1, g[m]>>] ELSE g[i]]
  <2>2. g[m] \in S /\ f[<<m + 1, g[m]>>] \in S
    BY <2>1 DEF Iterates
  <2>3. h \in [0 .. m + 1 -> S] /\ h[0] = a
    BY <2>1, <2>2 DEF Iterates
  <2>4. ASSUME NEW i \in 1 .. m + 1 PROVE h[i] = f[<<i, h[i - 1]>>]
    <3>1. CASE i = m + 1
      <4>1. h[m] = g[m] /\ h[m + 1] = f[<<m + 1, g[m]>>] /\ (m + 1) - 1 = m
        OBVIOUS
      <4> HIDE DEF h
      <4> QED BY <3>1, <4>1
    <3>2. CASE i # m + 1
      <4>1. i \in 1 .. m /\ h[i] = g[i] /\ h[i - 1] = g[i - 1]
        BY <3>2
      <4> HIDE DEF h
      <4> QED BY <2>1, <4>1 DEF Iterates
    <3> QED BY <3>1, <3>2
  <2> HIDE DEF h
  <2>5. Iterates(h, S, a, m + 1, f)
    BY <2>3, <2>4 DEF Iterates
  <2> QED BY <2>5
<1>3. n \in T
  <2> HIDE DEF T
  <2> QED BY <1>1, <1>2, Upward
<1> QED BY <1>3

-----------------------------------------------------------------------------
(***************************************************************************)
(* FlattenSeq.                                                             *)
(***************************************************************************)
Sums(g, s, X) == /\ g \in [0 .. Len(s) -> Seq(X)] /\ g[0] = <<>>
                 /\ \A i \in 1 .. Len(s) : g[i] = g[i - 1] \o s[i]

LEMMA HasSums == ASSUME NEW X, NEW s \in Seq(Seq(X)) PROVE \E g : Sums(g, s, X)
<1> DEFINE n == Len(s)
           Y == Seq(X)
           a == <<>>
           f == [p \in (1 .. n) \X Y |-> p[2] \o s[p[1]]]
<1>1. f \in [(1 .. n) \X Y -> Y] /\ n \in Nat /\ a \in Y
  OBVIOUS
<1> HIDE DEF f, n, Y, a
<1>2. PICK g : Iterates(g, Y, a, n, f)
  BY <1>1, Recursion
<1>3. g \in [0 .. n -> Y] /\ g[0] = a
  BY <1>2 DEF Iterates
<1>4. ASSUME NEW i \in 1 .. n PROVE g[i] = g[i - 1] \o s[i]
  <2>1. i - 1 \in 0 .. n /\ g[i] = f[<<i, g[i - 1]>>]
    BY <1>1, <1>2 DEF Iterates
  <2> QED BY <1>3, <2>1 DEF f, n, Y
<1> QED BY <1>3, <1>4 DEF Sums, n, Y, a

Flattens(F, s) == \A i \in 1 .. Len(s) : F[i] = IF i = 1 THEN s[i] ELSE F[i - 1] \o s[i]

LEMMA SumsSame ==
  ASSUME NEW X, NEW s \in Seq(Seq(X)), NEW g, NEW F, Sums(g, s, X), Flattens(F, s)
  PROVE \A i \in 1 .. Len(s) : F[i] = g[i]
<1> DEFINE n == Len(s)
           T == {i \in 0 .. n : i = 0 \/ F[i] = g[i]}
<1>0. n \in Nat
  OBVIOUS
<1>1. 0 \in T
  BY <1>0
<1>2. ASSUME NEW i \in 0 .. n - 1, i \in T PROVE i + 1 \in T
  <2>1. i + 1 \in 1 .. n /\ (i + 1) - 1 = i /\ s[i + 1] \in Seq(X)
    BY <1>0
  <2>2. g[i + 1] = g[i] \o s[i + 1] /\ g[0] = <<>>
    BY <2>1, Zenon DEF Sums
  <2>3. F[i + 1] = IF i + 1 = 1 THEN s[i + 1] ELSE F[i] \o s[i + 1]
    BY <2>1, Zenon DEF Flattens
  <2>4. CASE i = 0
    <3>1. i + 1 = 1 /\ <<>> \o s[i + 1] = s[i + 1]
      BY <2>1, <2>4
    <3>2. F[i + 1] = g[i + 1]
      BY <2>2, <2>3, <2>4, <3>1, Zenon
    <3> QED BY <2>1, <3>2
  <2>5. CASE i # 0
    <3>1. i + 1 # 1 /\ F[i] = g[i]
      BY <1>2, <2>5
    <3>2. F[i + 1] = g[i + 1]
      BY <2>2, <2>3, <3>1, Zenon
    <3> QED BY <2>1, <3>2
  <2> QED BY <2>4, <2>5
<1>3. ASSUME NEW k \in 1 .. n PROVE F[k] = g[k]
  <2>1. k \in Nat /\ k # 0
    BY <1>0
  <2>2. \A i \in 0 .. k - 1 : i \in T => i + 1 \in T
    BY <1>0, <1>2
  <2> HIDE DEF T
  <2>3. k \in T
    BY <1>1, <2>1, <2>2, Upward
  <2> QED BY <2>1, <2>3 DEF T
<1> QED BY <1>3

LEMMA SumsAgree ==
  ASSUME NEW X, NEW s \in Seq(Seq(X)), NEW g, Sums(g, s, X) PROVE Ext!FlattenSeq(s) = g[Len(s)]
<1> DEFINE n == Len(s)
           F(h) == [i \in 1 .. n |-> IF i = 1 THEN s[i] ELSE h[i - 1] \o s[i]]
           flat == CHOOSE h : h = F(h)
<1>0. n \in Nat /\ g[0] = <<>> /\ \A i \in 1 .. n : g[i] = g[i - 1] \o s[i]
  <2>1. n \in Nat
    OBVIOUS
  <2>2. g[0] = <<>> /\ \A i \in 1 .. n : g[i] = g[i - 1] \o s[i]
    BY Zenon DEF Sums
  <2> QED BY <2>1, <2>2
<1>1. CASE n = 0
  <2>1. Ext!FlattenSeq(s) = s /\ s = <<>>
    BY <1>1 DEF Ext!FlattenSeq
  <2> QED BY <1>0, <1>1, <2>1
<1>2. CASE n # 0
  <2>1. Ext!FlattenSeq(s) = flat[n]
    BY <1>2 DEF Ext!FlattenSeq
  <2> DEFINE h == [i \in 1 .. n |-> g[i]]
  <2>2. h = F(h)
    <3>1. ASSUME NEW i \in 1 .. n PROVE g[i] = IF i = 1 THEN s[i] ELSE h[i - 1] \o s[i]
      <4>1. CASE i = 1
        <5>1. s[i] \in Seq(X) /\ i - 1 = 0
          BY <4>1
        <5>2. <<>> \o s[i] = s[i]
          BY <5>1
        <5>3. g[i] = g[i - 1] \o s[i]
          BY <1>0
        <5>4. g[i] = s[i]
          BY <1>0, <5>1, <5>2, <5>3, Zenon
        <5> QED BY <4>1, <5>4
      <4>2. CASE i # 1
        <5>1. h[i - 1] = g[i - 1]
          BY <4>2
        <5>2. g[i] = g[i - 1] \o s[i]
          BY <1>0
        <5> HIDE DEF h
        <5> QED BY <4>2, <5>1, <5>2, Zenon
      <4> QED BY <4>1, <4>2
    <3> QED BY <3>1
  <2> HIDE DEF h
  <2>3. flat = F(flat)
    BY <2>2
  <2> HIDE DEF flat
  <2>4. Flattens(flat, s)
    BY <2>3 DEF Flattens
  <2>5. \A i \in 1 .. n : flat[i] = g[i]
    BY <2>4, SumsSame
  <2>6. n \in 1 .. n
    BY <1>0, <1>2
  <2> QED BY <2>1, <2>5, <2>6
<1> QED BY <1>1, <1>2

LEMMA FlatNone == Ext!FlattenSeq(<<>>) = <<>>
  BY DEF Ext!FlattenSeq

LEMMA FlatType == ASSUME NEW X, NEW s \in Seq(Seq(X)) PROVE Ext!FlattenSeq(s) \in Seq(X)
<1>1. PICK g : Sums(g, s, X)
  BY HasSums
<1>2. Len(s) \in 0 .. Len(s)
  OBVIOUS
<1>3. g[Len(s)] \in Seq(X)
  BY <1>1, <1>2 DEF Sums
<1> QED BY <1>1, <1>3, SumsAgree

LEMMA FlatAppend ==
  ASSUME NEW X, NEW s \in Seq(Seq(X)), NEW x \in Seq(X)
  PROVE  Ext!FlattenSeq(Append(s, x)) = Ext!FlattenSeq(s) \o x
<1> DEFINE t == Append(s, x)
<1>1. t \in Seq(Seq(X)) /\ Len(t) = Len(s) + 1 /\ t[Len(t)] = x
      /\ (\A i \in 1 .. Len(s) : t[i] = s[i]) /\ Len(s) \in Nat
  OBVIOUS
<1> HIDE DEF t
<1>2. PICK g : Sums(g, t, X)
  BY <1>1, HasSums
<1> DEFINE h == [i \in 0 .. Len(s) |-> g[i]]
<1>3. Sums(h, s, X)
  <2>1. h \in [0 .. Len(s) -> Seq(X)] /\ h[0] = <<>>
    BY <1>1, <1>2 DEF Sums
  <2>2. ASSUME NEW i \in 1 .. Len(s) PROVE h[i] = h[i - 1] \o s[i]
    <3>1. h[i] = g[i] /\ h[i - 1] = g[i - 1] /\ i \in 1 .. Len(t) /\ t[i] = s[i]
      BY <1>1
    <3>2. g[i] = g[i - 1] \o t[i]
      BY <1>2, <3>1 DEF Sums
    <3> HIDE DEF h
    <3> QED BY <3>1, <3>2, Zenon
  <2> HIDE DEF h
  <2> QED BY <2>1, <2>2 DEF Sums
<1>4. g[Len(t)] = h[Len(s)] \o x
  <2>1. h[Len(s)] = g[Len(s)] /\ Len(t) \in 1 .. Len(t) /\ Len(t) - 1 = Len(s)
    BY <1>1
  <2>2. g[Len(t)] = g[Len(t) - 1] \o t[Len(t)]
    BY <1>2, <2>1 DEF Sums
  <2> HIDE DEF h
  <2> QED BY <1>1, <2>1, <2>2, Zenon
<1> HIDE DEF h
<1>5. Ext!FlattenSeq(t) = g[Len(t)] /\ Ext!FlattenSeq(s) = h[Len(s)]
  BY <1>1, <1>2, <1>3, SumsAgree
<1> QED BY <1>4, <1>5 DEF t

LEMMA FlatOne == ASSUME NEW X, NEW x \in Seq(X) PROVE Ext!FlattenSeq(<<x>>) = x
<1>1. <<>> \in Seq(Seq(X)) /\ Append(<<>>, x) = <<x>> /\ <<>> \o x = x
  OBVIOUS
<1> QED BY <1>1, FlatNone, FlatAppend

LEMMA FlatConcat ==
  ASSUME NEW X, NEW s \in Seq(Seq(X)), NEW t \in Seq(Seq(X))
  PROVE  Ext!FlattenSeq(s \o t) = Ext!FlattenSeq(s) \o Ext!FlattenSeq(t)
<1> DEFINE At(k) == SubSeq(t, 1, k)
           T == {k \in 0 .. Len(t) :
                   Ext!FlattenSeq(s \o At(k)) = Ext!FlattenSeq(s) \o Ext!FlattenSeq(At(k))}
<1>1. 0 \in T
  <2>1. At(0) = <<>> /\ s \o <<>> = s /\ 0 \in 0 .. Len(t)
    OBVIOUS
  <2>2. Ext!FlattenSeq(s) \in Seq(X)
    BY FlatType
  <2>3. Ext!FlattenSeq(s) \o <<>> = Ext!FlattenSeq(s)
    BY <2>2
  <2> QED BY <2>1, <2>3, FlatNone
<1>2. ASSUME NEW k \in 0 .. Len(t) - 1, k \in T PROVE k + 1 \in T
  <2>1. At(k) \in Seq(Seq(X)) /\ t[k + 1] \in Seq(X) /\ s \o At(k) \in Seq(Seq(X))
        /\ At(k + 1) = Append(At(k), t[k + 1])
    OBVIOUS
  <2>2. s \o At(k + 1) = Append(s \o At(k), t[k + 1])
    <3> DEFINE p == At(k)
               q == t[k + 1]
               Y == Seq(X)
    <3>1. s \in Seq(Y) /\ p \in Seq(Y) /\ q \in Y /\ At(k + 1) = Append(p, q)
      BY <2>1
    <3> HIDE DEF p, q, Y
    <3>2. Append(p, q) = p \o <<q>> /\ <<q>> \in Seq(Y) /\ s \o p \in Seq(Y)
      BY <3>1, AppendIsConcat, ConcatProperties
    <3>3. Append(s \o p, q) = (s \o p) \o <<q>>
      BY <3>1, <3>2, AppendIsConcat
    <3> DEFINE r == <<q>>
    <3>4. (s \o p) \o r = s \o (p \o r)
      <4>1. s \in Seq(Y) /\ p \in Seq(Y) /\ r \in Seq(Y)
        BY <3>1, <3>2
      <4> HIDE DEF r
      <4> QED BY <4>1, ConcatAssociative
    <3> QED BY <3>1, <3>2, <3>3, <3>4, Zenon DEF p, q
  <2>3. Ext!FlattenSeq(s) \in Seq(X) /\ Ext!FlattenSeq(At(k)) \in Seq(X)
    BY <2>1, FlatType
  <2>4. Ext!FlattenSeq(s \o At(k + 1)) = Ext!FlattenSeq(s \o At(k)) \o t[k + 1]
    BY <2>1, <2>2, FlatAppend
  <2>5. Ext!FlattenSeq(At(k + 1)) = Ext!FlattenSeq(At(k)) \o t[k + 1]
    BY <2>1, FlatAppend
  <2> DEFINE p == Ext!FlattenSeq(s)
             q == Ext!FlattenSeq(At(k))
  <2>6. (p \o q) \o t[k + 1] = p \o (q \o t[k + 1])
    <3> DEFINE r == t[k + 1]
    <3>1. p \in Seq(X) /\ q \in Seq(X) /\ r \in Seq(X)
      BY <2>1, <2>3
    <3> HIDE DEF p, q, r
    <3>2. (p \o q) \o r = p \o (q \o r)
      BY <3>1
    <3> QED BY <3>2 DEF r
  <2>7. Ext!FlattenSeq(s \o At(k)) = p \o q
    BY <1>2
  <2> HIDE DEF At
  <2>8. Ext!FlattenSeq(s \o At(k + 1)) = p \o Ext!FlattenSeq(At(k + 1))
    BY <2>4, <2>5, <2>6, <2>7
  <2> QED BY <2>8
<1>3. Len(t) \in T
  <2>1. Len(t) \in Nat
    OBVIOUS
  <2> DEFINE n == Len(t)
  <2>2. \A k \in 0 .. n - 1 : k \in T => k + 1 \in T
    BY <1>2
  <2> HIDE DEF T, n
  <2>3. n \in T
    BY <1>1, <2>1, <2>2, Upward DEF n
  <2> QED BY <2>3 DEF n
<1>4. At(Len(t)) = t
  OBVIOUS
<1> QED BY <1>3, <1>4

\* The rest of a sequence of sequences begins with the next one.
LEMMA FlatRest ==
  ASSUME NEW X, NEW s \in Seq(Seq(X)), NEW k \in 0 .. Len(s) - 1
  PROVE  /\ Ext!FlattenSeq(SubSeq(s, k + 1, Len(s))) =
              s[k + 1] \o Ext!FlattenSeq(SubSeq(s, k + 2, Len(s)))
         /\ Ext!FlattenSeq(SubSeq(s, 1, k + 1)) = Ext!FlattenSeq(SubSeq(s, 1, k)) \o s[k + 1]
<1>1. /\ SubSeq(s, k + 1, Len(s)) = <<s[k + 1]>> \o SubSeq(s, k + 2, Len(s))
      /\ SubSeq(s, 1, k + 1) = Append(SubSeq(s, 1, k), s[k + 1])
      /\ <<s[k + 1]>> \in Seq(Seq(X)) /\ SubSeq(s, k + 2, Len(s)) \in Seq(Seq(X))
      /\ SubSeq(s, 1, k) \in Seq(Seq(X)) /\ s[k + 1] \in Seq(X)
  OBVIOUS
<1> DEFINE x == s[k + 1]
           y == SubSeq(s, k + 2, Len(s))
<1>2. Ext!FlattenSeq(<<x>> \o y) = x \o Ext!FlattenSeq(y)
  <2> HIDE DEF x, y
  <2>1. <<x>> \in Seq(Seq(X)) /\ y \in Seq(Seq(X)) /\ x \in Seq(X)
    BY <1>1 DEF x, y
  <2>2. Ext!FlattenSeq(<<x>> \o y) = Ext!FlattenSeq(<<x>>) \o Ext!FlattenSeq(y)
    BY <2>1, FlatConcat
  <2>3. Ext!FlattenSeq(<<x>>) = x
    BY <2>1, FlatOne
  <2> QED BY <2>2, <2>3
<1> QED BY <1>1, <1>2, FlatAppend

-----------------------------------------------------------------------------
Associates(u, v, w) == (u \o v) \o w = u \o (v \o w)

LEMMA Associate ==
  ASSUME NEW X, NEW u \in Seq(X), NEW v \in Seq(X), NEW w \in Seq(X)
  PROVE  Associates(u, v, w)
  BY ConcatAssociative DEF Associates
\* f of each of them, one behind the other.
Map(f, s) == [i \in DOMAIN s |-> f[s[i]]]
FlatMap(f, s) == Ext!FlattenSeq(Map(f, s))

IsMap(m, f, s, Y) == /\ m \in Seq(Y) /\ Len(m) = Len(s)
                     /\ \A i \in 1 .. Len(s) : m[i] = f[s[i]]

LEMMA MapType ==
  ASSUME NEW A, NEW Y, NEW f \in [A -> Y], NEW s \in Seq(A)
  PROVE  IsMap(Map(f, s), f, s, Y)
<1>1. DOMAIN s = 1 .. Len(s) /\ Len(s) \in Nat /\ \A i \in 1 .. Len(s) : s[i] \in A
  BY LenProperties, ElementOfSeq
<1>2. \A i \in 1 .. Len(s) : f[s[i]] \in Y
  BY <1>1
<1> QED BY <1>1, <1>2 DEF Map, IsMap

MapJoins(f, s, t) == Map(f, s \o t) = Map(f, s) \o Map(f, t)

LEMMA MapConcat ==
  ASSUME NEW A, NEW Y, NEW f \in [A -> Y], NEW s \in Seq(A), NEW t \in Seq(A)
  PROVE  MapJoins(f, s, t)
<1> DEFINE p == Map(f, s)
           q == Map(f, t)
           u == s \o t
           r == Map(f, u)
<1>1. u \in Seq(A) /\ Len(u) = Len(s) + Len(t) /\ Len(s) \in Nat /\ Len(t) \in Nat
      /\ \A i \in 1 .. Len(s) + Len(t) : u[i] = IF i <= Len(s) THEN s[i] ELSE t[i - Len(s)]
  BY ConcatProperties, LenProperties
<1>2. /\ p \in Seq(Y) /\ Len(p) = Len(s) /\ q \in Seq(Y) /\ Len(q) = Len(t)
      /\ \A i \in 1 .. Len(s) : p[i] = f[s[i]]
      /\ \A i \in 1 .. Len(t) : q[i] = f[t[i]]
  <2>1. IsMap(p, f, s, Y) /\ IsMap(q, f, t, Y)
    BY MapType, Zenon
  <2> QED BY <2>1, Zenon DEF IsMap
<1> HIDE DEF u
<1>3. r \in Seq(Y) /\ Len(r) = Len(u) /\ \A i \in 1 .. Len(u) : r[i] = f[u[i]]
  <2>1. IsMap(r, f, u, Y)
    BY <1>1, MapType, Zenon
  <2> QED BY <2>1, Zenon DEF IsMap
<1> HIDE DEF p, q, r
<1>4. p \o q \in Seq(Y) /\ Len(p \o q) = Len(p) + Len(q)
      /\ \A i \in 1 .. Len(p) + Len(q) : (p \o q)[i] = IF i <= Len(p) THEN p[i] ELSE q[i - Len(p)]
  BY <1>2, ConcatProperties
<1>5. ASSUME NEW i \in 1 .. Len(r) PROVE r[i] = (p \o q)[i]
  <2>1. i \in 1 .. Len(s) + Len(t) /\ r[i] = f[u[i]]
    BY <1>1, <1>3
  <2>2. CASE i <= Len(s)
    <3>1. i \in 1 .. Len(s)
      BY <1>1, <2>1, <2>2
    <3> QED BY <1>1, <1>2, <1>4, <2>1, <2>2, <3>1, Zenon
  <2>3. CASE ~(i <= Len(s))
    <3>1. i - Len(s) \in 1 .. Len(t)
      BY <1>1, <2>1, <2>3
    <3> QED BY <1>1, <1>2, <1>4, <2>1, <2>3, <3>1, Zenon
  <2> QED BY <2>2, <2>3
<1>6. Len(r) = Len(p \o q)
  BY <1>1, <1>2, <1>3, <1>4, Zenon
<1>7. r = p \o q
  <2> DEFINE w == p \o q
  <2>1. w \in Seq(Y) /\ Len(r) = Len(w) /\ \A i \in 1 .. Len(r) : r[i] = w[i]
    BY <1>4, <1>5, <1>6
  <2> HIDE DEF w
  <2>2. r = w
    BY <1>3, <2>1, SeqEqual
  <2> QED BY <2>2 DEF w
<1> QED BY <1>7, Zenon DEF p, q, r, u, MapJoins

LEMMA FlatMapEmpty == ASSUME NEW f PROVE FlatMap(f, <<>>) = <<>>
<1>1. Map(f, <<>>) = <<>>
  BY DEF Map
<1> QED BY <1>1, FlatNone, Zenon DEF FlatMap

LEMMA FlatMapType ==
  ASSUME NEW A, NEW X, NEW f \in [A -> Seq(X)], NEW s \in Seq(A)
  PROVE  FlatMap(f, s) \in Seq(X)
<1>1. Map(f, s) \in Seq(Seq(X))
  BY MapType DEF IsMap
<1> QED BY <1>1, FlatType DEF FlatMap

Joins(f, s, t) == FlatMap(f, s \o t) = FlatMap(f, s) \o FlatMap(f, t)

LEMMA FlatMapConcat ==
  ASSUME NEW A, NEW X, NEW f \in [A -> Seq(X)], NEW s \in Seq(A), NEW t \in Seq(A)
  PROVE  Joins(f, s, t)
<1>1. Map(f, s) \in Seq(Seq(X)) /\ Map(f, t) \in Seq(Seq(X))
  BY MapType DEF IsMap
<1>2. Map(f, s \o t) = Map(f, s) \o Map(f, t)
  <2>1. MapJoins(f, s, t)
    BY MapConcat, Zenon
  <2> QED BY <2>1, Zenon DEF MapJoins
<1>3. Ext!FlattenSeq(Map(f, s) \o Map(f, t)) = FlatMap(f, s) \o FlatMap(f, t)
  BY <1>1, FlatConcat DEF FlatMap
<1> QED BY <1>2, <1>3, Zenon DEF FlatMap, Joins

LEMMA FlatMapOne ==
  ASSUME NEW A, NEW X, NEW f \in [A -> Seq(X)], NEW a \in A
  PROVE  FlatMap(f, <<a>>) = f[a] /\ FlatMap(f, <<>>) = <<>>
<1>1. f[a] \in Seq(X) /\ Map(f, <<a>>) = <<f[a]>> /\ Map(f, <<>>) = <<>>
  BY DEF Map
<1> QED BY <1>1, FlatOne, FlatNone DEF FlatMap

\* Where f of each element is the element, or is empty.
LEMMA FlatMapSame ==
  ASSUME NEW A, NEW X, NEW f \in [A -> Seq(X)], NEW s \in Seq(A),
         \A i \in 1 .. Len(s) : f[s[i]] = <<s[i]>>
  PROVE  FlatMap(f, s) = s
<1> DEFINE n == Len(s)
           At(k) == SubSeq(s, 1, k)
           T == {k \in 0 .. n : FlatMap(f, At(k)) = At(k)}
<1>1. n \in Nat /\ At(0) = <<>> /\ At(n) = s
  OBVIOUS
<1>2. 0 \in T
  <2>1. FlatMap(f, <<>>) = <<>> /\ 0 \in 0 .. n
    BY <1>1, FlatMapEmpty
  <2> HIDE DEF At, n
  <2> QED BY <1>1, <2>1, Zenon
<1>3. ASSUME NEW k \in 0 .. n - 1, k \in T PROVE k + 1 \in T
  <2> DEFINE p == At(k)
             a == s[k + 1]
  <2>1. p \in Seq(A) /\ a \in A /\ At(k + 1) = Append(p, a) /\ k + 1 \in 0 .. n
    OBVIOUS
  <2>2. FlatMap(f, p) = p
    BY <1>3
  <2> HIDE DEF At, p, a
  <2>3. At(k + 1) = p \o <<a>> /\ <<a>> \in Seq(A)
    <3>1. Append(p, a) = p \o <<a>> /\ <<a>> \in Seq(A)
      BY <2>1
    <3> QED BY <2>1, <3>1, Zenon
  <2>4. FlatMap(f, p \o <<a>>) = FlatMap(f, p) \o FlatMap(f, <<a>>)
    <3>1. Joins(f, p, <<a>>)
      BY <2>1, <2>3, FlatMapConcat, Zenon
    <3> QED BY <3>1, Zenon DEF Joins
  <2>5. FlatMap(f, <<a>>) = <<a>>
    <3>1. f[a] = <<a>>
      BY <1>1 DEF a
    <3>2. a \in A
      BY <2>1
    <3>3. FlatMap(f, <<a>>) = f[a]
      BY <3>2, FlatMapOne
    <3> QED BY <3>1, <3>3, Zenon
  <2> QED BY <2>1, <2>2, <2>3, <2>4, <2>5, Zenon
<1>4. n \in T
  <2> HIDE DEF T, n
  <2> QED BY <1>1, <1>2, <1>3, Upward
<1> QED BY <1>1, <1>4, Zenon

LEMMA FlatMapNone ==
  ASSUME NEW A, NEW X, NEW f \in [A -> Seq(X)], NEW s \in Seq(A),
         \A i \in 1 .. Len(s) : f[s[i]] = <<>>
  PROVE  FlatMap(f, s) = <<>>
<1> DEFINE n == Len(s)
           At(k) == SubSeq(s, 1, k)
           T == {k \in 0 .. n : FlatMap(f, At(k)) = <<>>}
<1>1. n \in Nat /\ At(0) = <<>> /\ At(n) = s
  OBVIOUS
<1>2. 0 \in T
  <2>1. FlatMap(f, <<>>) = <<>> /\ 0 \in 0 .. n
    BY <1>1, FlatMapEmpty
  <2> HIDE DEF At, n
  <2> QED BY <1>1, <2>1, Zenon
<1>3. ASSUME NEW k \in 0 .. n - 1, k \in T PROVE k + 1 \in T
  <2> DEFINE p == At(k)
             a == s[k + 1]
  <2>1. p \in Seq(A) /\ a \in A /\ At(k + 1) = Append(p, a) /\ k + 1 \in 0 .. n
    OBVIOUS
  <2>2. FlatMap(f, p) = <<>>
    BY <1>3
  <2> HIDE DEF At, p, a
  <2>3. At(k + 1) = p \o <<a>> /\ <<a>> \in Seq(A)
    <3>1. Append(p, a) = p \o <<a>> /\ <<a>> \in Seq(A)
      BY <2>1
    <3> QED BY <2>1, <3>1, Zenon
  <2>4. FlatMap(f, p \o <<a>>) = FlatMap(f, p) \o FlatMap(f, <<a>>)
    <3>1. Joins(f, p, <<a>>)
      BY <2>1, <2>3, FlatMapConcat, Zenon
    <3> QED BY <3>1, Zenon DEF Joins
  <2>5. FlatMap(f, <<a>>) = <<>>
    <3>1. f[a] = <<>>
      BY <1>1 DEF a
    <3>2. a \in A
      BY <2>1
    <3>3. FlatMap(f, <<a>>) = f[a]
      BY <3>2, FlatMapOne
    <3> QED BY <3>1, <3>3, Zenon
  <2>6. <<>> \o <<>> = <<>>
    OBVIOUS
  <2> QED BY <2>1, <2>2, <2>3, <2>4, <2>5, <2>6, Zenon
<1>4. n \in T
  <2> HIDE DEF T, n
  <2> QED BY <1>1, <1>2, <1>3, Upward
<1> QED BY <1>1, <1>4, Zenon

-----------------------------------------------------------------------------
\* A sequence without its last element.
LEMMA AllButLast ==
  ASSUME NEW S, NEW s \in Seq(S), s # << >>
  PROVE  /\ SubSeq(s, 1, Len(s) - 1) \in Seq(S)
         /\ Len(s) \in Nat \ {0} /\ Len(SubSeq(s, 1, Len(s) - 1)) = Len(s) - 1
         /\ \A i \in 1 .. Len(s) - 1 : SubSeq(s, 1, Len(s) - 1)[i] = s[i]
  <1> DEFINE m == Len(s) - 1
  <1>1. Len(s) \in Nat \ {0} /\ m \in Nat /\ Len(s) = m + 1
    BY EmptySeq
  <1>2. \A i \in 1 .. m : s[i] \in S
    BY <1>1, ElementOfSeq
  <1> HIDE DEF m
  <1>3. /\ SubSeq(s, 1, m) \in Seq(S)
        /\ Len(SubSeq(s, 1, m)) = m
        /\ \A i \in 1 .. m : SubSeq(s, 1, m)[i] = s[i]
    BY <1>1, <1>2, SubSeqProperties
  <1> QED
    BY <1>1, <1>3 DEF m
=============================================================================
