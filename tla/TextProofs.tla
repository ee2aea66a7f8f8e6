------------------------------ MODULE TextProofs ------------------------------
(***************************************************************************)
(* The proofs about the texts of the library.                              *)
(***************************************************************************)
EXTENDS Texts, FlatSequences, FiniteSetTheorems

-----------------------------------------------------------------------------
(***************************************************************************)
(* JsonString.  The bytes of one character, and what a decoder makes of    *)
(* them.  The solver does not bring large numbers and sequences together:  *)
(* the lemmas about numbers come first.                                    *)
(***************************************************************************)
\* A byte: a head and the bits behind it.
Made(b, head, q) == b = head + q

LEMMA HeadTwo ==
  ASSUME NEW q \in 0 .. 31, NEW b, Made(b, 192, q)
  PROVE  ~(b < 128) /\ b \div 32 = 6 /\ b % 32 = q
  BY SMT DEF Made

LEMMA HeadThree ==
  ASSUME NEW q \in 0 .. 15, NEW b, Made(b, 224, q)
  PROVE  ~(b < 128) /\ b \div 32 # 6 /\ b \div 16 = 14 /\ b % 16 = q
  BY SMT DEF Made

LEMMA HeadFour ==
  ASSUME NEW q \in 0 .. 7, NEW b, Made(b, 240, q)
  PROVE  ~(b < 128) /\ b \div 32 # 6 /\ b \div 16 # 14 /\ b \div 8 = 30 /\ b % 8 = q
  BY SMT DEF Made

LEMMA HeadNext ==
  ASSUME NEW q \in 0 .. 63, NEW b, Made(b, 128, q)
  PROVE  b \div 64 = 2 /\ b % 64 = q
  BY SMT DEF Made

LEMMA Sixty ==
  ASSUME NEW n \in Nat
  PROVE  /\ n \div 64 \in Nat /\ n % 64 \in 0 .. 63 /\ n = (n \div 64) * 64 + (n % 64)
         /\ n \div 4096 = (n \div 64) \div 64
         /\ n \div 262144 = ((n \div 64) \div 64) \div 64
<1>1. n \div 64 \in Nat /\ n % 64 \in 0 .. 63 /\ n = (n \div 64) * 64 + (n % 64)
  BY SMT
<1>2. n \div 4096 = (n \div 64) \div 64
  BY SMT
<1>3. n \div 262144 = (n \div 4096) \div 64
  BY SMT
<1> QED BY <1>1, <1>2, <1>3

\* The bits of a code point, six by six.
Six(n) == n % 64
Up(n) == n \div 64

LEMMA Sixes ==
  ASSUME NEW n \in Nat
  PROVE Up(n) \in Nat /\ Six(n) \in 0 .. 63 /\ n = Up(n) * 64 + Six(n)
  BY Sixty DEF Six, Up

One8(n) == n \in Nat /\ n < 128 /\ String!Utf8(n) = <<n>>
Two8(n) == Up(n) \in 0 .. 31 /\ String!Utf8(n) = <<192 + Up(n), 128 + Six(n)>>
Three8(n) == /\ Up(Up(n)) \in 0 .. 15
             /\ String!Utf8(n) = <<224 + Up(Up(n)), 128 + Six(Up(n)), 128 + Six(n)>>
Four8(n) == /\ Up(Up(Up(n))) \in 0 .. 7
            /\ String!Utf8(n) = <<240 + Up(Up(Up(n))), 128 + Six(Up(Up(n))),
                                  128 + Six(Up(n)), 128 + Six(n)>>

LEMMA Space == CodeSpace \in Nat /\ CodeSpace > 65536 /\ CodeSpace < 32 * 65536
  BY SMT DEF CodeSpace

LEMMA CharacterIs == ASSUME NEW n \in Character PROVE n \in Nat /\ n < 32 * 65536
<1>1. n \in Int /\ 0 <= n /\ n < CodeSpace
  BY SMT, Space DEF Character
<1> QED BY SMT, <1>1, Space

LEMMA Utf8Is ==
  ASSUME NEW n \in Character
  PROVE  n \in Nat /\ (One8(n) \/ Two8(n) \/ Three8(n) \/ Four8(n))
<1>1. n \in Nat /\ n < 32 * 65536
  BY SMT, CharacterIs
<1>2. CASE n < 128
  BY SMT, <1>1, <1>2 DEF One8, String!Utf8
<1>3. CASE 128 <= n /\ n < 2048
  <2>1. Up(n) \in 0 .. 31
    BY SMT, <1>1, <1>3 DEF Up
  <2> QED BY SMT, <1>1, <1>3, <2>1 DEF Two8, String!Utf8, String!Follower, Up, Six
<1>4. CASE 2048 <= n /\ n < 65536
  <2>1. n \div 4096 = Up(Up(n)) /\ n \div 64 = Up(n) /\ Up(Up(n)) \in 0 .. 15
    BY SMT, <1>1, <1>4, Sixty DEF Up
  <2> QED BY SMT, <1>1, <1>4, <2>1 DEF Three8, String!Utf8, String!Follower, Six
<1>5. CASE 65536 <= n
  <2>1. /\ n \div 262144 = Up(Up(Up(n))) /\ n \div 4096 = Up(Up(n)) /\ n \div 64 = Up(n)
    BY SMT, <1>1, Sixty DEF Up
  <2>2. n \div 262144 \in 0 .. 7
    BY SMT, <1>1
  <2> QED BY SMT, <1>1, <1>5, <2>1, <2>2 DEF Four8, String!Utf8, String!Follower, Six
<1> QED BY SMT, <1>1, <1>2, <1>3, <1>4, <1>5

Spelt(n, bs, i) == /\ i \in 1 .. Len(bs) /\ i + Len(String!Utf8(n)) - 1 <= Len(bs)
                   /\ \A j \in 1 .. Len(String!Utf8(n)) : bs[i + (j - 1)] = String!Utf8(n)[j]

LEMMA PointTwo ==
  ASSUME NEW bs \in Seq(Nat), NEW i \in 1 .. Len(bs), ~(bs[i] < 128), bs[i] \div 32 = 6,
         i + 1 \in 1 .. Len(bs), bs[i + 1] \div 64 = 2
  PROVE  String!PointAt(bs, i) = [n |-> (bs[i] % 32) * 64 + (bs[i + 1] % 64), size |-> 2]
<1>1. String!Followed(bs, i, 1)
  BY SMT DEF String!Followed
<1> QED BY <1>1, Zenon DEF String!PointAt, String!Low

LEMMA PointThree ==
  ASSUME NEW bs \in Seq(Nat), NEW i \in 1 .. Len(bs), ~(bs[i] < 128), bs[i] \div 32 # 6,
         bs[i] \div 16 = 14,
         i + 1 \in 1 .. Len(bs), bs[i + 1] \div 64 = 2,
         i + 2 \in 1 .. Len(bs), bs[i + 2] \div 64 = 2
  PROVE  String!PointAt(bs, i) =
           [n |-> ((bs[i] % 16) * 64 + (bs[i + 1] % 64)) * 64 + (bs[i + 2] % 64), size |-> 3]
<1>1. String!Followed(bs, i, 2)
  <2>1. \A j \in 1 .. 2 : j = 1 \/ j = 2
    BY SMT
  <2>2. ASSUME NEW j \in 1 .. 2 PROVE i + j \in DOMAIN bs /\ bs[i + j] \div 64 = 2
    <3>1. DOMAIN bs = 1 .. Len(bs)
      OBVIOUS
    <3>2. CASE j = 1
      BY <3>1, <3>2, Zenon
    <3>3. CASE j = 2
      BY <3>1, <3>3, Zenon
    <3> QED BY <2>1, <3>2, <3>3
  <2> QED BY <2>2, Zenon DEF String!Followed
<1> QED BY <1>1, Zenon DEF String!PointAt, String!Low

LEMMA PointFour ==
  ASSUME NEW bs \in Seq(Nat), NEW i \in 1 .. Len(bs), ~(bs[i] < 128), bs[i] \div 32 # 6,
         bs[i] \div 16 # 14, bs[i] \div 8 = 30,
         i + 1 \in 1 .. Len(bs), bs[i + 1] \div 64 = 2,
         i + 2 \in 1 .. Len(bs), bs[i + 2] \div 64 = 2,
         i + 3 \in 1 .. Len(bs), bs[i + 3] \div 64 = 2
  PROVE  String!PointAt(bs, i) =
           [n |-> (((bs[i] % 8) * 64 + (bs[i + 1] % 64)) * 64 + (bs[i + 2] % 64)) * 64
                    + (bs[i + 3] % 64), size |-> 4]
<1>1. String!Followed(bs, i, 3)
  <2>1. \A j \in 1 .. 3 : j = 1 \/ j = 2 \/ j = 3
    BY SMT
  <2>2. ASSUME NEW j \in 1 .. 3 PROVE i + j \in DOMAIN bs /\ bs[i + j] \div 64 = 2
    <3>1. DOMAIN bs = 1 .. Len(bs)
      OBVIOUS
    <3>2. CASE j = 1
      BY <3>1, <3>2, Zenon
    <3>3. CASE j = 2
      BY <3>1, <3>3, Zenon
    <3>4. CASE j = 3
      BY <3>1, <3>4, Zenon
    <3> QED BY <2>1, <3>2, <3>3, <3>4
  <2> QED BY <2>2, Zenon DEF String!Followed
<1> QED BY <1>1, Zenon DEF String!PointAt, String!Low

LEMMA PointIs ==
  ASSUME NEW n \in Character, NEW bs \in Seq(Nat), NEW i, Spelt(n, bs, i)
  PROVE  String!PointAt(bs, i) = [n |-> n, size |-> Len(String!Utf8(n))]
<1> DEFINE u == String!Utf8(n)
<1>0. n \in Nat /\ i \in 1 .. Len(bs) /\ Len(bs) \in Nat
  BY Utf8Is DEF Spelt
<1>1. CASE One8(n)
  <2>1. bs[i] = n /\ Len(u) = 1
    BY <1>1 DEF Spelt, One8
  <2> QED BY <1>1, <2>1, Zenon DEF String!PointAt, One8
<1>2. CASE Two8(n)
  <2>1. bs[i] = 192 + Up(n) /\ bs[i + 1] = 128 + Six(n) /\ Len(u) = 2 /\ i + 1 \in 1 .. Len(bs)
    BY <1>2 DEF Spelt, Two8
  <2>2. Six(n) \in 0 .. 63 /\ Up(n) \in 0 .. 31 /\ n = Up(n) * 64 + Six(n)
    BY <1>0, <1>2, Sixes DEF Two8
  <2>3. Made(bs[i], 192, Up(n)) /\ Made(bs[i + 1], 128, Six(n))
    BY <2>1, Zenon DEF Made
  <2>4. ~(bs[i] < 128) /\ bs[i] \div 32 = 6 /\ bs[i] % 32 = Up(n)
        /\ bs[i + 1] \div 64 = 2 /\ bs[i + 1] % 64 = Six(n)
    <3>1. ~(bs[i] < 128) /\ bs[i] \div 32 = 6 /\ bs[i] % 32 = Up(n)
      BY <2>2, <2>3, HeadTwo, Zenon
    <3>2. bs[i + 1] \div 64 = 2 /\ bs[i + 1] % 64 = Six(n)
      BY <2>2, <2>3, HeadNext, Zenon
    <3> QED BY <3>1, <3>2, Zenon
  <2>5. String!PointAt(bs, i) = [n |-> (bs[i] % 32) * 64 + (bs[i + 1] % 64), size |-> 2]
    BY <1>0, <2>1, <2>4, PointTwo
  <2> QED BY <2>1, <2>2, <2>4, <2>5, Zenon
<1>3. CASE Three8(n)
  <2>1. /\ bs[i] = 224 + Up(Up(n)) /\ bs[i + 1] = 128 + Six(Up(n)) /\ bs[i + 2] = 128 + Six(n)
        /\ Len(u) = 3 /\ i + 1 \in 1 .. Len(bs) /\ i + 2 \in 1 .. Len(bs)
    BY <1>3 DEF Spelt, Three8
  <2>2. /\ Six(n) \in 0 .. 63 /\ Six(Up(n)) \in 0 .. 63 /\ Up(Up(n)) \in 0 .. 15
        /\ n = Up(n) * 64 + Six(n) /\ Up(n) = Up(Up(n)) * 64 + Six(Up(n))
    BY <1>0, <1>3, Sixes DEF Three8
  <2>3. /\ Made(bs[i], 224, Up(Up(n))) /\ Made(bs[i + 1], 128, Six(Up(n)))
        /\ Made(bs[i + 2], 128, Six(n))
    BY <2>1, Zenon DEF Made
  <2>4. /\ ~(bs[i] < 128) /\ bs[i] \div 32 # 6 /\ bs[i] \div 16 = 14 /\ bs[i] % 16 = Up(Up(n))
        /\ bs[i + 1] \div 64 = 2 /\ bs[i + 1] % 64 = Six(Up(n))
        /\ bs[i + 2] \div 64 = 2 /\ bs[i + 2] % 64 = Six(n)
    <3>1. ~(bs[i] < 128) /\ bs[i] \div 32 # 6 /\ bs[i] \div 16 = 14 /\ bs[i] % 16 = Up(Up(n))
      BY <2>2, <2>3, HeadThree, Zenon
    <3>2. bs[i + 1] \div 64 = 2 /\ bs[i + 1] % 64 = Six(Up(n))
      BY <2>2, <2>3, HeadNext, Zenon
    <3>3. bs[i + 2] \div 64 = 2 /\ bs[i + 2] % 64 = Six(n)
      BY <2>2, <2>3, HeadNext, Zenon
    <3> QED BY <3>1, <3>2, <3>3, Zenon
  <2>5. String!PointAt(bs, i) =
          [n |-> ((bs[i] % 16) * 64 + (bs[i + 1] % 64)) * 64 + (bs[i + 2] % 64), size |-> 3]
    BY <1>0, <2>1, <2>4, PointThree
  <2>6. (bs[i] % 16) * 64 + (bs[i + 1] % 64) = Up(n)
    BY <2>2, <2>4, Zenon
  <2>7. Up(n) * 64 + (bs[i + 2] % 64) = n
    BY <2>2, <2>4, Zenon
  <2> QED BY <2>1, <2>5, <2>6, <2>7, Zenon
<1>4. CASE Four8(n)
  <2>1. /\ bs[i] = 240 + Up(Up(Up(n))) /\ bs[i + 1] = 128 + Six(Up(Up(n)))
        /\ bs[i + 2] = 128 + Six(Up(n)) /\ bs[i + 3] = 128 + Six(n)
        /\ Len(u) = 4 /\ i + 1 \in 1 .. Len(bs) /\ i + 2 \in 1 .. Len(bs)
        /\ i + 3 \in 1 .. Len(bs)
    <3>1. u = <<240 + Up(Up(Up(n))), 128 + Six(Up(Up(n))), 128 + Six(Up(n)), 128 + Six(n)>>
      BY <1>4, Zenon DEF Four8
    <3>2. i \in 1 .. Len(bs) /\ i + Len(u) - 1 <= Len(bs)
          /\ \A j \in 1 .. Len(u) : bs[i + (j - 1)] = u[j]
      BY Zenon DEF Spelt
    <3> HIDE DEF u
    <3>3. Len(u) = 4
      BY <3>1
    <3>4. i + 3 <= Len(bs) /\ i + 0 = i
      BY <1>0, <3>2, <3>3
    <3>5. /\ bs[i + (1 - 1)] = u[1] /\ bs[i + (2 - 1)] = u[2] /\ bs[i + (3 - 1)] = u[3]
          /\ bs[i + (4 - 1)] = u[4]
      BY <3>2, <3>3
    <3>6. 1 - 1 = 0 /\ 2 - 1 = 1 /\ 3 - 1 = 2 /\ 4 - 1 = 3
      BY SMT
    <3>7. bs[i] = u[1] /\ bs[i + 1] = u[2] /\ bs[i + 2] = u[3] /\ bs[i + 3] = u[4]
      BY <3>4, <3>5, <3>6, Zenon
    <3>8. i + 1 \in 1 .. Len(bs) /\ i + 2 \in 1 .. Len(bs) /\ i + 3 \in 1 .. Len(bs)
      BY <1>0, <3>4
    <3> QED BY <3>1, <3>3, <3>7, <3>8
  <2>2. /\ Six(n) \in 0 .. 63 /\ Six(Up(n)) \in 0 .. 63 /\ Six(Up(Up(n))) \in 0 .. 63
        /\ Up(Up(Up(n))) \in 0 .. 7
        /\ n = Up(n) * 64 + Six(n) /\ Up(n) = Up(Up(n)) * 64 + Six(Up(n))
        /\ Up(Up(n)) = Up(Up(Up(n))) * 64 + Six(Up(Up(n)))
    BY <1>0, <1>4, Sixes DEF Four8
  <2>3. /\ Made(bs[i], 240, Up(Up(Up(n)))) /\ Made(bs[i + 1], 128, Six(Up(Up(n))))
        /\ Made(bs[i + 2], 128, Six(Up(n))) /\ Made(bs[i + 3], 128, Six(n))
    BY <2>1, Zenon DEF Made
  <2>4. /\ ~(bs[i] < 128) /\ bs[i] \div 32 # 6 /\ bs[i] \div 16 # 14 /\ bs[i] \div 8 = 30
        /\ bs[i] % 8 = Up(Up(Up(n)))
        /\ bs[i + 1] \div 64 = 2 /\ bs[i + 1] % 64 = Six(Up(Up(n)))
        /\ bs[i + 2] \div 64 = 2 /\ bs[i + 2] % 64 = Six(Up(n))
        /\ bs[i + 3] \div 64 = 2 /\ bs[i + 3] % 64 = Six(n)
    <3>1. /\ ~(bs[i] < 128) /\ bs[i] \div 32 # 6 /\ bs[i] \div 16 # 14
          /\ bs[i] \div 8 = 30 /\ bs[i] % 8 = Up(Up(Up(n)))
      BY <2>2, <2>3, HeadFour, Zenon
    <3>2. bs[i + 1] \div 64 = 2 /\ bs[i + 1] % 64 = Six(Up(Up(n)))
      BY <2>2, <2>3, HeadNext, Zenon
    <3>3. bs[i + 2] \div 64 = 2 /\ bs[i + 2] % 64 = Six(Up(n))
      BY <2>2, <2>3, HeadNext, Zenon
    <3>4. bs[i + 3] \div 64 = 2 /\ bs[i + 3] % 64 = Six(n)
      BY <2>2, <2>3, HeadNext, Zenon
    <3> QED BY <3>1, <3>2, <3>3, <3>4, Zenon
  <2>5. String!PointAt(bs, i) =
          [n |-> (((bs[i] % 8) * 64 + (bs[i + 1] % 64)) * 64 + (bs[i + 2] % 64)) * 64
                   + (bs[i + 3] % 64), size |-> 4]
    BY <1>0, <2>1, <2>4, PointFour
  <2>6. (bs[i] % 8) * 64 + (bs[i + 1] % 64) = Up(Up(n))
    BY <2>2, <2>4, Zenon
  <2>7. Up(Up(n)) * 64 + (bs[i + 2] % 64) = Up(n)
    BY <2>2, <2>4, Zenon
  <2>8. Up(n) * 64 + (bs[i + 3] % 64) = n
    BY <2>2, <2>4, Zenon
  <2> QED BY <2>1, <2>5, <2>6, <2>7, <2>8, Zenon
<1> QED BY <1>1, <1>2, <1>3, <1>4, Utf8Is

-----------------------------------------------------------------------------
(***************************************************************************)
(* A decoder reads the characters that were written.                       *)
(***************************************************************************)
Steps(bs, f) == /\ f[Len(bs) + 1] = <<>>
                /\ \A i \in 1 .. Len(bs) :
                     f[i] = <<String!PointAt(bs, i).n>> \o f[i + String!PointAt(bs, i).size]

LEMMA PointSize ==
  ASSUME NEW bs \in Seq(Nat), NEW i \in 1 .. Len(bs)
  PROVE  /\ String!PointAt(bs, i).size \in 1 .. 4
         /\ i + String!PointAt(bs, i).size \in 1 .. Len(bs) + 1
<1> DEFINE p == String!PointAt(bs, i)
<1>0. Len(bs) \in Nat /\ DOMAIN bs = 1 .. Len(bs)
  OBVIOUS
<1>1. \/ p.size = 1
      \/ p.size = 2 /\ String!Followed(bs, i, 1)
      \/ p.size = 3 /\ String!Followed(bs, i, 2)
      \/ p.size = 4 /\ String!Followed(bs, i, 3)
  BY Zenon DEF String!PointAt
<1> HIDE DEF p
<1>2. ASSUME NEW k \in 1 .. 3, String!Followed(bs, i, k) PROVE i + k <= Len(bs)
  <2>1. k \in 1 .. k
    OBVIOUS
  <2>2. i + k \in DOMAIN bs
    BY <1>2, <2>1, Zenon DEF String!Followed
  <2> QED BY <1>0, <2>2
<1>3. 1 \in 1 .. 3 /\ 2 \in 1 .. 3 /\ 3 \in 1 .. 3
  OBVIOUS
<1>4. \/ p.size = 1
      \/ p.size = 2 /\ i + 1 <= Len(bs)
      \/ p.size = 3 /\ i + 2 <= Len(bs)
      \/ p.size = 4 /\ i + 3 <= Len(bs)
  BY <1>1, <1>2, <1>3, Zenon
<1> DEFINE z == p.size
<1>5. \/ z = 1
      \/ z = 2 /\ i + 1 <= Len(bs)
      \/ z = 3 /\ i + 2 <= Len(bs)
      \/ z = 4 /\ i + 3 <= Len(bs)
  BY <1>4
<1> HIDE DEF z
<1>6. z \in 1 .. 4 /\ i + z \in 1 .. Len(bs) + 1
  BY SMT, <1>0, <1>5
<1> QED BY <1>6 DEF z, p

\* A function that goes through a sequence to its end, by steps of any length.
Goes(f, n, m, S, a, nx) ==
  /\ f \in [n + 1 - m .. n + 1 -> Seq(S)] /\ f[n + 1] = <<>>
  /\ \A i \in n + 1 - m .. n : f[i] = <<a[i]>> \o f[nx[i]]

LEMMA Going ==
  ASSUME NEW S, NEW n \in Nat, NEW a \in [1 .. n -> S], NEW nx \in [1 .. n -> 1 .. n + 1],
         \A i \in 1 .. n : nx[i] > i
  PROVE  \E f : Goes(f, n, n, S, a, nx)
<1> DEFINE T == {m \in 0 .. n : \E f : Goes(f, n, m, S, a, nx)}
<1>1. 0 \in T
  <2> DEFINE f == [i \in n + 1 .. n + 1 |-> <<>>]
  <2>1. f \in [n + 1 - 0 .. n + 1 -> Seq(S)] /\ f[n + 1] = <<>>
    OBVIOUS
  <2>2. \A i \in n + 1 - 0 .. n : FALSE
    OBVIOUS
  <2> HIDE DEF f
  <2>3. Goes(f, n, 0, S, a, nx)
    BY <2>1, <2>2 DEF Goes
  <2> QED BY <2>3
<1>2. ASSUME NEW m \in 0 .. n - 1, m \in T PROVE m + 1 \in T
  <2>1. PICK f : Goes(f, n, m, S, a, nx)
    BY <1>2
  <2> DEFINE j == n - m
             h == [i \in j .. n + 1 |-> IF i = j THEN <<a[j]>> \o f[nx[j]] ELSE f[i]]
  <2>2. j \in 1 .. n /\ n + 1 - m = j + 1 /\ n + 1 - (m + 1) = j /\ nx[j] \in j + 1 .. n + 1
        /\ a[j] \in S
    OBVIOUS
  <2>3. f \in [j + 1 .. n + 1 -> Seq(S)] /\ f[n + 1] = <<>>
        /\ \A i \in j + 1 .. n : f[i] = <<a[i]>> \o f[nx[i]]
    BY <2>1, <2>2, Zenon DEF Goes
  <2> HIDE DEF j
  <2>4. h \in [j .. n + 1 -> Seq(S)] /\ h[n + 1] = <<>>
    <3>1. f[nx[j]] \in Seq(S)
      BY <2>2, <2>3
    <3>2. <<a[j]>> \in Seq(S)
      BY <2>2
    <3>3. <<a[j]>> \o f[nx[j]] \in Seq(S)
      BY <3>1, <3>2, ConcatProperties
    <3>4. \A i \in j .. n + 1 : i # j => f[i] \in Seq(S)
      BY <2>2, <2>3
    <3>5. n + 1 \in j .. n + 1 /\ n + 1 # j
      BY <2>2
    <3> QED BY <2>3, <3>3, <3>4, <3>5, Zenon
  <2>5. ASSUME NEW i \in j .. n PROVE h[i] = <<a[i]>> \o h[nx[i]]
    <3>1. nx[i] \in j .. n + 1 /\ nx[i] # j /\ i \in j .. n + 1
      BY <2>2
    <3>2. h[nx[i]] = f[nx[i]]
      BY <3>1
    <3>3. CASE i = j
      BY <3>1, <3>2, <3>3, Zenon
    <3>4. CASE i # j
      <4>1. i \in j + 1 .. n /\ h[i] = f[i]
        BY <2>2, <3>1, <3>4
      <4> QED BY <2>3, <3>2, <4>1, Zenon
    <3> QED BY <3>3, <3>4
  <2> HIDE DEF h
  <2>6. Goes(h, n, m + 1, S, a, nx)
    BY <2>2, <2>4, <2>5, Zenon DEF Goes
  <2>7. m + 1 \in 0 .. n
    OBVIOUS
  <2> QED BY <2>6, <2>7
<1>3. n \in T
  <2> HIDE DEF T
  <2> QED BY <1>1, <1>2, Upward
<1> QED BY <1>3

LEMMA CodePointsIs ==
  ASSUME NEW bs \in Seq(Nat)
  PROVE  \E f : Steps(bs, f) /\ String!CodePoints(bs) = f[1]
<1> DEFINE n == Len(bs)
           S == {String!PointAt(bs, i).n : i \in 1 .. n}
           a == [i \in 1 .. n |-> String!PointAt(bs, i).n]
           nx == [i \in 1 .. n |-> i + String!PointAt(bs, i).size]
           F(f) == [i \in 1 .. Len(bs) + 1 |->
                     IF i > Len(bs) THEN <<>>
                     ELSE <<String!PointAt(bs, i).n>> \o f[i + String!PointAt(bs, i).size]]
           From == CHOOSE f : f = F(f)
<1>1. n \in Nat
  OBVIOUS
<1>2. a \in [1 .. n -> S]
  BY Zenon
<1>3. nx \in [1 .. n -> 1 .. n + 1] /\ \A i \in 1 .. n : nx[i] > i
  <2>1. ASSUME NEW i \in 1 .. n
        PROVE i + String!PointAt(bs, i).size \in 1 .. n + 1
              /\ i + String!PointAt(bs, i).size > i
    <3>1. String!PointAt(bs, i).size \in 1 .. 4
      BY PointSize
    <3>2. i + String!PointAt(bs, i).size \in 1 .. n + 1
      BY PointSize
    <3> DEFINE z == String!PointAt(bs, i).size
    <3>3. z \in 1 .. 4
      BY <3>1
    <3> HIDE DEF z
    <3>4. i + z > i
      BY SMT, <1>1, <3>3
    <3> QED BY <3>2, <3>4 DEF z
  <2> QED BY <2>1, Zenon
<1>4. \A i \in 1 .. n : a[i] = String!PointAt(bs, i).n /\ nx[i] = i + String!PointAt(bs, i).size
  BY Zenon
<1> HIDE DEF a, nx, S
<1>5. PICK f : Goes(f, n, n, S, a, nx)
  BY <1>1, <1>2, <1>3, Going
<1>6. n + 1 - n = 1
  BY <1>1
<1>7. f \in [1 .. n + 1 -> Seq(S)] /\ f[n + 1] = <<>>
      /\ \A i \in 1 .. n : f[i] = <<a[i]>> \o f[nx[i]]
  BY <1>5, <1>6, Zenon DEF Goes
<1>8. \A i \in 1 .. n + 1 : (i > n => i = n + 1) /\ (~(i > n) => i \in 1 .. n)
  BY <1>1
<1>9. f = F(f)
  <2>1. ASSUME NEW i \in 1 .. n + 1
        PROVE  f[i] = F(f)[i]
    BY <1>4, <1>7, <1>8, Zenon
  <2> HIDE DEF n
  <2>2. f = [i \in 1 .. n + 1 |-> f[i]]
    BY <1>7
  <2> QED BY <2>1, <2>2, Zenon DEF n
<1>10. From = F(From)
  BY <1>9
<1>11. String!CodePoints(bs) = From[1]
  BY Zenon DEF String!CodePoints
<1> HIDE DEF From
<1>12. \A i \in 1 .. n + 1 : From[i] = IF i > n THEN <<>>
                     ELSE <<String!PointAt(bs, i).n>> \o From[i + String!PointAt(bs, i).size]
  BY <1>10, Zenon
<1>13. /\ n + 1 \in 1 .. n + 1 /\ n + 1 > n
       /\ \A i \in 1 .. n : i \in 1 .. n + 1 /\ ~(i > n)
  BY <1>1
<1>14. Steps(bs, From)
  BY <1>12, <1>13, Zenon DEF Steps
<1> QED BY <1>11, <1>14

LEMMA Utf8Type ==
  ASSUME NEW n \in Character
  PROVE  String!Utf8(n) \in Seq(Nat) /\ Len(String!Utf8(n)) \in 1 .. 4
<1> DEFINE u == String!Utf8(n)
<1> SUFFICES u \in Seq(Nat) /\ Len(u) \in 1 .. 4
  OBVIOUS
<1>1. Six(n) \in Nat /\ Six(Up(n)) \in Nat /\ Six(Up(Up(n))) \in Nat
  BY Utf8Is, Sixes
<1>2. \A m \in Nat : 128 + m \in Nat /\ 192 + m \in Nat /\ 224 + m \in Nat /\ 240 + m \in Nat
  OBVIOUS
<1>3. CASE One8(n)
  <2>1. n \in Nat /\ u = <<n>>
    BY <1>3, Zenon DEF One8
  <2> HIDE DEF u
  <2> QED BY <2>1
<1>4. CASE Two8(n)
  <2> DEFINE x == 192 + Up(n)
             y == 128 + Six(n)
  <2>1. u = <<x, y>> /\ Up(n) \in 0 .. 31
    BY <1>4, Zenon DEF Two8
  <2>2. x \in Nat /\ y \in Nat
    BY <1>1, <1>2, <2>1
  <2> HIDE DEF x, y, u
  <2> QED BY <2>1, <2>2
<1>5. CASE Three8(n)
  <2> DEFINE x == 224 + Up(Up(n))
             y == 128 + Six(Up(n))
             z == 128 + Six(n)
  <2>1. u = <<x, y, z>> /\ Up(Up(n)) \in 0 .. 15
    BY <1>5, Zenon DEF Three8
  <2>2. x \in Nat /\ y \in Nat /\ z \in Nat
    BY <1>1, <1>2, <2>1
  <2> HIDE DEF x, y, z, u
  <2> QED BY <2>1, <2>2
<1>6. CASE Four8(n)
  <2> DEFINE w == 240 + Up(Up(Up(n)))
             x == 128 + Six(Up(Up(n)))
             y == 128 + Six(Up(n))
             z == 128 + Six(n)
  <2>1. u = <<w, x, y, z>> /\ Up(Up(Up(n))) \in 0 .. 7
    BY <1>6, Zenon DEF Four8
  <2>2. w \in Nat /\ x \in Nat /\ y \in Nat /\ z \in Nat
    BY <1>1, <1>2, <2>1
  <2> HIDE DEF w, x, y, z, u
  <2> QED BY <2>1, <2>2
<1> HIDE DEF u
<1> QED BY <1>3, <1>4, <1>5, <1>6, Utf8Is, Zenon

Enc == [n \in Character |-> String!Utf8(n)]

LEMMA EncType == Enc \in [Character -> Seq(Nat)] /\ \A n \in Character : Enc[n] = String!Utf8(n)
<1>1. \A n \in Character : String!Utf8(n) \in Seq(Nat)
  BY Utf8Type
<1> QED BY <1>1, Zenon DEF Enc

LEMMA SpeltThere ==
  ASSUME NEW n \in Character, NEW p \in Seq(Nat), NEW r \in Seq(Nat)
  PROVE  Spelt(n, (p \o String!Utf8(n)) \o r, Len(p) + 1)
<1> DEFINE q == String!Utf8(n)
           m == Len(p)
           k == Len(q)
           bs == (p \o q) \o r
<1>1. q \in Seq(Nat) /\ k \in 1 .. 4
  BY Utf8Type
<1>2. m \in Nat /\ Len(r) \in Nat
  OBVIOUS
<1> HIDE DEF q
<1>3. p \o q \in Seq(Nat) /\ Len(p \o q) = m + k
      /\ \A i \in 1 .. m + k : (p \o q)[i] = IF i <= m THEN p[i] ELSE q[i - m]
  BY <1>1, ConcatProperties
<1>4. Len(bs) = (m + k) + Len(r)
      /\ \A i \in 1 .. (m + k) + Len(r) : bs[i] = IF i <= m + k THEN (p \o q)[i] ELSE r[i - (m + k)]
  <2> DEFINE w == p \o q
  <2>1. w \in Seq(Nat) /\ Len(w) = m + k
    BY <1>3
  <2> HIDE DEF w, bs, m, k
  <2>2. Len(w \o r) = Len(w) + Len(r)
        /\ \A i \in 1 .. Len(w) + Len(r) : (w \o r)[i] = IF i <= Len(w) THEN w[i] ELSE r[i - Len(w)]
    BY <2>1, ConcatProperties
  <2> QED BY <2>1, <2>2, Zenon DEF w, bs
<1> HIDE DEF bs, m, k
<1>5. ASSUME NEW j \in 1 .. k PROVE bs[m + 1 + (j - 1)] = q[j]
  <2>1. /\ m + 1 + (j - 1) = m + j /\ (m + j) - m = j /\ m + j \in 1 .. m + k
        /\ ~(m + j <= m) /\ m + j <= m + k /\ m + j \in 1 .. (m + k) + Len(r)
    BY SMT, <1>1, <1>2
  <2> QED BY <1>3, <1>4, <2>1, Zenon
<1>6. m + 1 \in 1 .. (m + k) + Len(r) /\ (m + 1) + k - 1 <= (m + k) + Len(r)
  BY SMT, <1>1, <1>2
<1> QED BY <1>4, <1>5, <1>6, Zenon DEF Spelt, q, bs, m, k

LEMMA Halves ==
  ASSUME NEW X, NEW s \in Seq(X), NEW j \in 0 .. Len(s)
  PROVE  s = SubSeq(s, 1, j) \o SubSeq(s, j + 1, Len(s))
<1>1. 1 \in 1 .. Len(s) + 1 /\ Len(s) \in j .. Len(s) /\ j \in 1 - 1 .. Len(s)
  OBVIOUS
<1> QED BY <1>1, ConcatAdjacentSubSeq, SubSeqFull

Written(ps, k) == FlatMap(Enc, SubSeq(ps, 1, k))

LEMMA WrittenIs ==
  ASSUME NEW ps \in Seq(Character), NEW k \in 0 .. Len(ps) - 1
  PROVE  /\ Written(ps, k) \in Seq(Nat)
         /\ Written(ps, k + 1) = Written(ps, k) \o String!Utf8(ps[k + 1])
         /\ \E r \in Seq(Nat) : FlatMap(Enc, ps) = Written(ps, k + 1) \o r
<1> DEFINE p == SubSeq(ps, 1, k)
           a == ps[k + 1]
           b == <<a>>
           q == SubSeq(ps, 1, k + 1)
           r == SubSeq(ps, k + 2, Len(ps))
<1>1. /\ p \in Seq(Character) /\ a \in Character /\ b \in Seq(Character)
      /\ r \in Seq(Character) /\ q \in Seq(Character) /\ q = p \o b
  OBVIOUS
<1>2. ps = q \o r
  <2>1. k + 1 \in 0 .. Len(ps) /\ (k + 1) + 1 = k + 2
    OBVIOUS
  <2> QED BY <2>1, Halves, Zenon
<1> HIDE DEF p, a, q, r
<1>3. Joins(Enc, p, b) /\ Joins(Enc, q, r)
  <2> HIDE DEF b
  <2> QED BY <1>1, EncType, FlatMapConcat, Zenon
<1>4. FlatMap(Enc, b) = Enc[a] /\ Enc[a] = String!Utf8(a)
  BY <1>1, EncType, FlatMapOne, Zenon
<1>5. FlatMap(Enc, p) \in Seq(Nat) /\ FlatMap(Enc, r) \in Seq(Nat)
  BY <1>1, EncType, FlatMapType, Zenon
<1>6. FlatMap(Enc, q) = FlatMap(Enc, p) \o String!Utf8(a)
  BY <1>1, <1>3, <1>4, Zenon DEF Joins
<1>7. FlatMap(Enc, ps) = FlatMap(Enc, q) \o FlatMap(Enc, r)
  BY <1>2, <1>3, Zenon DEF Joins
<1> QED BY <1>5, <1>6, <1>7, Zenon DEF Written, p, a, q

LEMMA WrittenEnds ==
  ASSUME NEW ps \in Seq(Character)
  PROVE  Written(ps, 0) = <<>> /\ Written(ps, Len(ps)) = FlatMap(Enc, ps)
<1>1. SubSeq(ps, 1, 0) = <<>> /\ SubSeq(ps, 1, Len(ps)) = ps
  OBVIOUS
<1> QED BY <1>1, FlatMapEmpty, Zenon DEF Written

\* What is written is read.
LEMMA Decoded ==
  ASSUME NEW ps \in Seq(Character)
  PROVE  String!CodePoints(FlatMap(Enc, ps)) = ps
<1> DEFINE bs == FlatMap(Enc, ps)
           m == Len(ps)
           Start(k) == Len(Written(ps, k)) + 1
           Rest(k) == SubSeq(ps, k + 1, m)
<1>0. bs \in Seq(Nat) /\ m \in Nat
  <2>1. bs \in Seq(Nat)
    BY EncType, FlatMapType, Zenon
  <2> QED BY <2>1
<1> HIDE DEF bs
<1>1. PICK f : Steps(bs, f) /\ String!CodePoints(bs) = f[1]
  BY <1>0, CodePointsIs
<1> DEFINE T == {d \in 0 .. m : f[Start(m - d)] = Rest(m - d)}
<1>2. 0 \in T
  <2>1. m - 0 = m /\ Rest(m) = <<>> /\ 0 \in 0 .. m
    BY <1>0
  <2>2. Start(m) = Len(bs) + 1
    BY WrittenEnds, Zenon DEF bs
  <2>3. f[Len(bs) + 1] = <<>>
    BY <1>1 DEF Steps
  <2> HIDE DEF Start, Rest
  <2> QED BY <2>1, <2>2, <2>3, Zenon
<1>3. ASSUME NEW d \in 0 .. m - 1, d \in T PROVE d + 1 \in T
  <2> DEFINE k == m - (d + 1)
             c == ps[k + 1]
             w == Written(ps, k)
             u == String!Utf8(c)
  <2>1. k \in 0 .. m - 1 /\ k + 1 = m - d /\ d + 1 \in 0 .. m
    BY <1>0
  <2> HIDE DEF k
  <2>2. c \in Character
    BY <1>0, <2>1
  <2>3. w \in Seq(Nat) /\ Written(ps, k + 1) = w \o u
        /\ \E r \in Seq(Nat) : bs = (w \o u) \o r
    BY <2>1, WrittenIs, Zenon DEF bs
  <2>4. u \in Seq(Nat) /\ Len(u) \in 1 .. 4
    BY <2>2, Utf8Type
  <2> HIDE DEF w, u, c
  <2>5. Spelt(c, bs, Len(w) + 1)
    <3>1. PICK r \in Seq(Nat) : bs = (w \o u) \o r
      BY <2>3
    <3> QED BY <2>2, <2>3, <3>1, SpeltThere, Zenon DEF u
  <2>6. Start(k) = Len(w) + 1 /\ Start(k + 1) = Start(k) + Len(u)
    <3>1. Len(w \o u) = Len(w) + Len(u) /\ Len(w) \in Nat
      BY <2>3, <2>4, ConcatProperties
    <3>2. Start(k) = Len(w) + 1
      BY Zenon DEF w
    <3>3. Start(k + 1) = Len(w) + Len(u) + 1
      BY <2>3, <3>1, Zenon
    <3>4. (Len(w) + Len(u)) + 1 = (Len(w) + 1) + Len(u)
      BY SMT, <2>4, <3>1
    <3> QED BY <3>2, <3>3, <3>4, Zenon
  <2> HIDE DEF Start
  <2>7. String!PointAt(bs, Start(k)) = [n |-> c, size |-> Len(u)]
    BY <1>0, <2>2, <2>5, <2>6, PointIs, Zenon DEF u
  <2>8. Start(k) \in 1 .. Len(bs)
    BY <2>5, <2>6, Zenon DEF Spelt
  <2>9. f[Start(k)] = <<c>> \o f[Start(k + 1)]
    <3>1. f[Start(k)] = <<String!PointAt(bs, Start(k)).n>>
                          \o f[Start(k) + String!PointAt(bs, Start(k)).size]
      BY <1>1, <2>8, Zenon DEF Steps
    <3>2. [n |-> c, size |-> Len(u)].n = c /\ [n |-> c, size |-> Len(u)].size = Len(u)
      OBVIOUS
    <3> QED BY <2>6, <2>7, <3>1, <3>2, Zenon
  <2>10. f[Start(k + 1)] = Rest(k + 1)
    <3>1. f[Start(m - d)] = Rest(m - d)
      BY <1>3
    <3> HIDE DEF Rest
    <3> QED BY <2>1, <3>1, Zenon
  <2>11. Rest(k) = <<c>> \o Rest(k + 1)
    BY <1>0, <2>1, <2>2 DEF c
  <2> HIDE DEF Rest
  <2>12. f[Start(k)] = Rest(k)
    BY <2>9, <2>10, <2>11, Zenon
  <2> QED BY <2>1, <2>12, Zenon DEF k
<1>4. m \in T
  <2> HIDE DEF T, m
  <2> QED BY <1>0, <1>2, <1>3, Upward
<1>5. f[Start(0)] = Rest(0)
  <2>1. m - m = 0
    BY <1>0
  <2>2. f[Start(m - m)] = Rest(m - m)
    BY <1>4
  <2> HIDE DEF Start, Rest
  <2> QED BY <2>1, <2>2, Zenon
<1>6. Start(0) = 1 /\ Rest(0) = ps
  <2>1. Len(<<>>) + 1 = 1 /\ Rest(0) = ps
    BY <1>0
  <2> HIDE DEF Rest
  <2> QED BY <2>1, WrittenEnds, Zenon
<1> HIDE DEF Start, Rest
<1> QED BY <1>1, <1>5, <1>6, Zenon DEF bs

-----------------------------------------------------------------------------
(***************************************************************************)
(* Units, what they mean and the room they get.                            *)
(***************************************************************************)
Kinds == {"byte", "char", "esc", "u", "cut", "bad"}
Unit(u) == u.kind \in Kinds /\ u.n \in Nat /\ (u.kind = "char" => u.n \in Character)

LEMMA UnitIs ==
  ASSUME NEW u \in StringUnits
  PROVE  /\ Unit(u) /\ u.n \in Character
         /\ u.kind \in {"byte", "esc"} => u.n < 128
<1>1. \A n \in Ascii : n \in Character /\ n \in Nat /\ n < 128
  BY SMT, Space DEF Ascii, Character
<1>2. \A n \in Beyond : n \in Character /\ n \in Nat
  BY SMT, Space DEF Beyond, Character
<1>3. \A n \in Hexadecimal : n \in Character /\ n \in Nat
  <2> SUFFICES ASSUME NEW n \in Hexadecimal PROVE n \in Character /\ n \in Nat
    BY Zenon
  <2>1. n \in Nat /\ n <= 65535
    BY SMT DEF Hexadecimal
  <2>2. n < CodeSpace
    BY SMT, <2>1, Space
  <2> QED BY SMT, <2>1, <2>2, Space DEF Character
<1>4. \/ u.kind \in {"byte", "esc"} /\ u.n \in Ascii
      \/ u.kind \in {"char"} /\ u.n \in Beyond
      \/ u.kind \in {"u"} /\ u.n \in Hexadecimal
      \/ u.kind \in {"cut", "bad"} /\ u.n \in Ascii
  BY DEF StringUnits
<1> QED BY <1>1, <1>2, <1>3, <1>4, Zenon DEF Unit, Kinds

LEMMA CountedIs ==
  ASSUME NEW u, Unit(u)
  PROVE  /\ String!Counted(u) \in Nat
         /\ u.kind \in {"byte", "esc"} => String!Counted(u) = 1
         /\ u.kind = "char" => String!Counted(u) = Len(String!Utf8(u.n))
         /\ u.kind = "u" => String!Counted(u) = 5
<1> DEFINE k == u.kind
           z == Len(String!Utf8(u.n))
<1>1. k \in Kinds /\ (k = "char" => z \in Nat)
  <2>1. k = "char" => z \in 1 .. 4
    BY Utf8Type, Zenon DEF Unit
  <2> HIDE DEF z
  <2> QED BY <2>1 DEF Unit
<1>2. String!Length(u) = CASE k = "byte" -> 1 [] k = "char" -> z [] k = "u" -> 6 [] OTHER -> 2
  BY Zenon DEF String!Length
<1>3. String!Counted(u) = IF k \in {"byte", "char"} THEN String!Length(u) ELSE String!Length(u) - 1
  BY Zenon DEF String!Counted
<1> HIDE DEF k, z
<1>4. /\ String!Counted(u) \in Nat
      /\ k \in {"byte", "esc"} => String!Counted(u) = 1
      /\ k = "char" => String!Counted(u) = z
      /\ k = "u" => String!Counted(u) = 5
  BY <1>1, <1>2, <1>3 DEF Kinds
<1> QED BY <1>4, Zenon DEF k, z

Counts(l, g) == /\ g \in [0 .. Len(l) -> Nat] /\ g[0] = 2
                /\ \A i \in 1 .. Len(l) : g[i] = g[i - 1] + String!Counted(l[i])

AreUnits(l) == Len(l) \in Nat /\ DOMAIN l = 1 .. Len(l) /\ \A i \in 1 .. Len(l) : Unit(l[i])

LEMMA RoomIs ==
  ASSUME NEW l, AreUnits(l)
  PROVE  \E g : Counts(l, g) /\ String!RoomFor(l) = g[Len(l)]
<1> DEFINE n == Len(l)
           two == 2
           f == [p \in (1 .. n) \X Nat |-> p[2] + String!Counted(l[p[1]])]
           F(h) == [i \in 0 .. Len(l) |-> IF i = 0 THEN 2 ELSE h[i - 1] + String!Counted(l[i])]
           Sum == CHOOSE h : h = F(h)
<1>1. n \in Nat /\ \A i \in 1 .. n : String!Counted(l[i]) \in Nat
  BY CountedIs, Zenon DEF AreUnits
<1>2. f \in [(1 .. n) \X Nat -> Nat]
  <2> HIDE DEF n
  <2> QED BY <1>1
<1>3. \A i \in 1 .. n, x \in Nat : f[<<i, x>>] = x + String!Counted(l[i])
  <2> HIDE DEF n
  <2> QED OBVIOUS
<1>4. two \in Nat
  OBVIOUS
<1> HIDE DEF f, two
<1>5. PICK g : Iterates(g, Nat, two, n, f)
  BY <1>1, <1>2, <1>4, Recursion
<1>6. g \in [0 .. n -> Nat] /\ g[0] = 2 /\ \A i \in 1 .. n : g[i] = f[<<i, g[i - 1]>>]
  BY <1>5, Zenon DEF Iterates, two
<1>7. \A i \in 1 .. n : g[i] = g[i - 1] + String!Counted(l[i])
  <2> SUFFICES ASSUME NEW i \in 1 .. n PROVE g[i] = g[i - 1] + String!Counted(l[i])
    BY Zenon
  <2> HIDE DEF n
  <2>1. i - 1 \in 0 .. n
    BY <1>1
  <2>2. g[i - 1] \in Nat
    BY <1>6, <2>1
  <2> QED BY <1>3, <1>6, <2>2, Zenon
<1>8. \A i \in 0 .. n : i # 0 => i \in 1 .. n
  BY <1>1
<1>9. g = F(g)
  <2>1. \A i \in 0 .. n : g[i] = F(g)[i]
    BY <1>6, <1>7, <1>8, Zenon
  <2>2. g = [i \in 0 .. n |-> g[i]]
    BY <1>6
  <2> QED BY <2>1, <2>2, Zenon
<1>10. Sum = F(Sum)
  BY <1>9
<1>11. String!RoomFor(l) = Sum[n]
  BY Zenon DEF String!RoomFor
<1> HIDE DEF Sum
<1>12. \A i \in 0 .. n : Sum[i] = IF i = 0 THEN 2 ELSE Sum[i - 1] + String!Counted(l[i])
  BY <1>10, Zenon
<1>13. \A k \in 0 .. n : Sum[k] = g[k]
  <2> DEFINE T == {k \in 0 .. n : Sum[k] = g[k]}
  <2> HIDE DEF n
  <2>1. 0 \in 0 .. n
    BY <1>1
  <2>2. 0 \in T
    BY <1>6, <1>12, <2>1, Zenon
  <2>3. ASSUME NEW k \in 0 .. n - 1, k \in T PROVE k + 1 \in T
    <3>1. k + 1 \in 1 .. n /\ k + 1 \in 0 .. n /\ (k + 1) - 1 = k /\ k + 1 # 0
      BY <1>1
    <3>2. Sum[k + 1] = Sum[k] + String!Counted(l[k + 1])
      BY <1>12, <3>1, Zenon
    <3>3. g[k + 1] = g[k] + String!Counted(l[k + 1])
      BY <1>7, <3>1, Zenon
    <3>4. Sum[k] = g[k]
      BY <2>3
    <3>5. Sum[k + 1] = g[k + 1]
      BY <3>2, <3>3, <3>4, Zenon
    <3> QED BY <3>1, <3>5
  <2>4. ASSUME NEW k \in 0 .. n PROVE k \in T
    <3>1. k \in Nat /\ \A i \in 0 .. k - 1 : i \in T => i + 1 \in T
      BY <1>1, <2>3
    <3> HIDE DEF T
    <3> QED BY <2>2, <3>1, Upward
  <2> QED BY <2>4
<1>14. n \in 0 .. n
  BY <1>1
<1> QED BY <1>6, <1>7, <1>11, <1>13, <1>14, Zenon DEF Counts

\* It only grows.
LEMMA RoomGrows ==
  ASSUME NEW l, Len(l) \in Nat, NEW g, Counts(l, g), AreUnits(l), NEW k \in 0 .. Len(l)
  PROVE  g[k] \in Nat /\ g[k] <= g[Len(l)]
<1> DEFINE n == Len(l)
           T == {d \in 0 .. n - k : g[k] <= g[k + d]}
<1>1. /\ n \in Nat /\ g \in [0 .. n -> Nat] /\ k \in 0 .. n
      /\ \A i \in 1 .. n : g[i] = g[i - 1] + String!Counted(l[i]) /\ String!Counted(l[i]) \in Nat
  BY CountedIs, Zenon DEF Counts, AreUnits
<1> HIDE DEF n
<1>2. n - k \in Nat /\ k + (n - k) = n /\ g[k] \in Nat
  BY <1>1
<1>3. 0 \in T
  BY <1>1
<1>4. ASSUME NEW d \in 0 .. (n - k) - 1, d \in T PROVE d + 1 \in T
  <2> DEFINE c == String!Counted(l[k + (d + 1)])
  <2>1. k + (d + 1) \in 1 .. n /\ (k + (d + 1)) - 1 = k + d /\ k + d \in 0 .. n
        /\ d + 1 \in 0 .. n - k
    BY SMT, <1>1, <1>2
  <2>2. g[k + (d + 1)] = g[k + d] + c /\ c \in Nat
    BY <1>1, <2>1, Zenon
  <2>3. g[k] <= g[k + d] /\ g[k + d] \in Nat
    BY <1>1, <1>4, <2>1
  <2> HIDE DEF c
  <2>4. g[k] <= g[k + (d + 1)]
    BY <1>2, <2>2, <2>3
  <2> QED BY <2>1, <2>4
<1>5. n - k \in T
  <2> DEFINE m == n - k
  <2>1. m \in Nat /\ \A d \in 0 .. m - 1 : d \in T => d + 1 \in T
    BY <1>2, <1>4
  <2> HIDE DEF T, m
  <2>2. m \in T
    BY <1>3, <2>1, Upward
  <2> QED BY <2>2 DEF m
<1> QED BY <1>2, <1>5, Zenon DEF n

High(u) == String!HighHalf(u)
Low(u) == String!LowHalf(u)

LEMMA PairIs ==
  ASSUME NEW u, NEW v, u.n \in Nat, v.n \in Nat
  PROVE  String!Pair(u, v) \in Character
<1> DEFINE a == u.n % 1024
           b == v.n % 1024
<1>1. a \in 0 .. 1023 /\ b \in 0 .. 1023
  <2> DEFINE x == u.n
             y == v.n
  <2>1. x \in Nat /\ y \in Nat
    OBVIOUS
  <2> HIDE DEF x, y
  <2>2. x % 1024 \in 0 .. 1023 /\ y % 1024 \in 0 .. 1023
    BY SMT, <2>1
  <2> QED BY SMT, <2>2 DEF x, y
<1>2. String!Pair(u, v) = 65536 + a * 1024 + b
  BY SMT DEF String!Pair
<1> HIDE DEF a, b
<1>3. 65536 + a * 1024 + b \in Nat /\ 65536 + a * 1024 + b < CodeSpace
  BY SMT, <1>1 DEF CodeSpace
<1> DEFINE p == String!Pair(u, v)
<1>4. p \in Nat /\ p < CodeSpace
  BY SMT, <1>2, <1>3
<1> HIDE DEF p
<1>5. p \in Character
  BY SMT, <1>4, Space DEF Character
<1> QED BY <1>5 DEF p

Mean(l, i) == IF High(l[i]) THEN <<String!Pair(l[i], l[i + 1])>>
              ELSE IF Low(l[i]) THEN <<>> ELSE <<l[i].n>>
Meaning(l, k) == [i \in 1 .. k |-> Mean(l, i)]
Said(l, k) == Ext!FlattenSeq(Meaning(l, k))
Passed(l, k) == \A i \in 1 .. k : High(l[i]) => i < Len(l) /\ Low(l[i + 1])

LEMMA MeanType ==
  ASSUME NEW l \in Seq(StringUnits), NEW i \in 1 .. Len(l),
         High(l[i]) => i < Len(l) /\ Low(l[i + 1])
  PROVE  Mean(l, i) \in Seq(Character)
<1>1. l[i] \in StringUnits
  BY ElementOfSeq
<1>2. l[i].n \in Nat /\ l[i].n \in Character
  BY <1>1, UnitIs, Zenon DEF Unit
<1>3. CASE High(l[i])
  <2>1. i + 1 \in 1 .. Len(l)
    BY <1>3, LenProperties
  <2>2. l[i + 1] \in StringUnits
    BY <2>1, ElementOfSeq
  <2>3. l[i + 1].n \in Nat
    BY <2>2, UnitIs, Zenon DEF Unit
  <2>4. String!Pair(l[i], l[i + 1]) \in Character
    BY <1>2, <2>3, PairIs
  <2> DEFINE p == String!Pair(l[i], l[i + 1])
  <2>5. Mean(l, i) = <<p>>
    BY <1>3, Zenon DEF Mean
  <2> HIDE DEF p
  <2>6. p \in Character
    BY <2>4, Zenon DEF p
  <2>7. <<p>> \in Seq(Character)
    BY <2>6
  <2> QED BY <2>5, <2>7, Zenon
<1>4. CASE ~High(l[i])
  <2> DEFINE p == l[i].n
  <2>1. Mean(l, i) = <<>> \/ Mean(l, i) = <<p>>
    BY <1>4, Zenon DEF Mean
  <2>2. p \in Character
    BY <1>2, Zenon
  <2> HIDE DEF p
  <2>3. <<p>> \in Seq(Character) /\ <<>> \in Seq(Character)
    BY <2>2
  <2> QED BY <2>1, <2>3, Zenon
<1> QED BY <1>3, <1>4

LEMMA SaidMore ==
  ASSUME NEW l \in Seq(StringUnits), NEW k \in 0 .. Len(l) - 1, Passed(l, k + 1)
  PROVE  FlatMap(Enc, Said(l, k + 1)) = FlatMap(Enc, Said(l, k)) \o FlatMap(Enc, Mean(l, k + 1))
<1> DEFINE p == Meaning(l, k)
           x == Mean(l, k + 1)
           C == Character
<1>0. /\ Len(l) \in Nat /\ k + 1 \in 1 .. Len(l)
      /\ \A i \in 1 .. k : i \in 1 .. Len(l) /\ i \in 1 .. k + 1
  BY LenProperties
<1>1. x \in Seq(C) /\ \A i \in 1 .. k : Mean(l, i) \in Seq(C)
  <2>1. k + 1 \in 1 .. k + 1
    OBVIOUS
  <2> QED BY <1>0, <2>1, MeanType, Zenon DEF Passed
<1>2. p \in Seq(Seq(C)) /\ Len(p) = k
  <2> DEFINE Y == Seq(C)
  <2>1. \A i \in 1 .. k : Mean(l, i) \in Y
    BY <1>1
  <2> HIDE DEF Y
  <2>2. p \in Seq(Y) /\ Len(p) = k
    BY <2>1 DEF Meaning
  <2> QED BY <2>2 DEF Y
<1>3. Meaning(l, k + 1) = Append(p, x)
  <2> DEFINE Y == Seq(C)
  <2>1. \A i \in 1 .. k : Mean(l, i) \in Y
    BY <1>1
  <2>2. p \in Seq(Y) /\ Len(p) = k /\ x \in Y
    BY <1>1, <1>2
  <2>3. \A i \in 1 .. k : p[i] = Mean(l, i)
    BY DEF Meaning
  <2> HIDE DEF Y, p
  <2>4. Append(p, x) = [i \in 1 .. k + 1 |-> IF i = k + 1 THEN x ELSE p[i]]
    BY <2>2
  <2>5. \A i \in 1 .. k + 1 : (IF i = k + 1 THEN x ELSE p[i]) = Mean(l, i)
    <3>1. \A i \in 1 .. k + 1 : i # k + 1 => i \in 1 .. k
      OBVIOUS
    <3> QED BY <2>3, <3>1, Zenon
  <2> HIDE DEF x
  <2>6. Append(p, x) = [i \in 1 .. k + 1 |-> Mean(l, i)]
    BY <2>4, <2>5, Zenon
  <2> QED BY <2>6, Zenon DEF Meaning
<1> HIDE DEF p, x
<1>4. Ext!FlattenSeq(Append(p, x)) = Ext!FlattenSeq(p) \o x /\ Ext!FlattenSeq(p) \in Seq(C)
  <2> HIDE DEF C
  <2> QED BY <1>1, <1>2, FlatAppend, FlatType
<1>5. Said(l, k + 1) = Said(l, k) \o x /\ Said(l, k) \in Seq(C)
  BY <1>3, <1>4, Zenon DEF Said, p
<1>6. Joins(Enc, Said(l, k), x)
  BY <1>1, <1>5, EncType, FlatMapConcat, Zenon
<1> QED BY <1>5, <1>6, Zenon DEF Joins, x

LEMMA SaidType ==
  ASSUME NEW l \in Seq(StringUnits), NEW k \in 0 .. Len(l), Passed(l, k)
  PROVE  Said(l, k) \in Seq(Character)
<1>1. \A i \in 1 .. k : i \in 1 .. Len(l)
  BY LenProperties
<1> DEFINE Y == Seq(Character)
<1>2. \A i \in 1 .. k : Mean(l, i) \in Y
  BY <1>1, MeanType, Zenon DEF Passed
<1>3. Meaning(l, k) \in Seq(Y)
  <2> HIDE DEF Y
  <2> QED BY <1>2 DEF Meaning
<1> QED BY <1>3, FlatType, Zenon DEF Said

-----------------------------------------------------------------------------
(***************************************************************************)
(* The invariant.                                                          *)
(***************************************************************************)
RoomLeft(l, at, r, bs) ==
  \E g : Counts(l, g) /\ r = g[Len(l)] /\ Len(bs) + 2 <= g[at - 1]

FirstRead(l, at, bs) == /\ l \in Seq(StringUnits) /\ Passed(l, at - 1)
                        /\ bs = FlatMap(Enc, Said(l, at - 1))

SecondRead(l, at, bs, ph, o) == /\ o \in Seq(Nat) /\ l = String!Escaped(o)
                                /\ bs = SubSeq(o, 1, at - 1) /\ ph # "failed"

Stands(l, at, r, bs, ph, o) ==
  /\ AreUnits(l) /\ at \in 1 .. Len(l) + 1 /\ bs \in Seq(Nat)
  /\ ph = "done" => at = Len(l) + 1
  /\ RoomLeft(l, at, r, bs)
  /\ o = String!NotYet => FirstRead(l, at, bs)
  /\ o # String!NotYet => SecondRead(l, at, bs, ph, o)

StringInv == Stands(literal, position, room, bytes, stringPhase, printed)

LEMMA NoHalf ==
  ASSUME NEW u, Unit(u)
  PROVE  /\ u.kind # "u" => ~High(u) /\ ~Low(u)
         /\ u.n < 32 => ~High(u) /\ ~Low(u)
         /\ Low(u) => ~High(u)
<1> DEFINE n == u.n
<1>1. /\ High(u) <=> u.kind = "u" /\ n \div 1024 = 54
      /\ Low(u) <=> u.kind = "u" /\ n \div 1024 = 55
  BY Zenon DEF High, Low, String!HighHalf, String!LowHalf
<1>2. n \in Nat
  BY DEF Unit
<1> HIDE DEF n
<1>3. n < 32 => ~(n \div 1024 = 54) /\ ~(n \div 1024 = 55)
  BY SMT, <1>2
<1>4. ~(n \div 1024 = 55 /\ n \div 1024 = 54)
  BY SMT, <1>2
<1>5. /\ u.kind # "u" => ~High(u) /\ ~Low(u)
      /\ n < 32 => ~High(u) /\ ~Low(u)
      /\ Low(u) => ~High(u)
  BY <1>1, <1>3, <1>4, Zenon
<1> QED BY <1>5, Zenon DEF n

LEMMA Utf8Ascii ==
  ASSUME NEW n \in Nat, n < 128
  PROVE  String!Utf8(n) = <<n>>
  BY SMT DEF String!Utf8

LEMMA UnitsAre == ASSUME NEW l \in Seq(StringUnits) PROVE AreUnits(l)
<1>1. Len(l) \in Nat /\ DOMAIN l = 1 .. Len(l) /\ \A i \in 1 .. Len(l) : l[i] \in StringUnits
  BY LenProperties, ElementOfSeq
<1> QED BY <1>1, UnitIs, Zenon DEF AreUnits

Says(l, k, j, x) == /\ Passed(l, j)
                    /\ FlatMap(Enc, Said(l, j)) = FlatMap(Enc, Said(l, k)) \o x

LEMMA SaysOne ==
  ASSUME NEW l \in Seq(StringUnits), NEW k \in 0 .. Len(l) - 1, Passed(l, k),
         ~High(l[k + 1]), ~Low(l[k + 1])
  PROVE  Says(l, k, k + 1, String!Utf8(l[k + 1].n))
<1> DEFINE n == l[k + 1].n
<1>1. k + 1 \in 1 .. Len(l) /\ \A i \in 1 .. k + 1 : i \in 1 .. k \/ i = k + 1
  BY LenProperties
<1>2. n \in Character
  <2>1. l[k + 1] \in StringUnits
    BY <1>1, ElementOfSeq
  <2> QED BY <2>1, UnitIs, Zenon
<1>3. Passed(l, k + 1)
  BY <1>1, Zenon DEF Passed
<1>4. Mean(l, k + 1) = <<n>>
  BY Zenon DEF Mean
<1>5. FlatMap(Enc, Said(l, k + 1)) = FlatMap(Enc, Said(l, k)) \o FlatMap(Enc, Mean(l, k + 1))
  BY <1>3, SaidMore
<1> HIDE DEF n
<1>6. FlatMap(Enc, <<n>>) = String!Utf8(n)
  BY <1>2, EncType, FlatMapOne, Zenon
<1> QED BY <1>3, <1>4, <1>5, <1>6, Zenon DEF Says, n

LEMMA SaysPair ==
  ASSUME NEW l \in Seq(StringUnits), NEW k \in 0 .. Len(l) - 1, Passed(l, k),
         High(l[k + 1]), k + 1 < Len(l), Low(l[k + 2])
  PROVE  Says(l, k, k + 2, String!Utf8(String!Pair(l[k + 1], l[k + 2])))
<1> DEFINE p == String!Pair(l[k + 1], l[k + 2])
           x == FlatMap(Enc, Said(l, k))
           y == String!Utf8(p)
<1>1. /\ k + 1 \in 1 .. Len(l) /\ k + 2 \in 1 .. Len(l) /\ (k + 1) + 1 = k + 2
      /\ \A i \in 1 .. k + 1 : i \in 1 .. k \/ i = k + 1
      /\ \A i \in 1 .. k + 2 : i \in 1 .. k + 1 \/ i = k + 2
      /\ k + 1 \in 0 .. Len(l) - 1 /\ k \in 0 .. Len(l)
  BY LenProperties
<1>2. Unit(l[k + 1]) /\ Unit(l[k + 2])
  <2>1. l[k + 1] \in StringUnits /\ l[k + 2] \in StringUnits
    BY <1>1, ElementOfSeq
  <2> QED BY <2>1, UnitIs, Zenon
<1>3. ~High(l[k + 2])
  BY <1>2, NoHalf, Zenon
<1>4. p \in Character
  BY <1>2, PairIs, Zenon DEF Unit
<1>5. Passed(l, k + 1)
  BY <1>1, Zenon DEF Passed
<1>6. Passed(l, k + 2)
  BY <1>1, <1>3, <1>5, Zenon DEF Passed
<1>7. Mean(l, k + 1) = <<p>> /\ Mean(l, k + 2) = <<>>
  BY <1>1, <1>3, Zenon DEF Mean
<1>8. FlatMap(Enc, Said(l, k + 1)) = x \o FlatMap(Enc, Mean(l, k + 1))
  BY <1>5, SaidMore
<1>9. FlatMap(Enc, Said(l, k + 2)) = FlatMap(Enc, Said(l, k + 1)) \o FlatMap(Enc, Mean(l, k + 2))
  BY <1>1, <1>6, SaidMore, Zenon
<1>10. x \in Seq(Nat)
  <2>1. Said(l, k) \in Seq(Character)
    BY <1>1, SaidType, Zenon
  <2> QED BY <2>1, EncType, FlatMapType, Zenon
<1> HIDE DEF p, x
<1>11. FlatMap(Enc, <<p>>) = y /\ FlatMap(Enc, <<>>) = <<>>
  BY <1>4, EncType, FlatMapOne, Zenon
<1>12. (x \o y) \o <<>> = x \o y
  <2>1. y \in Seq(Nat)
    BY <1>4, Utf8Type
  <2> HIDE DEF y
  <2>2. x \o y \in Seq(Nat)
    BY <1>10, <2>1, ConcatProperties
  <2> QED BY <2>2, ConcatEmptySeq
<1>13. FlatMap(Enc, Said(l, k + 2)) = x \o y
  BY <1>7, <1>8, <1>9, <1>11, <1>12, Zenon
<1> QED BY <1>6, <1>13, Zenon DEF Says, p, x

LEMMA EscapedIs ==
  ASSUME NEW o \in Seq(Nat)
  PROVE  /\ AreUnits(String!Escaped(o)) /\ Len(String!Escaped(o)) = Len(o)
         /\ \A i \in 1 .. Len(o) :
              /\ String!Escaped(o)[i].n = o[i]
              /\ \/ String!Escaped(o)[i].kind \in {"esc", "byte"}
                 \/ String!Escaped(o)[i].kind = "u" /\ o[i] < 32
<1> DEFINE n == Len(o)
           K(i) == IF o[i] \in String!Letters THEN "esc" ELSE IF o[i] < 32 THEN "u" ELSE "byte"
           e == [i \in 1 .. n |-> [n |-> o[i], kind |-> K(i)]]
<1>1. n \in Nat /\ DOMAIN o = 1 .. n /\ \A i \in 1 .. n : o[i] \in Nat
  BY LenProperties, ElementOfSeq
<1>2. String!Escaped(o) = e
  BY <1>1, Zenon DEF String!Escaped
<1>3. \A i \in 1 .. n : K(i) \in {"esc", "byte"} \/ (K(i) = "u" /\ o[i] < 32)
  OBVIOUS
<1> HIDE DEF K, n
<1>4. \A i \in 1 .. n : e[i].n = o[i] /\ e[i].kind = K(i)
  BY <1>1
<1>5. e \in Seq([n : Nat, kind : {K(i) : i \in 1 .. n}])
  BY <1>1
<1>6. Len(e) = n /\ DOMAIN e = 1 .. n
  BY <1>1, <1>5
<1> HIDE DEF e
<1>7. \A i \in 1 .. n : Unit(e[i])
  BY <1>1, <1>3, <1>4, Zenon DEF Unit, Kinds
<1>8. AreUnits(e)
  BY <1>1, <1>6, <1>7, Zenon DEF AreUnits
<1> QED BY <1>2, <1>3, <1>4, <1>6, <1>8, Zenon DEF n

LEMMA EscapedOne ==
  ASSUME NEW o \in Seq(Nat), NEW l, l = String!Escaped(o), NEW k \in 0 .. Len(l) - 1
  PROVE  /\ SubSeq(o, 1, k + 1) = SubSeq(o, 1, k) \o <<l[k + 1].n>>
         /\ l[k + 1].n \in Nat
         /\ \/ l[k + 1].kind \in {"esc", "byte"}
            \/ l[k + 1].kind = "u" /\ l[k + 1].n < 32
<1> DEFINE a == l[k + 1].n
<1>1. Len(l) = Len(o) /\ Len(o) \in Nat
  BY EscapedIs, LenProperties
<1>2. k + 1 \in 1 .. Len(o) /\ k \in 0 .. Len(o) - 1
  BY <1>1
<1>3. a = o[k + 1] /\ (l[k + 1].kind \in {"esc", "byte"} \/ (l[k + 1].kind = "u" /\ a < 32))
  BY <1>2, EscapedIs, Zenon
<1> HIDE DEF a
<1>4. SubSeq(o, 1, k + 1) = SubSeq(o, 1, k) \o <<o[k + 1]>> /\ o[k + 1] \in Nat
  BY <1>2
<1> QED BY <1>3, <1>4, Zenon DEF a

-----------------------------------------------------------------------------
(***************************************************************************)
(* The steps.                                                              *)
(***************************************************************************)
Roomy(l, k, j, x) == \A g : Counts(l, g) => g[k] + Len(x) <= g[j]

LEMMA Onward ==
  ASSUME NEW l, NEW at, NEW r, NEW bs, NEW o, Stands(l, at, r, bs, "reading", o),
         NEW x \in Seq(Nat), NEW to, to \in 1 .. Len(l) + 1,
         Roomy(l, at - 1, to - 1, x),
         o = String!NotYet => Says(l, at - 1, to - 1, x),
         o # String!NotYet => SubSeq(o, 1, to - 1) = SubSeq(o, 1, at - 1) \o x
  PROVE  Stands(l, to, r, bs \o x, "reading", o)
<1>1. /\ AreUnits(l) /\ bs \in Seq(Nat) /\ RoomLeft(l, at, r, bs) /\ at \in 1 .. Len(l) + 1
      /\ o = String!NotYet => FirstRead(l, at, bs)
      /\ o # String!NotYet => SecondRead(l, at, bs, "reading", o)
  BY Zenon DEF Stands
<1>2. bs \o x \in Seq(Nat) /\ Len(bs \o x) = Len(bs) + Len(x) /\ Len(bs) \in Nat /\ Len(x) \in Nat
  BY <1>1, ConcatProperties, LenProperties
<1>3. RoomLeft(l, to, r, bs \o x)
  <2>1. PICK g : Counts(l, g) /\ r = g[Len(l)] /\ Len(bs) + 2 <= g[at - 1]
    BY <1>1 DEF RoomLeft
  <2>2. g[at - 1] + Len(x) <= g[to - 1]
    BY <2>1, Zenon DEF Roomy
  <2>3. Len(l) \in Nat /\ at - 1 \in 0 .. Len(l) /\ to - 1 \in 0 .. Len(l)
    BY <1>1 DEF AreUnits
  <2>4. g[at - 1] \in Nat /\ g[to - 1] \in Nat
    BY <1>1, <2>1, <2>3, RoomGrows
  <2>5. Len(bs \o x) + 2 <= g[to - 1]
    <3> DEFINE a == g[at - 1]
               b == g[to - 1]
               m == Len(bs)
               n == Len(x)
    <3>1. a \in Nat /\ b \in Nat /\ m \in Nat /\ n \in Nat /\ a + n <= b /\ m + 2 <= a
      BY <1>2, <2>1, <2>2, <2>4
    <3> HIDE DEF a, b, m, n
    <3>2. (m + n) + 2 <= b
      BY <3>1
    <3> QED BY <1>2, <3>2 DEF b, m, n
  <2> QED BY <2>1, <2>5, Zenon DEF RoomLeft
<1>4. ASSUME o = String!NotYet PROVE FirstRead(l, to, bs \o x)
  BY <1>1, <1>4, Zenon DEF FirstRead, Says
<1>5. ASSUME o # String!NotYet PROVE SecondRead(l, to, bs \o x, "reading", o)
  BY <1>1, <1>5, Zenon DEF SecondRead
<1>6. "reading" # "done"
  OBVIOUS
<1> QED BY <1>1, <1>2, <1>3, <1>4, <1>5, <1>6, Zenon DEF Stands

\* What a unit gets is at least what it takes.
LEMMA RoomyOne ==
  ASSUME NEW l, AreUnits(l), NEW k \in 0 .. Len(l) - 1, NEW x, Len(x) \in Nat,
         Len(x) <= String!Counted(l[k + 1])
  PROVE  Roomy(l, k, k + 1, x)
<1> SUFFICES ASSUME NEW g, Counts(l, g) PROVE g[k] + Len(x) <= g[k + 1]
  BY Zenon DEF Roomy
<1>1. Len(l) \in Nat
  BY DEF AreUnits
<1>2. k + 1 \in 1 .. Len(l) /\ k \in 0 .. Len(l) /\ (k + 1) - 1 = k
  BY <1>1
<1>3. g[k + 1] = g[k] + String!Counted(l[k + 1])
  BY <1>2, Zenon DEF Counts
<1>4. g[k] \in Nat
  BY <1>1, <1>2, RoomGrows
<1>5. String!Counted(l[k + 1]) \in Nat
  BY <1>2, CountedIs, Zenon DEF AreUnits
<1> DEFINE a == g[k]
           c == String!Counted(l[k + 1])
           n == Len(x)
<1>6. a \in Nat /\ c \in Nat /\ n \in Nat /\ n <= c
  BY <1>4, <1>5
<1> HIDE DEF a, c, n
<1>7. a + n <= a + c
  BY <1>6
<1> QED BY <1>3, <1>7, Zenon DEF a, c, n

LEMMA RoomyPair ==
  ASSUME NEW l, AreUnits(l), NEW k \in 0 .. Len(l) - 2, NEW x, Len(x) \in Nat, Len(x) <= 4,
         l[k + 1].kind = "u"
  PROVE  Roomy(l, k, k + 2, x)
<1> SUFFICES ASSUME NEW g, Counts(l, g) PROVE g[k] + Len(x) <= g[k + 2]
  BY Zenon DEF Roomy
<1>1. Len(l) \in Nat
  BY DEF AreUnits
<1>2. /\ k + 1 \in 1 .. Len(l) /\ k \in 0 .. Len(l) /\ (k + 1) - 1 = k
      /\ k + 2 \in 1 .. Len(l) /\ (k + 2) - 1 = k + 1
  BY <1>1
<1>3. g[k + 1] = g[k] + String!Counted(l[k + 1]) /\ g[k + 2] = g[k + 1] + String!Counted(l[k + 2])
  BY <1>2, Zenon DEF Counts
<1>4. g[k] \in Nat
  BY <1>1, <1>2, RoomGrows
<1>5. String!Counted(l[k + 1]) = 5 /\ String!Counted(l[k + 2]) \in Nat
  BY <1>2, CountedIs, Zenon DEF AreUnits
<1> DEFINE a == g[k]
           b == g[k + 1]
           c == String!Counted(l[k + 2])
           n == Len(x)
<1>6. a \in Nat /\ c \in Nat /\ n \in Nat /\ n <= 4 /\ b = a + 5
  BY <1>3, <1>4, <1>5
<1> HIDE DEF a, b, c, n
<1>7. a + n <= b + c
  BY <1>6
<1> QED BY <1>3, <1>7, Zenon DEF a, b, c, n

\* A literal that is read from the front.
LEMMA Begins ==
  ASSUME NEW l, AreUnits(l), NEW o, o = String!NotYet => l \in Seq(StringUnits),
         o # String!NotYet => o \in Seq(Nat) /\ l = String!Escaped(o)
  PROVE  Stands(l, 1, String!RoomFor(l), <<>>, "reading", o)
<1>1. 1 \in 1 .. Len(l) + 1 /\ <<>> \in Seq(Nat) /\ Len(<<>>) + 2 = 2 /\ 1 - 1 = 0 /\ 2 <= 2
      /\ "reading" # "done" /\ "reading" # "failed"
  BY DEF AreUnits
<1>2. RoomLeft(l, 1, String!RoomFor(l), <<>>)
  <2>1. PICK g : Counts(l, g) /\ String!RoomFor(l) = g[Len(l)]
    BY RoomIs
  <2>2. g[0] = 2
    BY <2>1, Zenon DEF Counts
  <2>3. Len(<<>>) + 2 <= g[1 - 1]
    BY <1>1, <2>2, Zenon
  <2> QED BY <2>1, <2>3, Zenon DEF RoomLeft
<1>3. ASSUME o = String!NotYet PROVE FirstRead(l, 1, <<>>)
  <2>1. Passed(l, 0)
    BY DEF Passed
  <2>2. Meaning(l, 0) = <<>>
    BY DEF Meaning
  <2>3. FlatMap(Enc, Said(l, 0)) = <<>>
    BY <2>2, FlatNone, FlatMapEmpty, Zenon DEF Said
  <2> QED BY <1>1, <1>3, <2>1, <2>3, Zenon DEF FirstRead
<1>4. ASSUME o # String!NotYet PROVE SecondRead(l, 1, <<>>, "reading", o)
  <2>1. SubSeq(o, 1, 0) = <<>>
    OBVIOUS
  <2> QED BY <1>1, <1>4, <2>1, Zenon DEF SecondRead
<1> QED BY <1>1, <1>2, <1>3, <1>4, Zenon DEF Stands

LEMMA CStringIs ==
  ASSUME NEW bs \in Seq(Nat)
  PROVE  String!CString(bs) \in Seq(Nat)
<1> DEFINE zeros == {i \in DOMAIN bs : bs[i] = 0}
           first == CHOOSE i \in zeros : \A j \in zeros : i <= j
<1>1. String!CString(bs) = IF zeros = {} THEN bs ELSE SubSeq(bs, 1, first - 1)
  BY Zenon DEF String!CString
<1>2. CASE zeros = {}
  BY <1>1, <1>2
<1>3. CASE zeros # {}
  <2>1. zeros \subseteq Nat
    OBVIOUS
  <2>2. PICK i \in zeros : \A j \in zeros : ~(<<j, i>> \in OpToRel(<, Nat))
    BY <1>3, <2>1, NatLessThanWellFounded, WFMin
  <2>3. ASSUME NEW j \in zeros PROVE i <= j
    <3>1. i \in Nat /\ j \in Nat
      BY <2>1
    <3>2. j < i => <<j, i>> \in OpToRel(<, Nat)
      BY <3>1 DEF OpToRel
    <3>3. ~(j < i)
      <4> HIDE DEF zeros
      <4> QED BY <2>2, <3>2, Zenon
    <3> QED BY <3>1, <3>3
  <2>4. first \in zeros
    <3> HIDE DEF zeros
    <3> QED BY <2>3
  <2> DEFINE k == first
  <2>5. k \in 1 .. Len(bs)
    <3>1. zeros \subseteq 1 .. Len(bs)
      OBVIOUS
    <3> HIDE DEF zeros, first
    <3> QED BY <2>4, <3>1
  <2> HIDE DEF k, first
  <2>6. SubSeq(bs, 1, k - 1) \in Seq(Nat)
    BY <2>5
  <2> QED BY <1>1, <1>3, <2>6, Zenon DEF k
<1> QED BY <1>2, <1>3

LEMMA NotYetIs == String!NotYet \notin Seq(Nat)
<1> SUFFICES ASSUME <<-1>> \in Seq(Nat) PROVE FALSE
  BY DEF String!NotYet
<1>1. <<-1>>[1] \in Nat
  OBVIOUS
<1> QED BY <1>1

LEMMA StringStarts == String!Init => StringInv
<1> SUFFICES ASSUME String!Init PROVE StringInv
  OBVIOUS
<1>1. /\ literal \in Seq(StringUnits) /\ position = 1 /\ bytes = <<>>
      /\ room = String!RoomFor(literal) /\ stringPhase = "reading" /\ printed = String!NotYet
  BY StringAssumption, Zenon DEF String!Init
<1>2. AreUnits(literal)
  BY <1>1, UnitsAre, Zenon
<1> QED BY <1>1, <1>2, Begins, Zenon DEF StringInv

LEMMA StringSteps == StringInv /\ [String!Next]_(String!vars) => StringInv'
<1> SUFFICES ASSUME StringInv, [String!Next]_(String!vars) PROVE StringInv'
  OBVIOUS
<1>0. Stands(literal, position, room, bytes, stringPhase, printed)
  BY DEF StringInv
<1> DEFINE k == position - 1
<1>1. /\ AreUnits(literal) /\ Len(literal) \in Nat /\ bytes \in Seq(Nat)
      /\ position \in 1 .. Len(literal) + 1
      /\ printed = String!NotYet => FirstRead(literal, position, bytes)
      /\ printed # String!NotYet => SecondRead(literal, position, bytes, stringPhase, printed)
  BY <1>0, Zenon DEF Stands, AreUnits
<1>2. k \in Int /\ k + 1 = position /\ (position + 1) - 1 = k + 1 /\ (position + 2) - 1 = k + 2
      /\ position + 1 = k + 2
  BY <1>1
<1>3. ASSUME String!Reading
      PROVE  /\ stringPhase = "reading" /\ k \in 0 .. Len(literal) - 1
             /\ position \in 1 .. Len(literal) /\ position + 1 \in 1 .. Len(literal) + 1
             /\ Unit(literal[position])
  <2>1. stringPhase = "reading" /\ position <= Len(literal)
    BY <1>3, Zenon DEF String!Reading
  <2>2. k \in 0 .. Len(literal) - 1 /\ position \in 1 .. Len(literal)
        /\ position + 1 \in 1 .. Len(literal) + 1
    BY <1>1, <2>1
  <2> QED BY <1>1, <2>1, <2>2, Zenon DEF AreUnits
<1> HIDE DEF k
<1>4. ASSUME String!Reading, NEW x \in Seq(Nat), String!Take(x, 1),
             Len(x) <= String!Counted(literal[position]),
             printed = String!NotYet => Says(literal, k, k + 1, x),
             printed # String!NotYet => SubSeq(printed, 1, k + 1) = SubSeq(printed, 1, k) \o x
      PROVE  StringInv'
  <2>1. Len(x) \in Nat
    BY LenProperties
  <2>2. Roomy(literal, k, k + 1, x)
    BY <1>1, <1>2, <1>3, <1>4, <2>1, RoomyOne, Zenon
  <2>3. position - 1 = k
    BY Zenon DEF k
  <2>4. Stands(literal, position + 1, room, bytes \o x, "reading", printed)
    <3>1. Stands(literal, position, room, bytes, "reading", printed)
      BY <1>0, <1>3, <1>4, Zenon
    <3> QED BY <1>2, <1>3, <1>4, <2>2, <2>3, <3>1, Onward, Zenon
  <2>5. /\ bytes' = bytes \o x /\ position' = position + 1 /\ literal' = literal
        /\ room' = room /\ stringPhase' = "reading" /\ printed' = printed
    BY <1>3, <1>4, Zenon DEF String!Take
  <2> QED BY <2>4, <2>5, Zenon DEF StringInv
\* One turn of the second reading.
<1>5. ASSUME printed # String!NotYet, String!Reading
      PROVE  /\ SubSeq(printed, 1, k + 1) = SubSeq(printed, 1, k) \o <<literal[position].n>>
             /\ literal[position].n \in Nat
             /\ \/ literal[position].kind \in {"esc", "byte"}
                \/ literal[position].kind = "u" /\ literal[position].n < 32
  <2>1. printed \in Seq(Nat) /\ literal = String!Escaped(printed)
    BY <1>1, <1>5, Zenon DEF SecondRead
  <2> QED BY <1>2, <1>3, <1>5, <2>1, EscapedOne, Zenon
<1>6. ASSUME printed = String!NotYet, String!Reading
      PROVE  /\ literal \in Seq(StringUnits) /\ Passed(literal, k)
             /\ literal[position].n \in Character
             /\ literal[position].kind \in {"byte", "esc"} => literal[position].n < 128
  <2>1. literal \in Seq(StringUnits) /\ Passed(literal, k)
    BY <1>1, <1>6, Zenon DEF FirstRead, k
  <2>2. literal[position] \in StringUnits
    BY <1>3, <1>6, <2>1, ElementOfSeq, Zenon
  <2> QED BY <2>1, <2>2, UnitIs, Zenon
<1>7. CASE String!Copy
  <2>1. String!Reading
    BY <1>7, Zenon DEF String!Copy
  <2> DEFINE u == literal[position]
             n == u.n
  <2>2. Unit(u) /\ n \in Nat
    BY <1>3, <2>1, Zenon DEF Unit
  <2>3. u.kind # "u" => ~High(u) /\ ~Low(u)
    BY <2>2, NoHalf, Zenon
  <2>4. CASE u.kind \in {"byte", "esc"} /\ String!Take(<<n>>, 1)
    <3>1. ~High(u) /\ ~Low(u) /\ "u" \notin {"byte", "esc"}
      BY <2>3, <2>4
    <3>2. <<n>> \in Seq(Nat) /\ Len(<<n>>) = 1 /\ 1 <= 1
      <4> HIDE DEF n
      <4> QED BY <2>2
    <3>3. String!Counted(u) = 1
      BY <2>2, <2>4, CountedIs, Zenon
    <3>4. ASSUME printed = String!NotYet PROVE Says(literal, k, k + 1, <<n>>)
      <4>1. String!Utf8(n) = <<n>>
        BY <1>6, <2>1, <2>2, <2>4, <3>4, Utf8Ascii, Zenon
      <4>2. Says(literal, k, k + 1, String!Utf8(n))
        BY <1>2, <1>3, <1>6, <2>1, <3>1, <3>4, SaysOne, Zenon
      <4> QED BY <4>1, <4>2, Zenon
    <3>5. printed # String!NotYet => SubSeq(printed, 1, k + 1) = SubSeq(printed, 1, k) \o <<n>>
      BY <1>5, <2>1, Zenon
    <3>6. Len(<<n>>) <= String!Counted(u)
      BY <3>2, <3>3, Zenon
    <3> QED BY <1>4, <2>1, <2>4, <3>2, <3>4, <3>5, <3>6, Zenon
  <2>5. CASE u.kind = "char" /\ String!Take(String!Utf8(n), 1)
    <3>1. ~High(u) /\ ~Low(u) /\ u.kind \notin {"byte", "esc"} /\ u.kind # "u"
      BY <2>3, <2>5
    <3>2. printed = String!NotYet
      BY <1>5, <2>1, <3>1, Zenon
    <3>3. n \in Character
      BY <1>6, <2>1, <3>2, Zenon
    <3>4. String!Utf8(n) \in Seq(Nat) /\ Len(String!Utf8(n)) \in 1 .. 4
      BY <3>3, Utf8Type
    <3>5. Len(String!Utf8(n)) <= String!Counted(u)
      <4>1. String!Counted(u) = Len(String!Utf8(n))
        BY <2>2, <2>5, CountedIs, Zenon
      <4> DEFINE z == Len(String!Utf8(n))
      <4>2. z \in 1 .. 4
        BY <3>4
      <4> HIDE DEF z
      <4>3. z <= z
        BY <4>2
      <4> QED BY <4>1, <4>3, Zenon DEF z
    <3>6. Says(literal, k, k + 1, String!Utf8(n))
      BY <1>2, <1>3, <1>6, <2>1, <3>1, <3>2, SaysOne, Zenon
    <3> QED BY <1>4, <2>1, <2>5, <3>2, <3>4, <3>5, <3>6, Zenon
  <2> QED BY <1>7, <2>4, <2>5, Zenon DEF String!Copy
<1>8. CASE String!Reject
  <2>1. String!Reading /\ String!Fail
    BY <1>8, Zenon DEF String!Reject
  <2>2. \/ literal[position].kind \in {"bad", "cut"}
        \/ Low(literal[position]) \/ High(literal[position])
    BY <1>8, Zenon DEF String!Reject, Low, High
  <2>3. printed = String!NotYet
    <3> SUFFICES ASSUME printed # String!NotYet PROVE FALSE
      BY Zenon
    <3>1. \/ literal[position].kind \in {"esc", "byte"}
          \/ literal[position].kind = "u" /\ literal[position].n < 32
      BY <1>5, <2>1, Zenon
    <3>2. Unit(literal[position])
      BY <1>3, <2>1, Zenon
    <3>3. ~Low(literal[position]) /\ ~High(literal[position])
      BY <3>1, <3>2, NoHalf
    <3> QED BY <2>2, <3>1, <3>3
  <2>4. Stands(literal, position, room, bytes, "failed", printed)
    <3>1. "failed" # "done"
      OBVIOUS
    <3> QED BY <1>0, <2>3, <3>1, Zenon DEF Stands
  <2>5. /\ stringPhase' = "failed" /\ literal' = literal /\ position' = position
        /\ room' = room /\ bytes' = bytes /\ printed' = printed
    BY <2>1, Zenon DEF String!Fail
  <2> QED BY <2>4, <2>5, Zenon DEF StringInv
<1>9. CASE String!Single
  <2> DEFINE u == literal[position]
             n == u.n
  <2>1. /\ String!Reading /\ u.kind = "u" /\ ~High(u) /\ ~Low(u)
        /\ String!Take(String!Utf8(n), 1)
    BY <1>9, Zenon DEF String!Single, High, Low
  <2>2. Unit(u) /\ n \in Nat
    BY <1>3, <2>1, Zenon DEF Unit
  <2>3. ASSUME printed # String!NotYet
        PROVE  /\ String!Utf8(n) = <<n>> /\ n \in Character
               /\ SubSeq(printed, 1, k + 1) = SubSeq(printed, 1, k) \o <<n>>
    <3>1. n < 32 /\ SubSeq(printed, 1, k + 1) = SubSeq(printed, 1, k) \o <<n>>
      <4>1. "u" \notin {"esc", "byte"}
        OBVIOUS
      <4> QED BY <1>5, <2>1, <2>3, <4>1, Zenon
    <3>2. n < 128 /\ n \in Character
      <4> HIDE DEF n
      <4> QED BY SMT, <2>2, <3>1, Space DEF Character
    <3> QED BY <2>2, <3>1, <3>2, Utf8Ascii, Zenon
  <2>4. n \in Character
    BY <1>6, <2>1, <2>3, Zenon
  <2>5. String!Utf8(n) \in Seq(Nat) /\ Len(String!Utf8(n)) \in 1 .. 4
    BY <2>4, Utf8Type
  <2>6. Len(String!Utf8(n)) <= String!Counted(u)
    <3>1. String!Counted(u) = 5
      BY <2>1, <2>2, CountedIs, Zenon
    <3> DEFINE z == Len(String!Utf8(n))
    <3>2. z \in 1 .. 4
      BY <2>5
    <3> HIDE DEF z
    <3>3. z <= 5
      BY <3>2
    <3> QED BY <3>1, <3>3, Zenon DEF z
  <2>7. printed = String!NotYet => Says(literal, k, k + 1, String!Utf8(n))
    BY <1>2, <1>3, <1>6, <2>1, SaysOne, Zenon
  <2>8. printed # String!NotYet =>
          SubSeq(printed, 1, k + 1) = SubSeq(printed, 1, k) \o String!Utf8(n)
    BY <2>3, Zenon
  <2> QED BY <1>4, <2>1, <2>5, <2>6, <2>7, <2>8, Zenon
<1>10. CASE String!Surrogates
  <2> DEFINE u == literal[position]
             v == literal[position + 1]
             p == String!Pair(u, v)
             x == String!Utf8(p)
  <2>1. /\ String!Reading /\ High(u) /\ position < Len(literal) /\ Low(v)
        /\ String!Take(x, 2)
    BY <1>10, Zenon DEF String!Surrogates, String!Paired, High, Low
  <2>2. /\ position + 1 \in 1 .. Len(literal) /\ position + 2 \in 1 .. Len(literal) + 1
        /\ k \in 0 .. Len(literal) - 2 /\ k + 1 < Len(literal)
    BY <1>1, <2>1 DEF k
  <2>3. Unit(u) /\ Unit(v)
    BY <1>1, <1>3, <2>1, <2>2, Zenon DEF AreUnits
  <2>4. p \in Character
    BY <2>3, PairIs, Zenon DEF Unit
  <2>5. x \in Seq(Nat) /\ Len(x) \in 1 .. 4
    BY <2>4, Utf8Type
  <2>6. u.kind = "u"
    BY <2>1, <2>3, NoHalf, Zenon
  <2>7. printed = String!NotYet
    <3> SUFFICES ASSUME printed # String!NotYet PROVE FALSE
      BY Zenon
    <3>1. u.n < 32
      <4>1. "u" \notin {"esc", "byte"}
        OBVIOUS
      <4> QED BY <1>5, <2>1, <2>6, <4>1, Zenon
    <3> QED BY <2>1, <2>3, <3>1, NoHalf, Zenon
  <2>8. Says(literal, k, k + 2, x)
    <3>1. literal \in Seq(StringUnits) /\ Passed(literal, k)
      BY <1>6, <2>1, <2>7, Zenon
    <3>2. u = literal[k + 1] /\ v = literal[k + 2]
      BY <1>2, Zenon
    <3> HIDE DEF u, v
    <3>3. Says(literal, k, k + 2, String!Utf8(String!Pair(literal[k + 1], literal[k + 2])))
      BY <1>3, <2>1, <2>2, <3>1, <3>2, SaysPair, Zenon
    <3> QED BY <3>2, <3>3, Zenon
  <2>9. Roomy(literal, k, k + 2, x)
    <3>1. Len(x) \in Nat /\ Len(x) <= 4
      <4> DEFINE z == Len(x)
      <4>1. z \in 1 .. 4
        BY <2>5
      <4> HIDE DEF z
      <4>2. z \in Nat /\ z <= 4
        BY <4>1
      <4> QED BY <4>2, Zenon DEF z
    <3>2. literal[k + 1].kind = "u"
      BY <1>2, <2>6, Zenon
    <3> HIDE DEF x
    <3> QED BY <1>1, <2>2, <3>1, <3>2, RoomyPair, Zenon
  <2> HIDE DEF x
  <2>10. Stands(literal, position + 2, room, bytes \o x, "reading", printed)
    <3>1. Stands(literal, position, room, bytes, "reading", printed)
      BY <1>0, <1>3, <2>1, Zenon
    <3>2. position - 1 = k
      BY Zenon DEF k
    <3>3. x \in Seq(Nat)
      BY <2>5, Zenon
    <3> QED BY <1>2, <2>2, <2>7, <2>8, <2>9, <3>1, <3>2, <3>3, Onward, Zenon
  <2>11. /\ bytes' = bytes \o x /\ position' = position + 2 /\ literal' = literal
         /\ room' = room /\ stringPhase' = "reading" /\ printed' = printed
    BY <1>3, <2>1, Zenon DEF String!Take
  <2> QED BY <2>10, <2>11, Zenon DEF StringInv
<1>11. CASE String!Finish
  <2>1. /\ stringPhase = "reading" /\ position > Len(literal) /\ stringPhase' = "done"
        /\ literal' = literal /\ position' = position
        /\ room' = room /\ bytes' = bytes /\ printed' = printed
    BY <1>11, Zenon DEF String!Finish
  <2>2. position = Len(literal) + 1 /\ "done" # "failed"
    BY <1>1, <2>1
  <2>3. Stands(literal, position, room, bytes, "done", printed)
    BY <1>0, <2>2, Zenon DEF Stands, SecondRead
  <2> QED BY <2>1, <2>3, Zenon DEF StringInv
<1>12. CASE String!Reprint
  <2> DEFINE o == String!CString(bytes)
             l == String!Escaped(o)
  <2>1. /\ printed' = o /\ literal' = l /\ position' = 1 /\ bytes' = <<>>
        /\ room' = String!RoomFor(l) /\ stringPhase' = "reading"
    BY <1>12, Zenon DEF String!Reprint, String!Start
  <2>2. o \in Seq(Nat)
    BY <1>1, CStringIs, Zenon
  <2>3. o # String!NotYet
    BY <2>2, NotYetIs, Zenon
  <2>4. AreUnits(l)
    BY <2>2, EscapedIs, Zenon
  <2> HIDE DEF o
  <2>5. Stands(l, 1, String!RoomFor(l), <<>>, "reading", o)
    BY <2>2, <2>3, <2>4, Begins, Zenon
  <2> QED BY <2>1, <2>5, Zenon DEF StringInv
<1>13. CASE UNCHANGED String!vars
  BY <1>0, <1>13, Zenon DEF String!vars, StringInv
<1> QED BY <1>7, <1>8, <1>9, <1>10, <1>11, <1>12, <1>13, Zenon DEF String!Next

LEMMA StringDelivers == StringInv => StringsAreUtf8
<1> SUFFICES ASSUME StringInv PROVE StringsAreUtf8
  OBVIOUS
<1>1. /\ AreUnits(literal) /\ Len(literal) \in Nat /\ bytes \in Seq(Nat)
      /\ position \in 1 .. Len(literal) + 1 /\ RoomLeft(literal, position, room, bytes)
      /\ stringPhase = "done" => position = Len(literal) + 1
      /\ printed = String!NotYet => FirstRead(literal, position, bytes)
      /\ printed # String!NotYet => SecondRead(literal, position, bytes, stringPhase, printed)
  BY Zenon DEF Stands, AreUnits, StringInv
<1>2. (Len(literal) + 1) - 1 = Len(literal) /\ Len(literal) \in 0 .. Len(literal)
  BY <1>1
<1>3. Len(bytes) + 1 <= room
  <2>1. PICK g : Counts(literal, g) /\ room = g[Len(literal)] /\ Len(bytes) + 2 <= g[position - 1]
    BY <1>1 DEF RoomLeft
  <2>2. position - 1 \in 0 .. Len(literal)
    BY <1>1
  <2>3. g[position - 1] \in Nat /\ g[position - 1] <= g[Len(literal)] /\ g[Len(literal)] \in Nat
    BY <1>1, <1>2, <2>1, <2>2, RoomGrows
  <2> DEFINE a == g[position - 1]
             b == g[Len(literal)]
             m == Len(bytes)
  <2>4. a \in Nat /\ b \in Nat /\ a <= b /\ m \in Nat /\ m + 2 <= a
    BY <1>1, <2>1, <2>3, LenProperties
  <2> HIDE DEF a, b, m
  <2>5. m + 1 <= b
    BY <2>4
  <2> QED BY <2>1, <2>5, Zenon DEF b, m
<1>4. ASSUME stringPhase = "done", printed = String!NotYet
      PROVE  String!CodePoints(bytes) = String!Meant(literal)
  <2>1. literal \in Seq(StringUnits) /\ Passed(literal, Len(literal))
        /\ bytes = FlatMap(Enc, Said(literal, Len(literal)))
    BY <1>1, <1>2, <1>4, Zenon DEF FirstRead
  <2>2. Said(literal, Len(literal)) \in Seq(Character)
    BY <1>2, <2>1, SaidType, Zenon
  <2>3. String!CodePoints(bytes) = Said(literal, Len(literal))
    BY <2>1, <2>2, Decoded, Zenon
  <2>4. DOMAIN literal = 1 .. Len(literal)
    BY <1>1, Zenon DEF AreUnits
  <2>5. String!Meant(literal) = Said(literal, Len(literal))
    <3>1. \A s : String!FlattenSeq(s) = Ext!FlattenSeq(s)
      BY Zenon DEF String!FlattenSeq, Ext!FlattenSeq
    <3>2. String!Meant(literal) = String!FlattenSeq(Meaning(literal, Len(literal)))
      BY <2>4, Zenon DEF String!Meant, Meaning, Mean, High, Low
    <3> QED BY <3>1, <3>2, Zenon DEF Said
  <2> QED BY <2>3, <2>5, Zenon
<1>5. ASSUME printed # String!NotYet
      PROVE  stringPhase # "failed" /\ (stringPhase = "done" => bytes = printed)
  <2>1. printed \in Seq(Nat) /\ literal = String!Escaped(printed)
        /\ bytes = SubSeq(printed, 1, position - 1) /\ stringPhase # "failed"
    BY <1>1, <1>5, Zenon DEF SecondRead
  <2>2. Len(literal) = Len(printed) /\ SubSeq(printed, 1, Len(printed)) = printed
    BY <2>1, EscapedIs, SubSeqFull
  <2> QED BY <1>1, <1>2, <2>1, <2>2, Zenon
<1> QED BY <1>3, <1>4, <1>5, Zenon DEF StringsAreUtf8, String!StringsSurvive

\* Whatever a literal of JSON says, in bytes, escapes and halves of pairs, parse_string
\* has room for its bytes, which are the UTF-8 of what it says; and what
\* print_string_ptr makes of them is read as the same bytes.
THEOREM StringsComeThrough == String!Spec => []StringsAreUtf8
<1>1. String!Spec => []StringInv
  BY StringStarts, StringSteps, PTL DEF String!Spec
<1> QED BY <1>1, StringDelivers, PTL

-----------------------------------------------------------------------------
(***************************************************************************)
(* IniParser.  A file that is read is looked at as a whole: its logical    *)
(* lines begin at Ini!Starts, and IniInv says that some number p of its    *)
(* physical lines is behind the parser, that those joined to the next one  *)
(* are the ones behind p, and that the dictionary holds, of each key,      *)
(* what the last line up to p gives that names it.  That is not inductive  *)
(* alone: a dictionary of more entries than fit is refused, so the entries *)
(* and the memory left are counted together, and for the second reading    *)
(* it must be known that the saved file has one line per entry, no line    *)
(* that goes on, and names in lower case only.                             *)
(***************************************************************************)
AnyLines == [kind : {"section", "value", "comment", "blank", "junk", "long"},
             name : IniNames \cup ColonNames, text : Seq(IniWords), more : BOOLEAN]

\* A logical line begins at i, which may be just behind the file.
LineBegins(f, i) == \E j \in 0 .. i - 1 :
                  /\ j = 0 \/ ~f[j].more
                  /\ \A l \in j + 1 .. i - 1 : f[l].more /\ f[l].kind = "blank"

\* The lines up to p that give an entry, and what they give.
Giving(f, p) == {i \in Ini!Starts(f) : i <= p /\ f[i].kind \in {"section", "value"}}
Given(f, p) == {Ini!KeyAt(f, i) : i \in Giving(f, p)}
LastOf(f, p, k, i) == /\ i \in Giving(f, p) /\ Ini!KeyAt(f, i) = k
                      /\ \A j \in Giving(f, p) : Ini!KeyAt(f, j) = k => j <= i

\* The dictionary is what the lines up to p say.
Holds(f, p, d) ==
  /\ DOMAIN d = Given(f, p)
  /\ \A k \in DOMAIN d : \E i \in Giving(f, p) : LastOf(f, p, k, i) /\ d[k] = Ini!ValueAt(f, i)

NoJunk(f, p) == \A i \in Ini!Starts(f) : i <= p => f[i].kind # "junk"
AreOver(f, p) == \A i \in Ini!Starts(f) :
                   i <= p /\ f[i].kind # "blank" => \E m \in i .. p : ~f[m].more

\* The first p lines are read, and n more are joined to the next.
Joined(f, p, q, r) ==
  /\ p \in 0 .. Len(f) /\ p + Len(q) \in 0 .. Len(f) /\ LineBegins(f, p + 1)
  /\ q \in Seq(AnyLines) /\ \A i \in 1 .. Len(q) : q[i] = f[p + i] /\ f[p + i].more
  /\ Len(q) > 0 => f[p + 1].kind # "blank"
  /\ r = SubSeq(f, p + Len(q) + 1, Len(f))

Reads(f, p, q, r, s, d, e) ==
  /\ Joined(f, p, q, r) /\ AreOver(f, p)
  /\ s = Ini!SectionAt(f, p + 1) /\ Holds(f, p, d)
  /\ e = 0 => NoJunk(f, p)

Full(f) == Cardinality(Ini!AllKeys(f)) > IniMemory

\* A dictionary: keys of one and two names, those with a section it has.
LowNames == {nm \in IniNames : IniLower[nm] = nm}
IsDict(d) == d = [k \in DOMAIN d |-> d[k]] /\ IsFiniteSet(DOMAIN d)
OfSection(k, d) == k[1] \in LowNames /\ Len(k) = 1 /\ k = <<k[1]>> /\ d[k] = <<>>
OfValue(k, d) == /\ k[2] \in LowNames /\ Len(k) = 2 /\ k = <<k[1], k[2]>> /\ d[k] \in Seq(IniWords)
                 /\ k[1] = IniTop \/ <<k[1]>> \in DOMAIN d
WellFormed(d) == IsDict(d) /\ \A k \in DOMAIN d : OfSection(k, d) \/ OfValue(k, d)

\* A file that was saved.
Plain(f) == \A i \in DOMAIN f : ~f[i].more /\ f[i].kind \in {"section", "value"}

Counted(d, m) == IsDict(d) /\ m \in Nat /\ m + Cardinality(DOMAIN d) = IniMemory

ReadSoFar(f, q, r, s, d, e) ==
  \/ r = <<>> /\ Full(f)
  \/ \E p \in 0 .. Len(f) : Reads(f, p, q, r, s, d, e)

Known(s, d) == s \in LowNames /\ <<s>> \in DOMAIN d
Named(r, s, d) == WellFormed(d) /\ (r # <<>> => s = IniTop \/ Known(s, d))

SavedAs(o, f) == /\ WellFormed(o) /\ Cardinality(DOMAIN o) <= IniMemory
                 /\ f = Ini!Dump(o) /\ Plain(f)

IniInv ==
  /\ file \in Seq(AnyLines) /\ iniPhase \in {"reading", "loaded", "refused"} /\ errs \in Nat
  /\ iniPhase # "refused" => /\ Counted(dict, mem)
                             /\ ReadSoFar(file, joined, unread, section, dict, errs)
  /\ iniPhase = "loaded" => unread = <<>> /\ errs = 0
  /\ saved = Ini!NoDict => /\ file \in Seq(IniLines)
                           /\ iniPhase # "refused" => Named(unread, section, dict)
  /\ saved # Ini!NoDict => SavedAs(saved, file) /\ errs = 0 /\ iniPhase # "refused"

LEMMA StartsAre ==
  ASSUME NEW f \in Seq(AnyLines)
  PROVE  /\ DOMAIN f = 1 .. Len(f) /\ Len(f) \in Nat
         /\ \A i : i \in Ini!Starts(f) <=> i \in 1 .. Len(f) /\ LineBegins(f, i)
<1>1. DOMAIN f = 1 .. Len(f) /\ Len(f) \in Nat
  BY LenProperties
<1> QED BY <1>1 DEF Ini!Starts, LineBegins

LEMMA BeginsLater ==
  ASSUME NEW f, NEW p \in Nat, LineBegins(f, p + 1), f[p + 1].more, f[p + 1].kind = "blank"
  PROVE  LineBegins(f, p + 2)
<1>1. PICK j \in 0 .. (p + 1) - 1 : /\ j = 0 \/ ~f[j].more
                                    /\ \A l \in j + 1 .. (p + 1) - 1 : f[l].more /\ f[l].kind = "blank"
  BY DEF LineBegins
<1>2. j \in 0 .. (p + 2) - 1
  OBVIOUS
<1>3. ASSUME NEW l \in j + 1 .. (p + 2) - 1 PROVE f[l].more /\ f[l].kind = "blank"
  <2>1. l = p + 1 \/ l \in j + 1 .. (p + 1) - 1
    OBVIOUS
  <2> QED BY <1>1, <2>1
<1> QED BY <1>1, <1>2, <1>3 DEF LineBegins

LEMMA BeginsAfter ==
  ASSUME NEW f, NEW p \in Nat, p = 0 \/ ~f[p].more
  PROVE  LineBegins(f, p + 1)
<1>1. p \in 0 .. (p + 1) - 1 /\ \A l : l \notin p + 1 .. (p + 1) - 1
  OBVIOUS
<1> QED BY <1>1, Zenon DEF LineBegins

LEMMA BeginsOnce ==
  ASSUME NEW f, NEW p \in Nat, NEW n \in Nat, \A i \in 1 .. n : f[p + i].more,
         n > 0 => f[p + 1].kind # "blank", NEW s \in p + 2 .. p + n + 1
  PROVE  ~LineBegins(f, s)
<1>1. SUFFICES ASSUME NEW j \in 0 .. s - 1, j = 0 \/ ~f[j].more,
                      \A l \in j + 1 .. s - 1 : f[l].more /\ f[l].kind = "blank"
               PROVE  FALSE
  BY Zenon DEF LineBegins
<1>2. n > 0
  OBVIOUS
<1>3. CASE j > p
  <2>1. j - p \in 1 .. n /\ p + (j - p) = j /\ j # 0
    BY <1>3
  <2> QED BY <1>1, <2>1
<1>4. CASE ~(j > p)
  <2>1. p + 1 \in j + 1 .. s - 1
    BY <1>4
  <2> QED BY <1>1, <1>2, <2>1
<1> QED BY <1>3, <1>4

\* A least and a greatest element, when there is one.
LEMMA MinIs ==
  ASSUME NEW S \in SUBSET Int, NEW m \in S, \A j \in S : m <= j PROVE Ini!Min(S) = m
<1>1. \A x \in S : (\A y \in S : x <= y) => x = m
  OBVIOUS
<1>2. \A y \in S : m <= y
  OBVIOUS
<1> QED BY <1>1, <1>2 DEF Ini!Min

LEMMA MaxIs ==
  ASSUME NEW S \in SUBSET Int, NEW m \in S, \A j \in S : j <= m PROVE Ini!Max(S) = m
<1>1. \A x \in S : (\A y \in S : x >= y) => x = m
  OBVIOUS
<1>2. \A y \in S : m >= y
  OBVIOUS
<1> QED BY <1>1, <1>2 DEF Ini!Max

LEMMA LastIs ==
  ASSUME NEW S \in SUBSET Int, NEW m \in S, \A j \in S : j <= m
  PROVE  (CHOOSE j \in S : \A l \in S : l <= j) = m
<1>1. \A x \in S : (\A y \in S : y <= x) => x = m
  OBVIOUS
<1> QED BY <1>1

LEMMA FirstIs ==
  ASSUME NEW S \in SUBSET Int, NEW m \in S, \A j \in S : m <= j
  PROVE  (CHOOSE j \in S : \A l \in S : j <= l) = m
<1>1. \A x \in S : (\A y \in S : x <= y) => x = m
  OBVIOUS
<1> QED BY <1>1

\* The line at p + 1, joined from n and one more, is taken.
LEMMA StartsTaken ==
  ASSUME NEW f \in Seq(AnyLines), NEW p, NEW q, NEW r, Joined(f, p, q, r), r # <<>>
  PROVE  /\ p \in Nat /\ Len(q) \in Nat /\ p + Len(q) + 1 \in 1 .. Len(f)
         /\ p + 1 \in 1 .. Len(f) /\ p + 1 <= p + Len(q) + 1
         /\ Head(r) = f[p + Len(q) + 1] /\ Tail(r) = SubSeq(f, (p + Len(q) + 1) + 1, Len(f))
         /\ p + 1 \in Ini!Starts(f)
         /\ \A i \in Ini!Starts(f) : i <= p + Len(q) + 1 => i <= p \/ i = p + 1
<1> DEFINE n == Len(q)
           t == p + n + 1
<1>1. /\ p \in 0 .. Len(f) /\ n \in Nat /\ p + n \in 0 .. Len(f) /\ LineBegins(f, p + 1)
      /\ \A i \in 1 .. n : f[p + i].more
      /\ n > 0 => f[p + 1].kind # "blank"
      /\ r = SubSeq(f, t, Len(f)) /\ Len(f) \in Nat
  BY LenProperties DEF Joined
<1> HIDE DEF n
<1>2. t \in 1 .. Len(f)
  BY <1>1
<1>3. Head(r) = f[t] /\ Tail(r) = SubSeq(f, t + 1, Len(f))
  BY <1>1, <1>2
<1>4. p + 1 \in 1 .. Len(f) /\ p \in Nat /\ p + 1 <= t
  BY <1>1, <1>2
<1>5. p + 1 \in Ini!Starts(f)
  BY <1>1, <1>4, StartsAre
<1>6. ASSUME NEW i \in Ini!Starts(f), i <= t PROVE i <= p \/ i = p + 1
  <2>1. i \in 1 .. Len(f) /\ LineBegins(f, i)
    BY StartsAre
  <2>2. CASE i \in p + 2 .. p + n + 1
    BY <1>1, <1>4, <2>1, <2>2, BeginsOnce
  <2>3. CASE i \notin p + 2 .. p + n + 1
    BY <1>1, <1>6, <2>1, <2>3
  <2> QED BY <2>2, <2>3
<1> QED BY <1>1, <1>2, <1>3, <1>4, <1>5, <1>6, Zenon DEF n

LEMMA GivingTaken ==
  ASSUME NEW f \in Seq(AnyLines), NEW p, NEW q, NEW r, Joined(f, p, q, r), r # <<>>
  PROVE  Giving(f, p + Len(q) + 1) =
           Giving(f, p) \cup {i \in {p + 1} : f[i].kind \in {"section", "value"}}
<1> DEFINE t == p + Len(q) + 1
<1>1. /\ p \in Nat /\ t \in 1 .. Len(f) /\ p + 1 <= t /\ p + 1 \in Ini!Starts(f)
      /\ \A i \in Ini!Starts(f) : i <= t => i <= p \/ i = p + 1
      /\ \A i \in Ini!Starts(f) : i \in 1 .. Len(f) /\ Len(f) \in Nat
  BY StartsTaken, StartsAre
<1> HIDE DEF t
<1>2. \A i \in Ini!Starts(f) : i <= t <=> i <= p \/ i = p + 1
  BY <1>1
<1>3. Giving(f, t) = Giving(f, p) \cup {i \in {p + 1} : f[i].kind \in {"section", "value"}}
  BY <1>1, <1>2 DEF Giving
<1> QED BY <1>3 DEF t

Before(f, i) == {j \in Ini!Starts(f) : j < i /\ f[j].kind = "section"}

LEMMA SectionTaken ==
  ASSUME NEW f \in Seq(AnyLines), NEW p, NEW q, NEW r, Joined(f, p, q, r), r # <<>>
  PROVE  Ini!SectionAt(f, p + Len(q) + 2) =
           IF f[p + 1].kind = "section" THEN IniLower[f[p + 1].name] ELSE Ini!SectionAt(f, p + 1)
<1> DEFINE t == p + Len(q) + 1
<1>1. /\ p \in Nat /\ t \in 1 .. Len(f) /\ p + 1 <= t /\ p + 1 \in Ini!Starts(f)
      /\ \A i \in Ini!Starts(f) : i <= t => i <= p \/ i = p + 1
      /\ \A i \in Ini!Starts(f) : i \in 1 .. Len(f) /\ Len(f) \in Nat
      /\ p + Len(q) + 2 = t + 1
  BY StartsTaken, StartsAre
<1> HIDE DEF t
<1>2. \A i \in Ini!Starts(f) : i < t + 1 <=> i < p + 1 \/ i = p + 1
  BY <1>1
<1>3. /\ Before(f, t + 1) = Before(f, p + 1) \cup {i \in {p + 1} : f[i].kind = "section"}
      /\ Before(f, t + 1) \subseteq Int
  BY <1>1, <1>2 DEF Before
<1>4. \A i : Ini!SectionAt(f, i) =
              IF Before(f, i) = {} THEN IniTop
              ELSE IniLower[f[CHOOSE j \in Before(f, i) : \A l \in Before(f, i) : l <= j].name]
  BY Zenon DEF Ini!SectionAt, Before
<1>5. CASE f[p + 1].kind = "section"
  <2>1. p + 1 \in Before(f, t + 1) /\ \A l \in Before(f, t + 1) : l <= p + 1
    BY <1>1, <1>2, <1>3, <1>5 DEF Before
  <2>2. (CHOOSE j \in Before(f, t + 1) : \A l \in Before(f, t + 1) : l <= j) = p + 1
    BY <1>3, <2>1, LastIs
  <2>3. Before(f, t + 1) # {}
    BY <2>1
  <2> QED BY <1>1, <1>4, <1>5, <2>2, <2>3, Zenon
<1>6. CASE f[p + 1].kind # "section"
  <2>1. Before(f, t + 1) = Before(f, p + 1)
    BY <1>3, <1>6
  <2> QED BY <1>1, <1>4, <1>6, <2>1, Zenon
<1> QED BY <1>5, <1>6

LEMMA ValueTaken ==
  ASSUME NEW f \in Seq(AnyLines), NEW p, NEW q, NEW r, Joined(f, p, q, r), r # <<>>,
         ~Head(r).more
  PROVE  /\ Ini!ValueAt(f, p + 1) = IF f[p + 1].kind = "section" THEN <<>>
                                     ELSE Ini!Text(Append(q, Head(r)))
         /\ Append(q, Head(r))[1] = f[p + 1]
         /\ \E m \in p + 1 .. p + Len(q) + 1 : ~f[m].more
<1> DEFINE n == Len(q)
           t == p + n + 1
           l == Append(q, f[t])
<1>1. /\ p \in Nat /\ n \in Nat /\ t \in 1 .. Len(f) /\ p + 1 \in 1 .. Len(f) /\ p + 1 <= t
      /\ Head(r) = f[t] /\ ~f[t].more /\ Len(f) \in Nat
  BY StartsTaken, LenProperties
<1>2. /\ q \in Seq(AnyLines) /\ f[t] \in AnyLines
      /\ \A i \in 1 .. n : q[i] = f[p + i] /\ f[p + i].more
  BY <1>1 DEF Joined
<1>3. /\ l \in Seq(AnyLines) /\ Len(l) = n + 1 /\ \A i \in 1 .. n + 1 : l[i] = f[p + i]
  <2>1. l \in Seq(AnyLines) /\ Len(l) = n + 1 /\ l[n + 1] = f[t] /\ \A i \in 1 .. n : l[i] = q[i]
    BY <1>1, <1>2
  <2> QED BY <1>1, <1>2, <2>1
<1> HIDE DEF l
<1>4. SubSeq(f, p + 1, t) = l
  <2>1. /\ SubSeq(f, p + 1, t) \in Seq(AnyLines) /\ Len(SubSeq(f, p + 1, t)) = n + 1
        /\ \A i \in 1 .. n + 1 : SubSeq(f, p + 1, t)[i] = f[p + i]
    BY <1>1
  <2> QED BY <1>1, <1>3, <2>1, SeqEqual
<1>5. Ini!Complete(f, p + 1) \in SUBSET Int /\ t \in Ini!Complete(f, p + 1)
      /\ \A j \in Ini!Complete(f, p + 1) : t <= j
  <2>1. Ini!Complete(f, p + 1) = {j \in p + 1 .. Len(f) : ~f[j].more}
    BY DEF Ini!Complete
  <2>2. ASSUME NEW j \in p + 1 .. Len(f), ~f[j].more PROVE t <= j
    <3>1. SUFFICES ASSUME j < t PROVE FALSE
      BY <1>1
    <3>2. j - p \in 1 .. n /\ p + (j - p) = j
      BY <1>1, <3>1
    <3> QED BY <1>2, <2>2, <3>2
  <2> QED BY <1>1, <2>1, <2>2
<1>6. Ini!Min(Ini!Complete(f, p + 1)) = t
  BY <1>5, MinIs
<1>7. Ini!ValueAt(f, p + 1) = IF f[p + 1].kind = "section" THEN <<>> ELSE Ini!Text(l)
  BY <1>4, <1>6, Zenon DEF Ini!ValueAt
<1>8. l[1] = f[p + 1] /\ t \in p + 1 .. p + Len(q) + 1
  BY <1>1, <1>3
<1> QED BY <1>1, <1>7, <1>8, Zenon DEF l

\* The dictionary of a line that gives nothing, and of one that gives an entry.
LEMMA HoldsOn ==
  ASSUME NEW f, NEW p, NEW t, NEW d, Holds(f, p, d), Giving(f, t) = Giving(f, p)
  PROVE  Holds(f, t, d)
  BY Zenon DEF Holds, Given, LastOf

LEMMA HoldsMore ==
  ASSUME NEW f \in Seq(AnyLines), NEW p \in Nat, NEW t, NEW d, Holds(f, p, d),
         Giving(f, t) = Giving(f, p) \cup {p + 1}
  PROVE  Holds(f, t, Ini!Set(d, Ini!KeyAt(f, p + 1), Ini!ValueAt(f, p + 1)))
<1> DEFINE key == Ini!KeyAt(f, p + 1)
           v == Ini!ValueAt(f, p + 1)
           e == Ini!Set(d, key, v)
<1>1. /\ DOMAIN e = DOMAIN d \cup {key}
      /\ \A k \in DOMAIN d \cup {key} : e[k] = IF k = key THEN v ELSE d[k]
  BY DEF Ini!Set, Ini!Keys
<1>2. Given(f, t) = Given(f, p) \cup {key}
  BY DEF Given
<1>3. \A i \in Giving(f, p) : i \in Nat /\ i <= p
  BY StartsAre DEF Giving
<1> HIDE DEF e, v
<1>4. ASSUME NEW k \in DOMAIN d \cup {key}
      PROVE  \E i \in Giving(f, t) : LastOf(f, t, k, i) /\ e[k] = Ini!ValueAt(f, i)
  <2>1. CASE k = key
    <3>1. \A j \in Giving(f, t) : j <= p + 1
      BY <1>3
    <3>2. LastOf(f, t, key, p + 1)
      BY <3>1 DEF LastOf
    <3>3. e[k] = Ini!ValueAt(f, p + 1) /\ p + 1 \in Giving(f, t)
      BY <1>1, <2>1 DEF v
    <3> QED BY <2>1, <3>2, <3>3, Zenon
  <2>2. CASE k # key
    <3>1. PICK i \in Giving(f, p) : LastOf(f, p, k, i) /\ d[k] = Ini!ValueAt(f, i)
      BY <2>2 DEF Holds
    <3>2. LastOf(f, t, k, i)
      <4>1. \A j \in Giving(f, t) : Ini!KeyAt(f, j) = k => j \in Giving(f, p)
        BY <2>2
      <4> QED BY <3>1, <4>1 DEF LastOf
    <3> QED BY <1>1, <2>2, <3>1, <3>2
  <2> QED BY <2>1, <2>2
<1>5. DOMAIN e = Given(f, t)
  BY <1>1, <1>2 DEF Holds
<1>6. Holds(f, t, e)
  BY <1>1, <1>4, <1>5, Zenon DEF Holds
<1> QED BY <1>6 DEF e, v

Line(q, r) == Append(q, Head(r))

\* The first of the joined lines, that gives nothing or something.
LEMMA TakenOver ==
  ASSUME NEW f \in Seq(AnyLines), NEW p, NEW q, NEW r, NEW e \in Nat, NEW e2 \in Nat,
         Joined(f, p, q, r), AreOver(f, p), e = 0 => NoJunk(f, p),
         r # <<>>, ~Head(r).more,
         e2 = IF Line(q, r)[1].kind = "junk" THEN e + 1 ELSE e
  PROVE  LET t == p + Len(q) + 1 IN
         /\ t \in 1 .. Len(f) /\ Joined(f, t, <<>>, Tail(r)) /\ AreOver(f, t)
         /\ e2 = 0 => NoJunk(f, t)
<1> DEFINE t == p + Len(q) + 1
<1>1. /\ p \in Nat /\ t \in 1 .. Len(f) /\ p + 1 \in 1 .. Len(f) /\ p + 1 <= t
      /\ Head(r) = f[t] /\ Tail(r) = SubSeq(f, t + 1, Len(f)) /\ Len(f) \in Nat
      /\ \A i \in Ini!Starts(f) : i <= t => i <= p \/ i = p + 1
      /\ \A i \in Ini!Starts(f) : i \in 1 .. Len(f)
  BY StartsTaken, StartsAre
<1>2. Line(q, r)[1] = f[p + 1] /\ \E m \in p + 1 .. t : ~f[m].more
  BY ValueTaken DEF Line
<1> HIDE DEF t
<1>3. Joined(f, t, <<>>, Tail(r))
  <2>1. LineBegins(f, t + 1)
    BY <1>1, BeginsAfter
  <2>2. <<>> \in Seq(AnyLines) /\ Len(<<>>) = 0 /\ t + 0 = t /\ t \in 0 .. Len(f)
    BY <1>1
  <2>3. t + Len(<<>>) + 1 = t + 1 /\ t + Len(<<>>) = t /\ ~(Len(<<>>) > 0)
        /\ \A i \in 1 .. Len(<<>>) : FALSE
    BY <2>2
  <2> QED BY <1>1, <2>1, <2>2, <2>3, Zenon DEF Joined
<1>4. AreOver(f, t)
  <2>1. SUFFICES ASSUME NEW i \in Ini!Starts(f), i <= t, f[i].kind # "blank"
                 PROVE  \E m \in i .. t : ~f[m].more
    BY Zenon DEF AreOver
  <2>2. CASE i <= p
    <3>1. PICK m \in i .. p : ~f[m].more
      BY <2>1, <2>2, Zenon DEF AreOver
    <3>2. m \in i .. t
      BY <1>1, <3>1
    <3> QED BY <3>1, <3>2
  <2> QED BY <1>1, <1>2, <2>1, <2>2
<1>5. ASSUME e2 = 0 PROVE NoJunk(f, t)
  <2>1. f[p + 1].kind # "junk" /\ e = 0
    BY <1>2, <1>5
  <2> QED BY <1>1, <2>1 DEF NoJunk
<1> QED BY <1>1, <1>3, <1>4, <1>5 DEF t

\* What is read when the line is taken.
SectionBehind(line, s) == IF line.kind = "section" THEN IniLower[line.name] ELSE s

LEMMA ReadsTaken ==
  ASSUME NEW f \in Seq(AnyLines), NEW p, NEW q, NEW r, NEW s, NEW d, NEW e \in Nat,
         NEW e2 \in Nat, NEW d2, Reads(f, p, q, r, s, d, e),
         r # <<>>, ~Head(r).more,
         e2 = IF Line(q, r)[1].kind = "junk" THEN e + 1 ELSE e,
         Line(q, r)[1].kind \notin {"section", "value"} => d2 = d,
         Line(q, r)[1].kind \in {"section", "value"} =>
           d2 = Ini!Set(d, Ini!KeyAt(f, p + 1), Ini!ValueAt(f, p + 1))
  PROVE  /\ p + Len(q) + 1 \in 0 .. Len(f)
         /\ Reads(f, p + Len(q) + 1, <<>>, Tail(r), SectionBehind(Line(q, r)[1], s), d2, e2)
<1> DEFINE t == p + Len(q) + 1
<1>1. /\ t \in 1 .. Len(f) /\ Joined(f, t, <<>>, Tail(r)) /\ AreOver(f, t)
      /\ e2 = 0 => NoJunk(f, t)
  BY TakenOver DEF Reads
<1>2. p \in Nat /\ Line(q, r)[1] = f[p + 1] /\ p + Len(q) + 2 = t + 1
  <2>1. Joined(f, p, q, r)
    BY Zenon DEF Reads
  <2>2. p \in Nat /\ Len(q) \in Nat
    BY <2>1, StartsTaken
  <2>3. Line(q, r)[1] = f[p + 1]
    BY <2>1, ValueTaken DEF Line
  <2> QED BY <2>2, <2>3
<1>3. Ini!SectionAt(f, t + 1) = SectionBehind(Line(q, r)[1], s)
  BY <1>2, SectionTaken DEF Reads, SectionBehind
<1>4. Giving(f, t) = Giving(f, p) \cup {i \in {p + 1} : f[i].kind \in {"section", "value"}}
  BY GivingTaken DEF Reads
<1>5. Holds(f, t, d2)
  <2>1. CASE f[p + 1].kind \in {"section", "value"}
    <3>1. Giving(f, t) = Giving(f, p) \cup {p + 1}
      BY <1>4, <2>1
    <3> HIDE DEF t
    <3>2. Holds(f, t, Ini!Set(d, Ini!KeyAt(f, p + 1), Ini!ValueAt(f, p + 1)))
      BY <1>2, <3>1, HoldsMore DEF Reads
    <3> QED BY <1>2, <2>1, <3>2, Zenon
  <2>2. CASE f[p + 1].kind \notin {"section", "value"}
    <3>1. Giving(f, t) = Giving(f, p)
      BY <1>4, <2>2
    <3> HIDE DEF t
    <3>2. Holds(f, t, d)
      BY <3>1, HoldsOn DEF Reads
    <3> QED BY <1>2, <2>2, <3>2, Zenon
  <2> QED BY <2>1, <2>2
<1>6. t \in 0 .. Len(f)
  BY <1>1
<1> HIDE DEF t
<1>7. Reads(f, t, <<>>, Tail(r), SectionBehind(Line(q, r)[1], s), d2, e2)
  BY <1>1, <1>3, <1>5, Zenon DEF Reads
<1> QED BY <1>6, <1>7 DEF t

\* A blank line that is not over says nothing; any other is joined to the next.
LEMMA ReadsBlank ==
  ASSUME NEW f \in Seq(AnyLines), NEW p, NEW r, NEW s, NEW d, NEW e \in Nat, NEW q,
         Reads(f, p, q, r, s, d, e), r # <<>>, Head(r).more,
         Len(Line(q, r)) = 1, Line(q, r)[1].kind = "blank"
  PROVE  p + 1 \in 0 .. Len(f) /\ Reads(f, p + 1, <<>>, Tail(r), s, d, e)
<1>1. /\ p \in Nat /\ p + Len(q) + 1 \in 1 .. Len(f) /\ Len(q) \in Nat
      /\ Head(r) = f[p + Len(q) + 1] /\ Tail(r) = SubSeq(f, p + Len(q) + 2, Len(f))
      /\ Len(f) \in Nat /\ q \in Seq(AnyLines)
      /\ \A i \in Ini!Starts(f) : i <= p + Len(q) + 1 => i <= p \/ i = p + 1
      /\ \A i \in Ini!Starts(f) : i \in 1 .. Len(f)
  <2>1. Joined(f, p, q, r)
    BY Zenon DEF Reads
  <2>2. p \in Nat /\ Len(q) \in Nat
    BY <2>1, StartsTaken
  <2>3. (p + Len(q) + 1) + 1 = p + Len(q) + 2
    BY <2>2
  <2>4. q \in Seq(AnyLines)
    BY <2>1, Zenon DEF Joined
  <2>5. p + Len(q) + 1 \in 1 .. Len(f)
    BY <2>1, StartsTaken
  <2>6. Head(r) = f[p + Len(q) + 1]
    BY <2>1, StartsTaken
  <2>7. Tail(r) = SubSeq(f, (p + Len(q) + 1) + 1, Len(f))
    BY <2>1, StartsTaken
  <2>8. \A i \in Ini!Starts(f) : i <= p + Len(q) + 1 => i <= p \/ i = p + 1
    BY <2>1, StartsTaken, Zenon
  <2>9. Len(f) \in Nat /\ \A i \in Ini!Starts(f) : i \in 1 .. Len(f)
    BY StartsAre
  <2> QED BY <2>2, <2>3, <2>4, <2>5, <2>6, <2>7, <2>8, <2>9, Zenon
<1>2. Len(q) = 0 /\ p + Len(q) + 1 = p + 1
  BY <1>1 DEF Line
<1>3. f[p + 1].more /\ f[p + 1].kind = "blank" /\ p + 1 \in 1 .. Len(f) /\ Tail(r) = SubSeq(f, p + 2, Len(f))
  BY <1>1, <1>2 DEF Line
<1>4. \A i \in Ini!Starts(f) : (i <= p + 1 <=> i <= p \/ i = p + 1) /\ (i < p + 2 <=> i < p + 1 \/ i = p + 1)
  BY <1>1, <1>2
<1>5. Joined(f, p + 1, <<>>, Tail(r))
  <2>1. LineBegins(f, p + 2)
    BY <1>1, <1>3, BeginsLater DEF Reads, Joined
  <2>2. <<>> \in Seq(AnyLines) /\ Len(<<>>) = 0 /\ p + 1 \in 0 .. Len(f) /\ (p + 1) + 1 = p + 2
        /\ (p + 1) + Len(<<>>) + 1 = p + 2 /\ (p + 1) + Len(<<>>) = p + 1 /\ ~(Len(<<>>) > 0)
        /\ \A i \in 1 .. Len(<<>>) : FALSE
    BY <1>1, <1>3
  <2> QED BY <1>3, <2>1, <2>2, Zenon DEF Joined
<1>6. AreOver(f, p + 1)
  <2>1. SUFFICES ASSUME NEW i \in Ini!Starts(f), i <= p + 1, f[i].kind # "blank"
                 PROVE  \E m \in i .. p + 1 : ~f[m].more
    BY Zenon DEF AreOver
  <2>2. i <= p
    BY <1>3, <1>4, <2>1
  <2>3. PICK m \in i .. p : ~f[m].more
    BY <2>1, <2>2, Zenon DEF AreOver, Reads
  <2>4. m \in i .. p + 1
    BY <1>1, <2>3
  <2> QED BY <2>3, <2>4
<1>7. ASSUME e = 0 PROVE NoJunk(f, p + 1)
  BY <1>3, <1>4, <1>7 DEF NoJunk, Reads
<1>8. Holds(f, p + 1, d)
  <2>1. Giving(f, p + 1) = Giving(f, p)
    BY <1>3, <1>4 DEF Giving
  <2> QED BY <2>1, HoldsOn DEF Reads
<1>9. Ini!SectionAt(f, (p + 1) + 1) = s
  <2>1. Ini!SectionAt(f, p + Len(q) + 2) = Ini!SectionAt(f, p + 1)
    BY <1>3, SectionTaken DEF Reads
  <2>2. p + Len(q) + 2 = (p + 1) + 1
    BY <1>1, <1>2
  <2> QED BY <2>1, <2>2 DEF Reads
<1>10. p + 1 \in 0 .. Len(f)
  BY <1>1, <1>3
<1> QED BY <1>5, <1>6, <1>7, <1>8, <1>9, <1>10, Zenon DEF Reads

LEMMA ReadsJoined ==
  ASSUME NEW f \in Seq(AnyLines), NEW p, NEW r, NEW s, NEW d, NEW e \in Nat, NEW q,
         Reads(f, p, q, r, s, d, e), r # <<>>, Head(r).more,
         ~(Len(Line(q, r)) = 1 /\ Line(q, r)[1].kind = "blank")
  PROVE  Reads(f, p, Line(q, r), Tail(r), s, d, e)
<1> DEFINE n == Len(q)
           t == p + n + 1
           l == Line(q, r)
<1>1. /\ p \in Nat /\ n \in Nat /\ t \in 1 .. Len(f) /\ Head(r) = f[t]
      /\ Tail(r) = SubSeq(f, t + 1, Len(f)) /\ Len(f) \in Nat
  BY StartsTaken, LenProperties DEF Reads
<1>2. /\ q \in Seq(AnyLines) /\ f[t] \in AnyLines /\ f[t].more
      /\ \A i \in 1 .. n : q[i] = f[p + i] /\ f[p + i].more
      /\ LineBegins(f, p + 1) /\ p \in 0 .. Len(f)
      /\ n > 0 => f[p + 1].kind # "blank"
  BY <1>1 DEF Joined, Reads
<1>3. /\ l \in Seq(AnyLines) /\ Len(l) = n + 1
      /\ \A i \in 1 .. n + 1 : l[i] = f[p + i] /\ f[p + i].more
  <2>1. l \in Seq(AnyLines) /\ Len(l) = n + 1 /\ l[n + 1] = f[t] /\ \A i \in 1 .. n : l[i] = q[i]
    BY <1>1, <1>2 DEF Line
  <2> QED BY <1>1, <1>2, <2>1
<1>4. f[p + 1].kind # "blank"
  BY <1>1, <1>2, <1>3
<1>5. p + Len(l) \in 0 .. Len(f) /\ p + Len(l) + 1 = t + 1
  BY <1>1, <1>3
<1> HIDE DEF l, t, n
<1>6. Joined(f, p, l, Tail(r))
  BY <1>1, <1>2, <1>3, <1>4, <1>5 DEF Joined
<1> QED BY <1>6, Zenon DEF Reads, l

LEMMA AllKeysFinite == ASSUME NEW f \in Seq(AnyLines) PROVE IsFiniteSet(Ini!AllKeys(f))
<1> DEFINE S == {j \in DOMAIN f : f[j].kind \in {"section", "value"}}
           T == {Ini!KeyAt(f, i) : i \in S}
           g == [i \in S |-> Ini!KeyAt(f, i)]
<1>1. S \in SUBSET (1 .. Len(f)) /\ Len(f) \in Int
  BY StartsAre
<1>2. IsFiniteSet(1 .. Len(f))
  BY <1>1, FS_Interval
<1>3. IsFiniteSet(S)
  BY <1>1, <1>2, FS_Subset
<1>4. g \in Surjection(S, T)
  BY DEF Surjection
<1> HIDE DEF S, g
<1>5. IsFiniteSet(T)
  BY <1>3, <1>4, FS_Surjection
<1>6. Ini!AllKeys(f) \in SUBSET T
  BY DEF Ini!AllKeys, S
<1> QED BY <1>5, <1>6, FS_Subset

LEMMA CompleteWhenOver ==
  ASSUME NEW f \in Seq(AnyLines), NEW p \in 0 .. Len(f), AreOver(f, p),
         NEW i \in Giving(f, p)
  PROVE  Ini!Complete(f, i) # {}
<1>1. i \in Ini!Starts(f) /\ i <= p /\ f[i].kind # "blank" /\ i \in 1 .. Len(f) /\ Len(f) \in Nat
  BY StartsAre DEF Giving
<1>2. PICK m \in i .. p : ~f[m].more
  BY <1>1, Zenon DEF AreOver
<1>3. m \in i .. Len(f)
  BY <1>1, <1>2
<1> QED BY <1>2, <1>3 DEF Ini!Complete

LEMMA GivenInAll ==
  ASSUME NEW f \in Seq(AnyLines), NEW p \in 0 .. Len(f), AreOver(f, p)
  PROVE  Given(f, p) \subseteq Ini!AllKeys(f)
<1> SUFFICES ASSUME NEW i \in Giving(f, p) PROVE Ini!KeyAt(f, i) \in Ini!AllKeys(f)
  BY Zenon DEF Given
<1>1. Ini!Complete(f, i) # {}
  BY CompleteWhenOver
<1>2. i \in Ini!Starts(f) /\ i \in DOMAIN f /\ f[i].kind \in {"section", "value"}
  BY StartsAre DEF Giving
<1>3. i \in Ini!Says(f, Ini!KeyAt(f, i))
  BY <1>1, <1>2, Zenon DEF Ini!Says
<1> QED BY <1>2, <1>3, Zenon DEF Ini!AllKeys

\* An entry that finds no room is one too many.
LEMMA FullWhen ==
  ASSUME NEW f \in Seq(AnyLines), NEW p, NEW q, NEW r, NEW s, NEW d, NEW e \in Nat,
         Reads(f, p, q, r, s, d, e), r # <<>>, ~Head(r).more,
         f[p + 1].kind \in {"section", "value"}, Ini!KeyAt(f, p + 1) \notin DOMAIN d,
         IsFiniteSet(DOMAIN d), Cardinality(DOMAIN d) = IniMemory
  PROVE  Full(f)
<1> DEFINE t == p + Len(q) + 1
           e2 == IF Line(q, r)[1].kind = "junk" THEN e + 1 ELSE e
           key == Ini!KeyAt(f, p + 1)
           D == DOMAIN d \cup {key}
<1>0. Joined(f, p, q, r)
  BY Zenon DEF Reads
<1>1. t \in 1 .. Len(f) /\ AreOver(f, t)
  <2>1. e2 \in Nat
    OBVIOUS
  <2>2. /\ AreOver(f, p)
        /\ e = 0 => NoJunk(f, p)
    BY Zenon DEF Reads
  <2> HIDE DEF e2
  <2>3. t \in 1 .. Len(f)
    BY <1>0, StartsTaken
  <2>4. AreOver(f, t)
    BY <1>0, <2>1, <2>2, TakenOver DEF e2
  <2> QED BY <2>3, <2>4
<1>2. Giving(f, t) = Giving(f, p) \cup {p + 1}
  BY <1>0, GivingTaken
<1> HIDE DEF t
<1>3. D = Given(f, t)
  BY <1>2 DEF Given, Reads, Holds
<1>4. D \in SUBSET Ini!AllKeys(f)
  BY <1>1, <1>3, GivenInAll
<1>5. Cardinality(D) = IniMemory + 1 /\ IsFiniteSet(D)
  BY FS_AddElement
<1>6. Cardinality(D) <= Cardinality(Ini!AllKeys(f)) /\ IsFiniteSet(Ini!AllKeys(f))
  BY <1>4, AllKeysFinite, FS_Subset
<1>7. Cardinality(Ini!AllKeys(f)) \in Nat /\ IniMemory \in Nat
  BY <1>6, FS_CardinalityType, IniAssumption
<1> QED BY <1>5, <1>6, <1>7 DEF Full

\* At the end of the file everything it says is read, but for a line that is not over.
AllSaid(f, d) ==
  /\ DOMAIN d = Ini!AllKeys(f)
  /\ \A k \in DOMAIN d : d[k] = Ini!ValueAt(f, Ini!Max(Ini!Says(f, k)))
  /\ \A i \in Ini!Starts(f) : Ini!Complete(f, i) # {} => f[i].kind # "junk"

LEMMA AllRead ==
  ASSUME NEW f \in Seq(AnyLines), NEW p, NEW q, NEW s, NEW d,
         Reads(f, p, q, <<>>, s, d, 0)
  PROVE  AllSaid(f, d)
<1> DEFINE n == Len(q)
<1>1. /\ p \in 0 .. Len(f) /\ n \in Nat /\ p + n \in 0 .. Len(f) /\ Len(f) \in Nat
      /\ \A i \in 1 .. n : f[p + i].more
      /\ <<>> = SubSeq(f, p + n + 1, Len(f)) /\ AreOver(f, p)
  BY LenProperties DEF Reads, Joined
<1> HIDE DEF n
<1>2. p + n = Len(f)
  <2>1. SUFFICES ASSUME p + n < Len(f) PROVE FALSE
    BY <1>1
  <2>2. Len(SubSeq(f, p + n + 1, Len(f))) = Len(f) - (p + n)
    BY <1>1, <2>1
  <2>3. Len(SubSeq(f, p + n + 1, Len(f))) = 0
    BY <1>1, EmptySeq
  <2>4. 0 = Len(f) - (p + n)
    BY <2>2, <2>3, Zenon
  <2> QED BY <1>1, <2>1, <2>4
<1>3. ASSUME NEW i \in Ini!Starts(f), Ini!Complete(f, i) # {} PROVE i <= p
  <2>1. SUFFICES ASSUME ~(i <= p) PROVE FALSE
    OBVIOUS
  <2>2. i \in 1 .. Len(f)
    BY StartsAre
  <2>3. PICK j \in i .. Len(f) : ~f[j].more
    BY <1>3 DEF Ini!Complete
  <2>4. j - p \in 1 .. n /\ p + (j - p) = j
    BY <1>1, <1>2, <2>1, <2>2, <2>3
  <2> QED BY <1>1, <2>3, <2>4
<1>4. ASSUME NEW k PROVE Ini!Says(f, k) = {i \in Giving(f, p) : Ini!KeyAt(f, i) = k}
  <2>1. \A i : i \in Ini!Says(f, k) => i \in Giving(f, p) /\ Ini!KeyAt(f, i) = k
    BY <1>3, Zenon DEF Ini!Says, Giving
  <2>2. \A i : i \in Giving(f, p) /\ Ini!KeyAt(f, i) = k => i \in Ini!Says(f, k)
    BY <1>1, CompleteWhenOver, Zenon DEF Ini!Says, Giving
  <2> QED BY <2>1, <2>2
<1>5. DOMAIN d = Ini!AllKeys(f)
  <2>1. Given(f, p) \subseteq Ini!AllKeys(f)
    BY <1>1, GivenInAll
  <2>2. ASSUME NEW k \in Ini!AllKeys(f) PROVE k \in Given(f, p)
    <3>1. Ini!Says(f, k) # {}
      BY <2>2, Zenon DEF Ini!AllKeys
    <3> QED BY <1>4, <3>1 DEF Given
  <2> QED BY <2>1, <2>2 DEF Reads, Holds
<1>6. ASSUME NEW k \in DOMAIN d PROVE d[k] = Ini!ValueAt(f, Ini!Max(Ini!Says(f, k)))
  <2>1. PICK i \in Giving(f, p) : LastOf(f, p, k, i) /\ d[k] = Ini!ValueAt(f, i)
    BY <1>6, Zenon DEF Reads, Holds
  <2>2. Ini!Says(f, k) \in SUBSET Int /\ i \in Ini!Says(f, k) /\ \A j \in Ini!Says(f, k) : j <= i
    <3>1. Giving(f, p) \subseteq Int
      BY StartsAre DEF Giving
    <3> QED BY <1>4, <2>1, <3>1 DEF LastOf
  <2>3. Ini!Max(Ini!Says(f, k)) = i
    BY <2>2, MaxIs
  <2> QED BY <2>1, <2>3
<1>7. ASSUME NEW i \in Ini!Starts(f), Ini!Complete(f, i) # {} PROVE f[i].kind # "junk"
  BY <1>3, <1>7, Zenon DEF Reads, NoJunk
<1> QED BY <1>5, <1>6, <1>7, Zenon DEF AllSaid

LEMMA Least ==
  ASSUME NEW S \in SUBSET Nat, S # {} PROVE \E m \in S : \A y \in S : m <= y
<1>1. PICK x \in S : \A y \in S : ~(<<y, x>> \in OpToRel(<, Nat))
  BY NatLessThanWellFounded, WFMin
<1>2. ASSUME NEW y \in S PROVE x <= y
  <2>1. <<y, x>> \in Nat \X Nat
    OBVIOUS
  <2>2. ~(y < x)
    BY <1>1, <2>1 DEF OpToRel
  <2> QED BY <2>2
<1> QED BY <1>2

\* The words of joined lines.
LEMMA TextType ==
  ASSUME NEW l \in Seq(IniLines), l # <<>> PROVE Ini!Text(l) \in Seq(IniWords)
<1> DEFINE C == {i \in 2 .. Len(l) : l[i].kind = "comment"}
           end == IF C = {} THEN Len(l)
                  ELSE (CHOOSE i \in C : \A j \in C : i <= j) - 1
           x == [i \in 1 .. end |-> l[i].text]
<1>1. Len(l) \in Nat /\ Len(l) # 0 /\ C \in SUBSET Nat
  <2>1. Len(l) \in Nat /\ Len(l) # 0
    BY EmptySeq
  <2> QED BY <2>1
<1>2. end \in 1 .. Len(l)
  <2>1. CASE C = {}
    BY <1>1, <2>1
  <2>2. CASE C # {}
    <3>1. PICK m \in C : \A y \in C : m <= y
      BY <1>1, <2>2, Least
    <3>2. (CHOOSE i \in C : \A j \in C : i <= j) = m
      <4> HIDE DEF C
      <4>1. C \in SUBSET Int
        BY <1>1
      <4> QED BY <3>1, <4>1, FirstIs
    <3>3. m \in 2 .. Len(l)
      OBVIOUS
    <3>4. end = m - 1
      BY <2>2, <3>2, Zenon
    <3> HIDE DEF end
    <3> QED BY <1>1, <3>3, <3>4
  <2> QED BY <2>1, <2>2
<1>3. Ini!Text(l) = Ini!FlattenSeq(x)
  BY Zenon DEF Ini!Text
<1> HIDE DEF C, end
<1>4. \A i \in 1 .. end : l[i].text \in Seq(IniWords)
  <2>1. \A i \in 1 .. end : l[i] \in IniLines
    BY <1>1, <1>2
  <2> QED BY <2>1 DEF IniLines
<1>5. x \in Seq(Seq(IniWords))
  <2>1. x \in [1 .. end -> Seq(IniWords)] /\ end \in Nat
    BY <1>1, <1>2, <1>4
  <2> QED BY <2>1
<1>6. Ini!FlattenSeq(x) = Ext!FlattenSeq(x)
  BY Zenon DEF Ini!FlattenSeq, Ext!FlattenSeq
<1> QED BY <1>3, <1>5, <1>6, FlatType

\* What a line stores, and under which key.
EntryKey(line, s) == IF line.kind = "section" THEN Ini!SectionKey(IniLower[line.name])
                     ELSE Ini!ValueKey(s, IniLower[line.name])
EntryValue(l) == IF l[1].kind = "section" THEN <<>> ELSE Ini!Text(l)
Stores(line) == line.kind \in {"section", "value"}

Fails(l, s, d, m, d2, m2, r2) == /\ m = 0 /\ EntryKey(l[1], s) \notin DOMAIN d
                                 /\ d2 = d /\ m2 = m /\ r2 = <<>>
Succeeds(l, s, d, m, d2, m2, r, r2) ==
  /\ ~(m = 0 /\ EntryKey(l[1], s) \notin DOMAIN d)
  /\ d2 = Ini!Set(d, EntryKey(l[1], s), EntryValue(l))
  /\ m2 = IF EntryKey(l[1], s) \in DOMAIN d THEN m ELSE m - 1
  /\ r2 = Tail(r)

LEMMA TakeIs ==
  ASSUME Ini!Take
  PROVE  LET l == Line(joined, unread) IN
         /\ iniPhase = "reading" /\ unread # <<>> /\ ~Head(unread).more
         /\ Head(unread).kind # "long"
         /\ section' = SectionBehind(l[1], section)
         /\ errs' = IF l[1].kind = "junk" THEN errs + 1 ELSE errs
         /\ joined' = <<>> /\ file' = file /\ iniPhase' = iniPhase /\ saved' = saved
         /\ ~Stores(l[1]) => dict' = dict /\ mem' = mem /\ unread' = Tail(unread)
         /\ Stores(l[1]) =>
              \/ Fails(l, section, dict, mem, dict', mem', unread')
              \/ Succeeds(l, section, dict, mem, dict', mem', unread, unread')
<1> DEFINE l == Line(joined, unread)
<1>1. Ini!Line = l
  BY Zenon DEF Ini!Line, Line
<1>2. /\ iniPhase = "reading" /\ unread # <<>> /\ ~Head(unread).more
      /\ Head(unread).kind # "long"
      /\ section' = SectionBehind(l[1], section)
      /\ errs' = IF l[1].kind = "junk" THEN errs + 1 ELSE errs
      /\ joined' = <<>> /\ file' = file /\ iniPhase' = iniPhase /\ saved' = saved
  BY <1>1, Zenon DEF Ini!Take, Ini!NextSection, SectionBehind
<1>3. /\ Ini!Entries(l[1]) = {} => dict' = dict /\ mem' = mem /\ unread' = Tail(unread)
      /\ Ini!Entries(l[1]) # {} =>
           \E e \in Ini!Entries(l[1]) :
             IF mem = 0 /\ e[1] \notin DOMAIN dict
             THEN dict' = dict /\ mem' = mem /\ unread' = <<>>
             ELSE /\ dict' = Ini!Set(dict, e[1], e[2])
                  /\ mem' = IF e[1] \in DOMAIN dict THEN mem ELSE mem - 1
                  /\ unread' = Tail(unread)
  BY <1>1, Zenon DEF Ini!Take, Ini!Keys
<1>4. Ini!Entries(l[1]) = IF Stores(l[1]) THEN {<<EntryKey(l[1], section), EntryValue(l)>>} ELSE {}
  <2>1. CASE l[1].kind = "section"
    BY <1>1, <2>1 DEF Ini!Entries, Stores, EntryKey, EntryValue
  <2>2. CASE l[1].kind = "value"
    BY <1>1, <2>2 DEF Ini!Entries, Stores, EntryKey, EntryValue
  <2>3. CASE l[1].kind \notin {"section", "value"}
    BY <1>1, <2>3 DEF Ini!Entries, Stores
  <2> QED BY <2>1, <2>2, <2>3
<1> HIDE DEF l
<1>5. ASSUME ~Stores(l[1]) PROVE dict' = dict /\ mem' = mem /\ unread' = Tail(unread)
  BY <1>3, <1>4, <1>5
<1>6. ASSUME Stores(l[1])
      PROVE  \/ Fails(l, section, dict, mem, dict', mem', unread')
             \/ Succeeds(l, section, dict, mem, dict', mem', unread, unread')
  <2> DEFINE k == EntryKey(l[1], section)
             v == EntryValue(l)
  <2>1. <<k, v>>[1] = k /\ <<k, v>>[2] = v
    OBVIOUS
  <2> HIDE DEF k, v
  <2>2. Ini!Entries(l[1]) = {<<k, v>>}
    BY <1>4, <1>6, Zenon DEF k, v
  <2>3. IF mem = 0 /\ k \notin DOMAIN dict
        THEN dict' = dict /\ mem' = mem /\ unread' = <<>>
        ELSE /\ dict' = Ini!Set(dict, k, v)
             /\ mem' = IF k \in DOMAIN dict THEN mem ELSE mem - 1
             /\ unread' = Tail(unread)
    <3>1. {<<k, v>>} # {}
      OBVIOUS
    <3>2. PICK e \in {<<k, v>>} :
             IF mem = 0 /\ e[1] \notin DOMAIN dict
             THEN dict' = dict /\ mem' = mem /\ unread' = <<>>
             ELSE /\ dict' = Ini!Set(dict, e[1], e[2])
                  /\ mem' = IF e[1] \in DOMAIN dict THEN mem ELSE mem - 1
                  /\ unread' = Tail(unread)
      BY <1>3, <2>2, <3>1, Zenon
    <3>3. e[1] = k /\ e[2] = v
      BY <2>1
    <3> QED BY <3>2, <3>3, Zenon
  <2> QED BY <2>3, Zenon DEF Fails, Succeeds, k, v
<1> QED BY <1>2, <1>5, <1>6, Zenon DEF l

Stored(e, d, k, v) == /\ DOMAIN e = DOMAIN d \cup {k} /\ e[k] = v
                      /\ \A x \in DOMAIN d : x # k => e[x] = d[x]

LEMMA SetIs ==
  ASSUME NEW d, NEW k, NEW v, IsDict(d)
  PROVE  IsDict(Ini!Set(d, k, v)) /\ Stored(Ini!Set(d, k, v), d, k, v)
<1> DEFINE e == Ini!Set(d, k, v)
<1>1. e = [x \in DOMAIN d \cup {k} |-> IF x = k THEN v ELSE d[x]]
  BY Zenon DEF Ini!Set, Ini!Keys
<1>2. IsFiniteSet(DOMAIN d \cup {k})
  BY FS_AddElement DEF IsDict
<1> HIDE DEF e
<1>3. DOMAIN e = DOMAIN d \cup {k} /\ e[k] = v /\ \A x \in DOMAIN d : x # k => e[x] = d[x]
  BY <1>1
<1>4. e = [x \in DOMAIN e |-> e[x]]
  BY <1>1
<1> QED BY <1>2, <1>3, <1>4, Zenon DEF IsDict, Stored, e

LEMMA CountedMore ==
  ASSUME NEW d, NEW m, NEW k, NEW v, Counted(d, m), ~(m = 0 /\ k \notin DOMAIN d)
  PROVE  Counted(Ini!Set(d, k, v), IF k \in DOMAIN d THEN m ELSE m - 1)
<1> DEFINE e == Ini!Set(d, k, v)
           n == Cardinality(DOMAIN d)
           n2 == Cardinality(DOMAIN e)
<1>1. IsDict(d) /\ m \in Nat /\ m + n = IniMemory /\ n \in Nat
  BY FS_CardinalityType DEF Counted, IsDict
<1>2. IsDict(e) /\ DOMAIN e = DOMAIN d \cup {k}
  BY <1>1, SetIs, Zenon DEF Stored
<1>3. n2 = IF k \in DOMAIN d THEN n ELSE n + 1
  <2> HIDE DEF e
  <2> QED BY <1>1, <1>2, FS_AddElement DEF IsDict
<1> HIDE DEF n, n2
<1>4. CASE k \in DOMAIN d
  BY <1>1, <1>2, <1>3, <1>4, Zenon DEF Counted, n2
<1>5. CASE k \notin DOMAIN d
  <2>1. m - 1 \in Nat /\ (m - 1) + (n + 1) = IniMemory
    BY <1>1, <1>5
  <2> QED BY <1>2, <1>3, <1>5, <2>1, Zenon DEF Counted, n2
<1> QED BY <1>4, <1>5

LEMMA WellFormedSection ==
  ASSUME NEW d, NEW a \in LowNames, WellFormed(d)
  PROVE  /\ WellFormed(Ini!Set(d, <<a>>, <<>>))
         /\ <<a>> \in DOMAIN Ini!Set(d, <<a>>, <<>>)
<1> DEFINE k == <<a>>
           e == Ini!Set(d, k, <<>>)
<1>1. Len(k) = 1 /\ k = <<k[1]>> /\ k[1] \in LowNames
  OBVIOUS
<1>2. /\ DOMAIN e = DOMAIN d \cup {k} /\ e[k] = <<>> /\ IsDict(e)
      /\ \A x \in DOMAIN d : x # k => e[x] = d[x]
  <2>1. IsDict(d)
    BY Zenon DEF WellFormed
  <2>2. IsDict(e) /\ Stored(e, d, k, <<>>)
    BY <2>1, SetIs, Zenon
  <2> QED BY <2>2, Zenon DEF Stored
<1> HIDE DEF e, k
<1>3. ASSUME NEW x \in DOMAIN e PROVE OfSection(x, e) \/ OfValue(x, e)
  <2>1. CASE x = k
    BY <1>1, <1>2, <2>1, Zenon DEF OfSection
  <2>2. CASE x # k
    <3>1. x \in DOMAIN d /\ e[x] = d[x] /\ DOMAIN d \subseteq DOMAIN e
      BY <1>2, <1>3, <2>2
    <3>2. OfSection(x, d) \/ OfValue(x, d)
      BY <3>1, Zenon DEF WellFormed
    <3>3. CASE OfSection(x, d)
      BY <3>1, <3>3, Zenon DEF OfSection
    <3>4. CASE OfValue(x, d)
      <4>1. x[1] = IniTop \/ <<x[1]>> \in DOMAIN e
        BY <3>1, <3>4 DEF OfValue
      <4> QED BY <3>1, <3>4, <4>1, Zenon DEF OfValue
    <3> QED BY <3>2, <3>3, <3>4
  <2> QED BY <2>1, <2>2
<1>4. k \in DOMAIN e
  BY <1>2
<1> QED BY <1>2, <1>3, <1>4, Zenon DEF WellFormed, e, k

LEMMA WellFormedValue ==
  ASSUME NEW d, NEW s, NEW b \in LowNames, NEW v \in Seq(IniWords), WellFormed(d),
         s = IniTop \/ Known(s, d)
  PROVE  /\ WellFormed(Ini!Set(d, <<s, b>>, v))
         /\ s = IniTop \/ Known(s, Ini!Set(d, <<s, b>>, v))
<1> DEFINE k == <<s, b>>
           e == Ini!Set(d, k, v)
<1>1. Len(k) = 2 /\ k = <<k[1], k[2]>> /\ k[2] \in LowNames /\ k[1] = s
  OBVIOUS
<1>2. /\ DOMAIN e = DOMAIN d \cup {k} /\ e[k] = v /\ IsDict(e)
      /\ \A x \in DOMAIN d : x # k => e[x] = d[x]
  <2>1. IsDict(d)
    BY Zenon DEF WellFormed
  <2>2. IsDict(e) /\ Stored(e, d, k, v)
    BY <2>1, SetIs, Zenon
  <2> QED BY <2>2, Zenon DEF Stored
<1> HIDE DEF e, k
<1>3. s = IniTop \/ <<s>> \in DOMAIN e
  BY <1>2 DEF Known
<1>4. ASSUME NEW x \in DOMAIN e PROVE OfSection(x, e) \/ OfValue(x, e)
  <2>1. CASE x = k
    BY <1>1, <1>2, <1>3, <2>1, Zenon DEF OfValue
  <2>2. CASE x # k
    <3>1. x \in DOMAIN d /\ e[x] = d[x] /\ DOMAIN d \subseteq DOMAIN e
      BY <1>2, <1>4, <2>2
    <3>2. OfSection(x, d) \/ OfValue(x, d)
      BY <3>1, Zenon DEF WellFormed
    <3>3. CASE OfSection(x, d)
      BY <3>1, <3>3, Zenon DEF OfSection
    <3>4. CASE OfValue(x, d)
      <4>1. x[1] = IniTop \/ <<x[1]>> \in DOMAIN e
        BY <3>1, <3>4 DEF OfValue
      <4> QED BY <3>1, <3>4, <4>1, Zenon DEF OfValue
    <3> QED BY <3>2, <3>3, <3>4
  <2> QED BY <2>1, <2>2
<1>5. s = IniTop \/ Known(s, e)
  BY <1>3, Zenon DEF Known
<1> QED BY <1>2, <1>4, <1>5, Zenon DEF WellFormed, e, k

\* The lines of a file have names that strlwc maps to names.
LEMMA LineNames ==
  ASSUME NEW f \in Seq(IniLines), NEW p, NEW q, NEW r, Joined(f, p, q, r), r # <<>>
  PROVE  /\ Line(q, r) \in Seq(IniLines) /\ Line(q, r) # <<>>
         /\ IniLower[Line(q, r)[1].name] \in LowNames
<1>0. f \in Seq(AnyLines)
  <2>1. IniLines \subseteq AnyLines
    BY DEF IniLines, AnyLines
  <2> QED BY <2>1
<1>1. /\ p + Len(q) + 1 \in 1 .. Len(f) /\ Head(r) = f[p + Len(q) + 1] /\ p \in Nat /\ Len(q) \in Nat
      /\ p + 1 \in 1 .. Len(f)
  BY <1>0, StartsTaken
<1>2. q \in Seq(AnyLines) /\ (\A i \in 1 .. Len(q) : q[i] = f[p + i]) /\ p + Len(q) \in 0 .. Len(f)
  BY DEF Joined
<1>3. \A i \in 1 .. Len(f) : f[i] \in IniLines
  OBVIOUS
<1>4. ASSUME NEW i \in 1 .. Len(q) PROVE q[i] \in IniLines
  <2>1. p + i \in 1 .. Len(f)
    BY <1>1, <1>2
  <2> QED BY <1>2, <1>3, <2>1
<1>5. q \in Seq(IniLines)
  BY <1>2, <1>4
<1>6. Line(q, r) \in Seq(IniLines) /\ Line(q, r) # <<>> /\ Len(Line(q, r)) = Len(q) + 1
  BY <1>1, <1>3, <1>5 DEF Line
<1>7. Line(q, r)[1] \in IniLines
  BY <1>1, <1>6
<1>8. Line(q, r)[1].name \in IniNames
  BY <1>7 DEF IniLines
<1> QED BY <1>6, <1>8, IniAssumption DEF LowNames

LEMMA NamedTaken ==
  ASSUME NEW f \in Seq(IniLines), NEW p, NEW q, NEW r, NEW s, NEW d, NEW r2, NEW d2,
         Joined(f, p, q, r), r # <<>>, Named(r, s, d),
         \/ ~Stores(Line(q, r)[1]) /\ d2 = d
         \/ r2 = <<>> /\ d2 = d
         \/ /\ Stores(Line(q, r)[1])
            /\ d2 = Ini!Set(d, EntryKey(Line(q, r)[1], s), EntryValue(Line(q, r)))
  PROVE  Named(r2, SectionBehind(Line(q, r)[1], s), d2)
<1> DEFINE l == Line(q, r)
           a == IniLower[l[1].name]
<1>1. l \in Seq(IniLines) /\ l # <<>> /\ a \in LowNames
  BY LineNames, Zenon
<1>2. WellFormed(d) /\ (s = IniTop \/ Known(s, d))
  BY Zenon DEF Named
<1>3. \/ ~Stores(l[1]) /\ d2 = d
      \/ r2 = <<>> /\ d2 = d
      \/ Stores(l[1]) /\ d2 = Ini!Set(d, EntryKey(l[1], s), EntryValue(l))
  BY Zenon
<1> HIDE DEF l, a
<1>4. CASE ~Stores(l[1]) /\ d2 = d
  BY <1>2, <1>4 DEF Stores, SectionBehind, Named, l
<1>5. CASE r2 = <<>> /\ d2 = d
  BY <1>2, <1>5, Zenon DEF Named
<1>6. CASE Stores(l[1]) /\ l[1].kind = "section" /\ d2 = Ini!Set(d, EntryKey(l[1], s), EntryValue(l))
  <2>1. d2 = Ini!Set(d, <<a>>, <<>>)
    BY <1>6, Zenon DEF EntryKey, EntryValue, Ini!SectionKey, a
  <2>2. WellFormed(d2) /\ <<a>> \in DOMAIN d2
    BY <1>1, <1>2, <2>1, WellFormedSection, Zenon
  <2>3. SectionBehind(l[1], s) = a
    BY <1>6, Zenon DEF SectionBehind, a
  <2> QED BY <1>1, <2>2, <2>3, Zenon DEF Named, Known, l
<1>7. CASE Stores(l[1]) /\ l[1].kind # "section" /\ d2 = Ini!Set(d, EntryKey(l[1], s), EntryValue(l))
  <2>1. d2 = Ini!Set(d, <<s, a>>, Ini!Text(l))
    BY <1>7, Zenon DEF EntryKey, EntryValue, Ini!ValueKey, a
  <2>2. Ini!Text(l) \in Seq(IniWords)
    BY <1>1, TextType, Zenon
  <2>3. WellFormed(d2) /\ (s = IniTop \/ Known(s, d2))
    BY <1>1, <1>2, <2>1, <2>2, WellFormedValue, Zenon
  <2>4. SectionBehind(l[1], s) = s
    BY <1>7, Zenon DEF SectionBehind
  <2> QED BY <2>3, <2>4, Zenon DEF Named, l
<1> QED BY <1>3, <1>4, <1>5, <1>6, <1>7, Zenon

LEMMA ReadsFirst ==
  ASSUME NEW f \in Seq(AnyLines)
  PROVE  /\ Counted(Ini!NoDict, IniMemory) /\ WellFormed(Ini!NoDict)
         /\ ReadSoFar(f, <<>>, f, IniTop, Ini!NoDict, 0)
<1>1. DOMAIN Ini!NoDict = {} /\ IsDict(Ini!NoDict) /\ Cardinality(DOMAIN Ini!NoDict) = 0
  <2>1. DOMAIN Ini!NoDict = {} /\ Ini!NoDict = [k \in DOMAIN Ini!NoDict |-> Ini!NoDict[k]]
    BY DEF Ini!NoDict
  <2> QED BY <2>1, FS_EmptySet DEF IsDict
<1>2. Counted(Ini!NoDict, IniMemory)
  <2>1. IniMemory \in Nat /\ IniMemory + 0 = IniMemory
    BY IniAssumption
  <2> QED BY <1>1, <2>1, Zenon DEF Counted
<1>3. WellFormed(Ini!NoDict)
  BY <1>1 DEF WellFormed
<1>4. Giving(f, 0) = {} /\ (\A i \in Ini!Starts(f) : ~(i <= 0) /\ ~(i < 1))
  BY StartsAre DEF Giving
<1>5. Joined(f, 0, <<>>, f)
  <2>1. LineBegins(f, 0 + 1)
    BY BeginsAfter
  <2>2. /\ <<>> \in Seq(AnyLines) /\ Len(<<>>) = 0 /\ Len(f) \in Nat /\ f = SubSeq(f, 1, Len(f))
        /\ DOMAIN f = 1 .. Len(f)
    BY SubSeqFull, LenProperties, EmptySeq
  <2>3. /\ 0 \in 0 .. Len(f) /\ 0 + Len(<<>>) \in 0 .. Len(f) /\ 0 + Len(<<>>) + 1 = 1
        /\ ~(Len(<<>>) > 0) /\ \A i \in 1 .. Len(<<>>) : FALSE
    BY <2>2
  <2> QED BY <2>1, <2>2, <2>3, Zenon DEF Joined
<1>6. Ini!SectionAt(f, 0 + 1) = IniTop
  <2>1. Before(f, 0 + 1) = {}
    BY <1>4 DEF Before
  <2> QED BY <2>1 DEF Ini!SectionAt, Before
<1>7. Holds(f, 0, Ini!NoDict)
  BY <1>1, <1>4 DEF Holds, Given
<1>8. AreOver(f, 0) /\ NoJunk(f, 0) /\ 0 \in 0 .. Len(f)
  <2>1. 0 \in 0 .. Len(f)
    BY LenProperties
  <2> QED BY <1>4, <2>1, Zenon DEF AreOver, NoJunk
<1>9. Reads(f, 0, <<>>, f, IniTop, Ini!NoDict, 0)
  BY <1>5, <1>6, <1>7, <1>8, Zenon DEF Reads
<1> QED BY <1>2, <1>3, <1>8, <1>9, Zenon DEF ReadSoFar

LEMMA AnyFile == Seq(IniLines) \subseteq Seq(AnyLines)
<1>1. IniLines \subseteq AnyLines
  BY DEF IniLines, AnyLines
<1> QED BY <1>1

LEMMA IniStarts == Ini!Init => IniInv
<1> SUFFICES ASSUME Ini!Init PROVE IniInv
  OBVIOUS
<1>1. /\ file \in IniFiles /\ unread = file /\ joined = <<>> /\ section = IniTop
      /\ dict = Ini!NoDict /\ errs = 0 /\ mem = IniMemory /\ iniPhase = "reading"
      /\ saved = Ini!NoDict
  BY Zenon DEF Ini!Init
<1>2. file \in Seq(IniLines) /\ file \in Seq(AnyLines)
  BY <1>1, AnyFile, IniAssumption
<1>3. /\ Counted(dict, mem) /\ WellFormed(dict)
      /\ ReadSoFar(file, joined, unread, section, dict, errs)
  BY <1>1, <1>2, ReadsFirst, Zenon
<1>4. Named(unread, section, dict)
  BY <1>1, <1>3, Zenon DEF Named
<1>5. errs \in Nat /\ "reading" # "loaded" /\ "reading" \in {"reading", "loaded", "refused"}
  BY <1>1
<1> QED BY <1>1, <1>2, <1>3, <1>4, <1>5, Zenon DEF IniInv

\* What the steps rely on.
LEMMA ReadingMore ==
  ASSUME NEW f \in Seq(AnyLines), NEW q, NEW r, NEW s, NEW d, NEW e,
         ReadSoFar(f, q, r, s, d, e), r # <<>>
  PROVE  \E p \in 0 .. Len(f) : Reads(f, p, q, r, s, d, e) /\ Joined(f, p, q, r)
  BY Zenon DEF ReadSoFar, Reads

LEMMA PlainLines ==
  ASSUME NEW f \in Seq(AnyLines), NEW q, NEW r, NEW s, NEW d, NEW e,
         ReadSoFar(f, q, r, s, d, e), r # <<>>, Plain(f)
  PROVE  ~Head(r).more /\ Head(r).kind # "long" /\ Line(q, r)[1].kind # "junk"
<1>1. PICK p \in 0 .. Len(f) : Joined(f, p, q, r)
  BY ReadingMore, Zenon
<1>2. /\ p + Len(q) + 1 \in 1 .. Len(f) /\ Head(r) = f[p + Len(q) + 1]
      /\ p + 1 \in 1 .. Len(f) /\ DOMAIN f = 1 .. Len(f)
  BY <1>1, StartsTaken, StartsAre
<1>3. ~Head(r).more /\ Head(r).kind \in {"section", "value"}
      /\ f[p + 1].kind \in {"section", "value"}
  BY <1>2, Zenon DEF Plain
<1>4. Line(q, r)[1] = f[p + 1]
  BY <1>1, <1>3, ValueTaken DEF Line
<1> QED BY <1>3, <1>4

LEMMA JoinKeeps == ASSUME IniInv, Ini!Join PROVE IniInv'
<1>1. /\ iniPhase = "reading" /\ unread # <<>> /\ Head(unread).more
      /\ joined' = (IF Len(Line(joined, unread)) = 1 /\ Line(joined, unread)[1].kind = "blank"
                    THEN <<>> ELSE Line(joined, unread))
      /\ unread' = Tail(unread) /\ file' = file /\ section' = section /\ dict' = dict
      /\ errs' = errs /\ mem' = mem /\ iniPhase' = iniPhase /\ saved' = saved
  BY Zenon DEF Ini!Join, Ini!Line, Line
<1>2. /\ file \in Seq(AnyLines) /\ errs \in Nat /\ Counted(dict, mem)
      /\ ReadSoFar(file, joined, unread, section, dict, errs)
      /\ "reading" # "refused" /\ "reading" # "loaded"
      /\ "reading" \in {"reading", "loaded", "refused"}
  <2>1. "reading" # "refused" /\ "reading" # "loaded" /\ "reading" \in {"reading", "loaded", "refused"}
    OBVIOUS
  <2> QED BY <1>1, <2>1, Zenon DEF IniInv
<1>3. saved = Ini!NoDict
  <2>1. SUFFICES ASSUME saved # Ini!NoDict PROVE FALSE
    BY Zenon
  <2>2. Plain(file)
    BY <2>1, Zenon DEF IniInv, SavedAs
  <2> QED BY <1>1, <1>2, <2>2, PlainLines, Zenon
<1>4. PICK p \in 0 .. Len(file) : Reads(file, p, joined, unread, section, dict, errs)
  BY <1>1, <1>2, ReadingMore, Zenon
<1>5. \E k \in 0 .. Len(file) : Reads(file, k, joined', Tail(unread), section, dict, errs)
  <2>1. CASE Len(Line(joined, unread)) = 1 /\ Line(joined, unread)[1].kind = "blank"
    <3>1. p + 1 \in 0 .. Len(file) /\ Reads(file, p + 1, <<>>, Tail(unread), section, dict, errs)
      BY <1>1, <1>2, <1>4, <2>1, ReadsBlank, Zenon
    <3> QED BY <1>1, <2>1, <3>1, Zenon
  <2>2. CASE ~(Len(Line(joined, unread)) = 1 /\ Line(joined, unread)[1].kind = "blank")
    <3>1. Reads(file, p, Line(joined, unread), Tail(unread), section, dict, errs)
      BY <1>1, <1>2, <1>4, <2>2, ReadsJoined, Zenon
    <3> QED BY <1>1, <2>2, <3>1, Zenon
  <2> QED BY <2>1, <2>2, Zenon
<1>6. ReadSoFar(file', joined', unread', section', dict', errs')
  BY <1>1, <1>5, Zenon DEF ReadSoFar
<1>7. file \in Seq(IniLines) /\ Named(unread', section, dict)
  <2>1. file \in Seq(IniLines) /\ Named(unread, section, dict)
    BY <1>1, <1>2, <1>3, Zenon DEF IniInv
  <2> QED BY <1>1, <2>1, Zenon DEF Named
<1> QED BY <1>1, <1>2, <1>3, <1>6, <1>7, Zenon DEF IniInv

LEMMA TooLongKeeps == ASSUME IniInv, Ini!TooLong PROVE IniInv'
<1>1. /\ iniPhase = "reading" /\ unread # <<>> /\ Head(unread).kind = "long"
      /\ iniPhase' = "refused" /\ file' = file /\ saved' = saved /\ errs' = errs
  BY Zenon DEF Ini!TooLong
<1>2. "reading" # "refused" /\ "refused" # "loaded" /\ "refused" \in {"reading", "loaded", "refused"}
  OBVIOUS
<1>3. /\ file \in Seq(AnyLines) /\ errs \in Nat
      /\ ReadSoFar(file, joined, unread, section, dict, errs)
      /\ saved = Ini!NoDict => file \in Seq(IniLines)
      /\ saved # Ini!NoDict => Plain(file)
  BY <1>1, <1>2, Zenon DEF IniInv, SavedAs
<1>4. saved = Ini!NoDict
  BY <1>1, <1>3, PlainLines, Zenon
<1> QED BY <1>1, <1>2, <1>3, <1>4, Zenon DEF IniInv

LEMMA FinishKeeps == ASSUME IniInv, Ini!Finish PROVE IniInv'
<1>1. /\ iniPhase = "reading" /\ unread = <<>>
      /\ iniPhase' = (IF errs = 0 THEN "loaded" ELSE "refused")
      /\ dict' = (IF errs = 0 THEN dict ELSE Ini!NoDict)
      /\ unread' = unread /\ joined' = joined /\ file' = file /\ section' = section
      /\ errs' = errs /\ mem' = mem /\ saved' = saved
  BY Zenon DEF Ini!Finish
<1>2. "reading" # "refused" /\ "refused" # "loaded" /\ "refused" \in {"reading", "loaded", "refused"}
      /\ "loaded" \in {"reading", "loaded", "refused"}
  OBVIOUS
<1>3. /\ file \in Seq(AnyLines) /\ errs \in Nat /\ Counted(dict, mem)
      /\ ReadSoFar(file, joined, unread, section, dict, errs)
      /\ saved = Ini!NoDict => file \in Seq(IniLines) /\ Named(unread, section, dict)
      /\ saved # Ini!NoDict => SavedAs(saved, file) /\ errs = 0
  BY <1>1, <1>2, Zenon DEF IniInv
<1>4. CASE errs = 0
  BY <1>1, <1>2, <1>3, <1>4, Zenon DEF IniInv
<1>5. CASE errs # 0
  BY <1>1, <1>2, <1>3, <1>5, Zenon DEF IniInv
<1> QED BY <1>4, <1>5

LEMMA TakeKeeps == ASSUME IniInv, Ini!Take PROVE IniInv'
<1> DEFINE l == Line(joined, unread)
           line == l[1]
<1>1. /\ iniPhase = "reading" /\ unread # <<>> /\ ~Head(unread).more
      /\ section' = SectionBehind(line, section)
      /\ errs' = (IF line.kind = "junk" THEN errs + 1 ELSE errs)
      /\ joined' = <<>> /\ file' = file /\ iniPhase' = iniPhase /\ saved' = saved
      /\ ~Stores(line) => dict' = dict /\ mem' = mem /\ unread' = Tail(unread)
      /\ Stores(line) =>
           \/ Fails(l, section, dict, mem, dict', mem', unread')
           \/ Succeeds(l, section, dict, mem, dict', mem', unread, unread')
  BY TakeIs, Zenon
<1>2. "reading" # "refused" /\ "reading" # "loaded" /\ "reading" \in {"reading", "loaded", "refused"}
  OBVIOUS
<1>3. /\ file \in Seq(AnyLines) /\ errs \in Nat /\ Counted(dict, mem)
      /\ ReadSoFar(file, joined, unread, section, dict, errs)
      /\ saved = Ini!NoDict => file \in Seq(IniLines) /\ Named(unread, section, dict)
      /\ saved # Ini!NoDict => SavedAs(saved, file) /\ errs = 0
  BY <1>1, <1>2, Zenon DEF IniInv
<1>4. PICK p \in 0 .. Len(file) : /\ Reads(file, p, joined, unread, section, dict, errs)
                                  /\ Joined(file, p, joined, unread)
  BY <1>1, <1>3, ReadingMore, Zenon
<1>5. errs' \in Nat
  BY <1>1, <1>3
<1>6. /\ line = file[p + 1]
      /\ EntryKey(line, section) = Ini!KeyAt(file, p + 1)
      /\ EntryValue(l) = Ini!ValueAt(file, p + 1)
  <2>1. line = file[p + 1] /\ Ini!ValueAt(file, p + 1) = IF file[p + 1].kind = "section" THEN <<>>
                                                         ELSE Ini!Text(l)
    BY <1>1, <1>3, <1>4, ValueTaken DEF Line
  <2>2. section = Ini!SectionAt(file, p + 1)
    BY <1>4, Zenon DEF Reads
  <2> HIDE DEF l
  <2> QED BY <2>1, <2>2, Zenon DEF EntryKey, EntryValue, Ini!KeyAt
<1> HIDE DEF l, line
<1>7. Counted(dict', mem')
  <2>1. CASE ~Stores(line) \/ Fails(l, section, dict, mem, dict', mem', unread')
    BY <1>1, <1>3, <2>1, Zenon DEF Fails
  <2>2. CASE Succeeds(l, section, dict, mem, dict', mem', unread, unread')
    BY <1>3, <2>2, CountedMore, Zenon DEF Succeeds
  <2> QED BY <1>1, <2>1, <2>2, Zenon
<1>8. ReadSoFar(file', joined', unread', section', dict', errs')
  <2>1. CASE Stores(line) /\ Fails(l, section, dict, mem, dict', mem', unread')
    <3>1. /\ unread' = <<>> /\ IsFiniteSet(DOMAIN dict) /\ mem = 0
          /\ Ini!KeyAt(file, p + 1) \notin DOMAIN dict
          /\ 0 + Cardinality(DOMAIN dict) = IniMemory
          /\ file[p + 1].kind \in {"section", "value"}
      BY <1>3, <1>6, <2>1, Zenon DEF Fails, Counted, IsDict, Stores, line
    <3>2. Cardinality(DOMAIN dict) = IniMemory
      BY <3>1, FS_CardinalityType
    <3>3. Full(file)
      BY <1>1, <1>3, <1>4, <3>1, <3>2, FullWhen
    <3> QED BY <1>1, <3>1, <3>3, Zenon DEF ReadSoFar
  <2>2. CASE ~Stores(line) \/ Succeeds(l, section, dict, mem, dict', mem', unread, unread')
    <3>1. /\ unread' = Tail(unread)
          /\ ~Stores(line) => dict' = dict
          /\ Stores(line) => dict' = Ini!Set(dict, Ini!KeyAt(file, p + 1), Ini!ValueAt(file, p + 1))
      BY <1>1, <1>6, <2>2, Zenon DEF Succeeds, Fails, line
    <3>2. /\ errs' = IF Line(joined, unread)[1].kind = "junk" THEN errs + 1 ELSE errs
          /\ Line(joined, unread)[1].kind \notin {"section", "value"} => dict' = dict
          /\ Line(joined, unread)[1].kind \in {"section", "value"} =>
               dict' = Ini!Set(dict, Ini!KeyAt(file, p + 1), Ini!ValueAt(file, p + 1))
      BY <1>1, <3>1, Zenon DEF Stores, line, l
    <3> DEFINE t == p + Len(joined) + 1
    <3>3. /\ t \in 0 .. Len(file)
          /\ Reads(file, t, <<>>, Tail(unread), SectionBehind(Line(joined, unread)[1], section), dict', errs')
      BY <1>1, <1>3, <1>4, <1>5, <3>2, ReadsTaken
    <3> QED BY <1>1, <3>1, <3>3, Zenon DEF ReadSoFar, line, l
  <2> QED BY <1>1, <2>1, <2>2, Zenon
<1>9. ASSUME saved = Ini!NoDict PROVE Named(unread', section', dict')
  <2>1. file \in Seq(IniLines) /\ Named(unread, section, dict)
    BY <1>3, <1>9, Zenon
  <2>2. \/ ~Stores(Line(joined, unread)[1]) /\ dict' = dict
        \/ unread' = <<>> /\ dict' = dict
        \/ /\ Stores(Line(joined, unread)[1])
           /\ dict' = Ini!Set(dict, EntryKey(Line(joined, unread)[1], section),
                              EntryValue(Line(joined, unread)))
    BY <1>1, Zenon DEF Fails, Succeeds, line, l
  <2>3. Named(unread', SectionBehind(Line(joined, unread)[1], section), dict')
    BY <1>1, <1>4, <2>1, <2>2, NamedTaken
  <2> QED BY <1>1, <2>3, Zenon DEF line, l
<1>10. ASSUME saved # Ini!NoDict PROVE errs' = 0
  <2>1. Plain(file) /\ errs = 0
    BY <1>3, <1>10, Zenon DEF SavedAs
  <2>2. line.kind # "junk"
    BY <1>1, <1>3, <2>1, PlainLines, Zenon DEF line, l
  <2> QED BY <1>1, <2>1, <2>2, Zenon
<1> QED BY <1>1, <1>2, <1>3, <1>5, <1>7, <1>8, <1>9, <1>10, Zenon DEF IniInv

LEMMA IniCardinality == \A S : Ini!Cardinality(S) = Cardinality(S)
  BY Zenon DEF Ini!Cardinality, Cardinality

LEMMA Enumerates ==
  ASSUME NEW S, IsFiniteSet(S)
  PROVE  /\ Ini!SetToSeq(S) \in Seq(S) /\ Len(Ini!SetToSeq(S)) = Cardinality(S)
         /\ \A x \in S : \E i \in 1 .. Cardinality(S) : Ini!SetToSeq(S)[i] = x
         /\ Cardinality(S) \in Nat
<1> DEFINE n == Cardinality(S)
           q == Ini!SetToSeq(S)
<1>1. n \in Nat /\ ExistsBijection(1 .. n, S)
  BY FS_CardinalityType
<1>2. PICK g : g \in Bijection(1 .. n, S)
  BY <1>1 DEF ExistsBijection
<1>3. g \in [1 .. n -> S] /\ Ini!IsInjective(g)
  BY <1>2 DEF Bijection, Injection, IsInjective, Ini!IsInjective
<1>4. \E h \in [1 .. n -> S] : Ini!IsInjective(h)
  BY <1>3
<1> HIDE DEF n, q
<1>5. q \in [1 .. n -> S] /\ Ini!IsInjective(q)
  BY <1>4, IniCardinality, Zenon DEF Ini!SetToSeq, n, q
<1>6. q \in Injection(1 .. n, S)
  BY <1>5 DEF Injection, IsInjective, Ini!IsInjective
<1>7. Cardinality(1 .. n) = n
  BY <1>1, FS_Interval
<1>8. q \in Surjection(1 .. n, S)
  BY <1>6, <1>7, FS_Injection DEF n
<1>9. q \in Seq(S) /\ Len(q) = n
  BY <1>1, <1>5
<1>10. \A x \in S : \E i \in 1 .. n : q[i] = x
  BY <1>8 DEF Surjection
<1> QED BY <1>1, <1>9, <1>10 DEF n, q

\* What iniparser_dump_ini writes of a section.
SectionLine(s) == Ini!Printed("section", s, <<>>)
ValueLine(k, d) == Ini!Printed("value", k[2], d[k])
ValueLines(d, s) == LET keys == Ini!SetToSeq(Ini!KeysOf(d, s)) IN
                    [j \in 1 .. Len(keys) |-> ValueLine(keys[j], d)]
Group(d, s) == <<SectionLine(s)>> \o ValueLines(d, s)

\* The line at i of f belongs to the section s.
Owned(f, d, s, i) ==
  \E j \in 1 .. i : /\ f[j] = SectionLine(s)
                    /\ \A l \in j + 1 .. i : f[l].kind = "value"
                    /\ i = j \/ \E k \in Ini!KeysOf(d, s) : f[i] = ValueLine(k, d)

Dumps(f, d, S) ==
  /\ f \in Seq(AnyLines)
  /\ \A i \in 1 .. Len(f) : \E s \in S : Owned(f, d, s, i)
  /\ \A s \in S : /\ \E i \in 1 .. Len(f) : f[i] = SectionLine(s)
                  /\ \A k \in Ini!KeysOf(d, s) : \E i \in 1 .. Len(f) :
                       f[i] = ValueLine(k, d) /\ Owned(f, d, s, i)

IsLine(l, kind, nm, x) ==
  l \in AnyLines /\ l.kind = kind /\ l.name = nm /\ l.text = x /\ ~l.more

LEMMA LineIs ==
  ASSUME NEW kind \in {"section", "value"}, NEW nm \in IniNames \cup ColonNames,
         NEW x \in Seq(IniWords)
  PROVE  IsLine(Ini!Printed(kind, nm, x), kind, nm, x)
  BY DEF Ini!Printed, AnyLines, IsLine

LEMMA KeysAre ==
  ASSUME NEW d, WellFormed(d), NEW s
  PROVE  /\ IsFiniteSet(Ini!KeysOf(d, s))
         /\ \A k \in Ini!KeysOf(d, s) : k \in DOMAIN d /\ OfValue(k, d) /\ k[1] = s
<1>1. Ini!KeysOf(d, s) = {k \in DOMAIN d : Len(k) = 2 /\ k[1] = s}
  BY Zenon DEF Ini!KeysOf, Ini!Keys
<1>2. Ini!KeysOf(d, s) \in SUBSET (DOMAIN d) /\ IsFiniteSet(DOMAIN d)
  BY <1>1, Zenon DEF WellFormed, IsDict
<1>3. ASSUME NEW k \in Ini!KeysOf(d, s) PROVE k \in DOMAIN d /\ OfValue(k, d) /\ k[1] = s
  <2>1. k \in DOMAIN d /\ Len(k) = 2 /\ k[1] = s
    BY <1>1
  <2>2. OfSection(k, d) \/ OfValue(k, d)
    BY <2>1, Zenon DEF WellFormed
  <2>3. ~OfSection(k, d)
    BY <2>1 DEF OfSection
  <2> QED BY <2>1, <2>2, <2>3
<1> QED BY <1>2, <1>3, FS_Subset

LEMMA ValueLineIs ==
  ASSUME NEW d, NEW k \in DOMAIN d, OfValue(k, d)
  PROVE  /\ ValueLine(k, d) \in AnyLines /\ ValueLine(k, d).kind = "value"
         /\ ValueLine(k, d).name = k[2] /\ ValueLine(k, d).text = d[k]
         /\ ~ValueLine(k, d).more
<1>1. k[2] \in IniNames \cup ColonNames /\ d[k] \in Seq(IniWords)
  BY DEF OfValue, LowNames
<1>2. "value" \in {"section", "value"}
  OBVIOUS
<1>3. IsLine(ValueLine(k, d), "value", k[2], d[k])
  BY <1>1, <1>2, LineIs, Zenon DEF ValueLine
<1> QED BY <1>3, Zenon DEF IsLine

LEMMA SectionLineIs ==
  ASSUME NEW s \in LowNames
  PROVE  /\ SectionLine(s) \in AnyLines /\ SectionLine(s).kind = "section"
         /\ SectionLine(s).name = s /\ SectionLine(s).text = <<>> /\ ~SectionLine(s).more
<1>1. s \in IniNames \cup ColonNames /\ <<>> \in Seq(IniWords)
  BY DEF LowNames
<1>2. "section" \in {"section", "value"}
  OBVIOUS
<1>3. IsLine(Ini!Printed("section", s, <<>>), "section", s, <<>>)
  BY <1>1, <1>2, LineIs
<1>4. IsLine(SectionLine(s), "section", s, <<>>)
  BY <1>3 DEF SectionLine
<1> QED BY <1>4, Zenon DEF IsLine

LEMMA GroupIs ==
  ASSUME NEW d, WellFormed(d), NEW s \in LowNames
  PROVE  /\ Group(d, s) \in Seq(AnyLines) /\ Len(Group(d, s)) \in Nat /\ Len(Group(d, s)) >= 1
         /\ Group(d, s)[1] = SectionLine(s)
         /\ \A i \in 2 .. Len(Group(d, s)) : \E k \in Ini!KeysOf(d, s) : Group(d, s)[i] = ValueLine(k, d)
         /\ \A k \in Ini!KeysOf(d, s) : \E i \in 2 .. Len(Group(d, s)) : Group(d, s)[i] = ValueLine(k, d)
<1> DEFINE K == Ini!KeysOf(d, s)
           keys == Ini!SetToSeq(K)
           n == Len(keys)
           v == ValueLines(d, s)
           g == Group(d, s)
<1>1. /\ keys \in Seq(K) /\ n \in Nat
      /\ \A x \in K : \E i \in 1 .. n : keys[i] = x
  BY KeysAre, Enumerates
<1>2. /\ \A k \in K : ValueLine(k, d) \in AnyLines
      /\ SectionLine(s) \in AnyLines
  BY KeysAre, ValueLineIs, SectionLineIs
<1>3. v = [j \in 1 .. n |-> ValueLine(keys[j], d)]
  BY Zenon DEF ValueLines
<1>4. g = <<SectionLine(s)>> \o v
  BY Zenon DEF Group
<1> HIDE DEF K, keys, n, v, g
<1>5. \A j \in 1 .. n : keys[j] \in K
  BY <1>1 DEF n
<1>6. v \in Seq(AnyLines) /\ Len(v) = n /\ \A j \in 1 .. n : v[j] = ValueLine(keys[j], d)
  <2>1. v \in [1 .. n -> AnyLines]
    BY <1>2, <1>3, <1>5
  <2> QED BY <1>1, <1>3, <2>1
<1>7. g \in Seq(AnyLines) /\ Len(g) = n + 1 /\ g[1] = SectionLine(s)
      /\ \A j \in 1 .. n : g[j + 1] = v[j]
  BY <1>1, <1>2, <1>4, <1>6
<1>8. ASSUME NEW i \in 2 .. Len(g) PROVE \E k \in K : g[i] = ValueLine(k, d)
  <2>1. i - 1 \in 1 .. n /\ (i - 1) + 1 = i
    BY <1>1, <1>7
  <2>2. g[i] = ValueLine(keys[i - 1], d) /\ keys[i - 1] \in K
    BY <1>5, <1>6, <1>7, <2>1
  <2> QED BY <2>2
<1>9. ASSUME NEW k \in K PROVE \E i \in 2 .. Len(g) : g[i] = ValueLine(k, d)
  <2>1. PICK j \in 1 .. n : keys[j] = k
    BY <1>1
  <2>2. j + 1 \in 2 .. Len(g) /\ g[j + 1] = ValueLine(k, d)
    BY <1>1, <1>6, <1>7, <2>1
  <2> QED BY <2>2
<1>10. Len(g) \in Nat /\ Len(g) >= 1
  BY <1>1, <1>7
<1> QED BY <1>7, <1>8, <1>9, <1>10 DEF g, K

\* One group more.
LEMMA DumpsMore ==
  ASSUME NEW d, WellFormed(d), NEW s \in LowNames, NEW f, NEW S, Dumps(f, d, S)
  PROVE  Dumps(f \o Group(d, s), d, S \cup {s})
<1> DEFINE g == Group(d, s)
           h == f \o g
           n == Len(f)
<1>1. /\ g \in Seq(AnyLines) /\ Len(g) \in Nat /\ Len(g) >= 1 /\ g[1] = SectionLine(s)
      /\ \A i \in 2 .. Len(g) : \E k \in Ini!KeysOf(d, s) : g[i] = ValueLine(k, d)
      /\ \A k \in Ini!KeysOf(d, s) : \E i \in 2 .. Len(g) : g[i] = ValueLine(k, d)
  BY GroupIs
<1>2. \A k \in Ini!KeysOf(d, s) : ValueLine(k, d).kind = "value"
  BY KeysAre, ValueLineIs
<1>3. f \in Seq(AnyLines) /\ n \in Nat
  BY DEF Dumps
<1> HIDE DEF g
<1>4. /\ h \in Seq(AnyLines) /\ Len(h) = n + Len(g)
      /\ \A i \in 1 .. n : h[i] = f[i]
      /\ \A i \in 1 .. Len(g) : h[n + i] = g[i]
  BY <1>1, <1>3
<1> HIDE DEF h, n
<1>5. ASSUME NEW i \in 1 .. n, NEW x, Owned(f, d, x, i) PROVE Owned(h, d, x, i)
  <2>1. PICK j \in 1 .. i : /\ f[j] = SectionLine(x)
                            /\ \A l \in j + 1 .. i : f[l].kind = "value"
                            /\ i = j \/ \E k \in Ini!KeysOf(d, x) : f[i] = ValueLine(k, d)
    BY <1>5, Zenon DEF Owned
  <2>2. j \in 1 .. n /\ \A l \in j + 1 .. i : l \in 1 .. n
    BY <1>3, <2>1
  <2>3. h[j] = f[j] /\ h[i] = f[i] /\ \A l \in j + 1 .. i : h[l] = f[l]
    BY <1>4, <2>2
  <2>4. \A l \in j + 1 .. i : h[l].kind = "value"
    BY <2>1, <2>3, Zenon
  <2> QED BY <2>1, <2>3, <2>4, Zenon DEF Owned
<1>6. ASSUME NEW m \in 1 .. Len(g) PROVE Owned(h, d, s, n + m)
  <2>1. n + 1 \in 1 .. n + m /\ h[n + 1] = SectionLine(s)
    BY <1>1, <1>3, <1>4
  <2>2. ASSUME NEW l \in n + 2 .. n + m PROVE \E k \in Ini!KeysOf(d, s) : h[l] = ValueLine(k, d)
    <3>1. l - n \in 2 .. Len(g) /\ n + (l - n) = l
      BY <1>1, <1>3
    <3>2. h[l] = g[l - n]
      BY <1>1, <1>4, <3>1
    <3> QED BY <1>1, <3>1, <3>2
  <2>3. \A l \in (n + 1) + 1 .. n + m : h[l].kind = "value"
    <3>1. ASSUME NEW l \in (n + 1) + 1 .. n + m PROVE h[l].kind = "value"
      <4>1. l \in n + 2 .. n + m
        BY <1>3
      <4>2. PICK k \in Ini!KeysOf(d, s) : h[l] = ValueLine(k, d)
        BY <2>2, <4>1, Zenon
      <4> QED BY <1>2, <4>2, Zenon
    <3> QED BY <3>1, Zenon
  <2>4. n + m = n + 1 \/ n + m \in n + 2 .. n + m
    BY <1>1, <1>3
  <2> QED BY <2>1, <2>2, <2>3, <2>4, Zenon DEF Owned
<1>7. \A i \in 1 .. Len(h) : i \in 1 .. n \/ (i - n \in 1 .. Len(g) /\ n + (i - n) = i)
  BY <1>1, <1>3, <1>4
<1>8. ASSUME NEW i \in 1 .. Len(h) PROVE \E x \in S \cup {s} : Owned(h, d, x, i)
  <2>1. CASE i \in 1 .. n
    <3>1. PICK x \in S : Owned(f, d, x, i)
      BY <2>1, Zenon DEF Dumps, n
    <3> QED BY <1>5, <2>1, <3>1
  <2>2. CASE i - n \in 1 .. Len(g) /\ n + (i - n) = i
    <3>1. Owned(h, d, s, n + (i - n))
      BY <1>6, <2>2, Zenon
    <3>2. Owned(h, d, s, i)
      BY <2>2, <3>1, Zenon
    <3> QED BY <3>2
  <2> QED BY <1>7, <2>1, <2>2
<1>9. \A i \in 1 .. n : i \in 1 .. Len(h)
  BY <1>1, <1>3, <1>4
<1>10. \A m \in 1 .. Len(g) : n + m \in 1 .. Len(h)
  BY <1>1, <1>3, <1>4
<1>11. ASSUME NEW x \in S \cup {s} PROVE \E i \in 1 .. Len(h) : h[i] = SectionLine(x)
  <2>1. CASE x \in S
    <3>1. PICK i \in 1 .. n : f[i] = SectionLine(x)
      BY <2>1, Zenon DEF Dumps, n
    <3> QED BY <1>4, <1>9, <3>1
  <2>2. CASE x = s
    <3>1. 1 \in 1 .. Len(g)
      BY <1>1
    <3>2. h[n + 1] = SectionLine(s) /\ n + 1 \in 1 .. Len(h)
      BY <1>1, <1>4, <1>10, <3>1
    <3> QED BY <2>2, <3>2
  <2> QED BY <2>1, <2>2
<1>12. ASSUME NEW x \in S \cup {s}, NEW k \in Ini!KeysOf(d, x)
       PROVE  \E i \in 1 .. Len(h) : h[i] = ValueLine(k, d) /\ Owned(h, d, x, i)
  <2>1. CASE x \in S
    <3>1. PICK i \in 1 .. n : f[i] = ValueLine(k, d) /\ Owned(f, d, x, i)
      BY <2>1, Zenon DEF Dumps, n
    <3>2. h[i] = f[i] /\ Owned(h, d, x, i) /\ i \in 1 .. Len(h)
      BY <1>4, <1>5, <1>9, <3>1
    <3> QED BY <3>1, <3>2
  <2>2. CASE x = s
    <3>1. PICK m \in 2 .. Len(g) : g[m] = ValueLine(k, d)
      BY <1>1, <2>2
    <3>2. m \in 1 .. Len(g)
      OBVIOUS
    <3>3. h[n + m] = ValueLine(k, d) /\ n + m \in 1 .. Len(h) /\ Owned(h, d, s, n + m)
      BY <1>4, <1>6, <1>10, <3>1, <3>2
    <3> QED BY <2>2, <3>3
  <2> QED BY <2>1, <2>2
<1>13. Dumps(h, d, S \cup {s})
  BY <1>4, <1>8, <1>11, <1>12, Zenon DEF Dumps
<1> QED BY <1>13 DEF h, g

LEMMA SectionsAre ==
  ASSUME NEW d, WellFormed(d)
  PROVE  /\ IsFiniteSet(Ini!Sections(d)) /\ Ini!Sections(d) \subseteq LowNames
         /\ \A s : s \in Ini!Sections(d) <=> <<s>> \in DOMAIN d
         /\ \A s \in Ini!Sections(d) : d[<<s>>] = <<>>
<1> DEFINE K == {k \in DOMAIN d : Len(k) = 1}
           S == Ini!Sections(d)
           g == [k \in K |-> k[1]]
<1>1. S = {k[1] : k \in K}
  BY Zenon DEF Ini!Sections, Ini!Keys
<1>2. IsFiniteSet(DOMAIN d) /\ K \in SUBSET (DOMAIN d)
  BY DEF WellFormed, IsDict
<1>3. \A k \in K : OfSection(k, d)
  <2>1. SUFFICES ASSUME NEW k \in K PROVE OfSection(k, d)
    OBVIOUS
  <2>2. OfSection(k, d) \/ OfValue(k, d)
    BY <1>2, <2>1, Zenon DEF WellFormed
  <2>3. ~OfValue(k, d)
    BY <2>1 DEF OfValue
  <2> QED BY <2>2, <2>3
<1>4. g \in Surjection(K, S)
  BY <1>1 DEF Surjection
<1>5. \A s : Len(<<s>>) = 1 /\ <<s>>[1] = s
  OBVIOUS
<1>6. ASSUME NEW s, <<s>> \in DOMAIN d PROVE s \in S
  <2>1. <<s>> \in K
    BY <1>5, <1>6
  <2> QED BY <1>1, <1>5, <2>1
<1> HIDE DEF K, g, S
<1>7. IsFiniteSet(S)
  BY <1>2, <1>4, FS_Subset, FS_Surjection
<1>8. ASSUME NEW s \in S PROVE s \in LowNames /\ <<s>> \in DOMAIN d /\ d[<<s>>] = <<>>
  <2>1. PICK k \in K : s = k[1]
    BY <1>1
  <2>2. k = <<s>> /\ s \in LowNames /\ d[k] = <<>>
    BY <1>3, <2>1 DEF OfSection
  <2> QED BY <1>2, <2>1, <2>2
<1> QED BY <1>6, <1>7, <1>8, Zenon DEF S

LEMMA DumpSections ==
  ASSUME NEW d, WellFormed(d), Ini!Sections(d) # {}
  PROVE  Dumps(Ini!Dump(d), d, Ini!Sections(d))
<1> DEFINE S == Ini!Sections(d)
           n == Cardinality(S)
           secs == Ini!SetToSeq(S)
           G == [i \in 1 .. n |-> Group(d, secs[i])]
           Upto(k) == {secs[i] : i \in 1 .. k}
           F(k) == Ext!FlattenSeq(SubSeq(G, 1, k))
           T == {k \in 0 .. n : Dumps(F(k), d, Upto(k))}
<1>1. /\ secs \in Seq(S) /\ Len(secs) = n /\ n \in Nat
      /\ \A x \in S : \E i \in 1 .. n : secs[i] = x
  BY SectionsAre, Enumerates
<1>2. Ini!Dump(d) = Ini!FlattenSeq(G)
  BY IniCardinality, Zenon DEF Ini!Dump, Group, ValueLines, SectionLine, ValueLine
<1>3. Ini!FlattenSeq(G) = Ext!FlattenSeq(G)
  BY Zenon DEF Ini!FlattenSeq, Ext!FlattenSeq
<1> HIDE DEF n, secs
<1>4. \A i \in 1 .. n : secs[i] \in S /\ secs[i] \in LowNames
  BY <1>1, SectionsAre
<1>5. G \in Seq(Seq(AnyLines)) /\ Len(G) = n /\ \A i \in 1 .. n : G[i] = Group(d, secs[i])
  <2>1. \A i \in 1 .. n : Group(d, secs[i]) \in Seq(AnyLines)
    BY <1>4, GroupIs
  <2>2. G \in [1 .. n -> Seq(AnyLines)]
    BY <2>1
  <2> QED BY <1>1, <2>2
<1> HIDE DEF G
<1>6. 0 \in T
  <2>1. SubSeq(G, 1, 0) = <<>> /\ 0 \in 0 .. n /\ Upto(0) = {}
    BY <1>1, <1>5
  <2>2. F(0) = <<>>
    BY <2>1, FlatNone, Zenon
  <2>3. Dumps(<<>>, d, {})
    BY DEF Dumps
  <2> QED BY <2>1, <2>2, <2>3, Zenon
<1>7. ASSUME NEW k \in 0 .. n - 1, k \in T PROVE k + 1 \in T
  <2>1. F(k + 1) = F(k) \o G[k + 1]
    BY <1>5, FlatRest
  <2>2. k + 1 \in 1 .. n /\ k + 1 \in 0 .. n
    BY <1>1
  <2>3. Upto(k + 1) = Upto(k) \cup {secs[k + 1]}
    <3>1. \A i : i \in 1 .. k + 1 <=> i \in 1 .. k \/ i = k + 1
      BY <1>1
    <3> QED BY <3>1
  <2>4. Dumps(F(k), d, Upto(k))
    BY <1>7
  <2> HIDE DEF F, Upto
  <2>5. Dumps(F(k) \o Group(d, secs[k + 1]), d, Upto(k) \cup {secs[k + 1]})
    BY <1>4, <2>2, <2>4, DumpsMore
  <2>6. Dumps(F(k + 1), d, Upto(k + 1))
    BY <1>5, <2>1, <2>2, <2>3, <2>5, Zenon
  <2> QED BY <2>2, <2>6
<1>8. n \in T
  <2> HIDE DEF T
  <2> QED BY <1>1, <1>6, <1>7, Upward
<1>9. SubSeq(G, 1, n) = G
  BY <1>5, SubSeqFull
<1>10. Upto(n) = S
  BY <1>1, <1>4
<1>11. Dumps(Ext!FlattenSeq(G), d, S)
  BY <1>8, <1>9, <1>10, Zenon
<1> QED BY <1>2, <1>3, <1>11, Zenon

\* The lines of a file that was saved are over, and give entries.
LEMMA DumpsPlain ==
  ASSUME NEW f, NEW d, NEW S \in SUBSET LowNames, WellFormed(d), Dumps(f, d, S)
  PROVE  Plain(f)
<1> SUFFICES ASSUME NEW i \in 1 .. Len(f) PROVE ~f[i].more /\ f[i].kind \in {"section", "value"}
  BY StartsAre, Zenon DEF Plain, Dumps
<1>1. PICK s \in S : Owned(f, d, s, i)
  BY Zenon DEF Dumps
<1>2. PICK j \in 1 .. i : /\ f[j] = SectionLine(s)
                          /\ i = j \/ \E k \in Ini!KeysOf(d, s) : f[i] = ValueLine(k, d)
  BY <1>1, Zenon DEF Owned
<1>3. CASE i = j
  BY <1>2, <1>3, SectionLineIs
<1>4. CASE \E k \in Ini!KeysOf(d, s) : f[i] = ValueLine(k, d)
  BY <1>4, KeysAre, ValueLineIs
<1> QED BY <1>2, <1>3, <1>4

LEMMA DumpIs ==
  ASSUME NEW d, WellFormed(d) PROVE Ini!Dump(d) \in Seq(AnyLines) /\ Plain(Ini!Dump(d))
<1>1. CASE Ini!Sections(d) # {}
  <2>1. Dumps(Ini!Dump(d), d, Ini!Sections(d)) /\ Ini!Sections(d) \in SUBSET LowNames
    BY <1>1, DumpSections, SectionsAre
  <2>2. Plain(Ini!Dump(d))
    BY <2>1, DumpsPlain
  <2> QED BY <2>1, <2>2, Zenon DEF Dumps
<1>2. CASE Ini!Sections(d) = {}
  <2> DEFINE K == DOMAIN d
             n == Cardinality(K)
             keys == Ini!SetToSeq(K)
             Item(i) == Ini!Printed("value", IniColon[keys[i][2]], d[keys[i]])
             f == [i \in 1 .. n |-> Item(i)]
  <2>1. keys \in Seq(K) /\ Len(keys) = n /\ n \in Nat
    BY Enumerates DEF WellFormed, IsDict
  <2>2. Ini!Dump(d) = f
    BY <1>2, IniCardinality, Zenon DEF Ini!Dump, Ini!Keys
  <2> HIDE DEF K, n, keys
  <2>3. ASSUME NEW i \in 1 .. n PROVE Item(i) \in AnyLines /\ Item(i).kind = "value" /\ ~Item(i).more
    <3>1. keys[i] \in DOMAIN d
      BY <2>1 DEF K
    <3>2. OfSection(keys[i], d) \/ OfValue(keys[i], d)
      BY <3>1, Zenon DEF WellFormed
    <3>3. ~OfSection(keys[i], d)
      <4>1. SUFFICES ASSUME OfSection(keys[i], d) PROVE FALSE
        OBVIOUS
      <4>2. <<keys[i][1]>> \in DOMAIN d
        BY <3>1, <4>1 DEF OfSection
      <4> QED BY <1>2, <4>2, SectionsAre
    <3>4. keys[i][2] \in IniNames /\ d[keys[i]] \in Seq(IniWords)
      BY <3>2, <3>3 DEF OfValue, LowNames
    <3>5. IniColon[keys[i][2]] \in IniNames \cup ColonNames /\ "value" \in {"section", "value"}
      BY <3>4, IniAssumption
    <3>6. IsLine(Item(i), "value", IniColon[keys[i][2]], d[keys[i]])
      BY <3>4, <3>5, LineIs
    <3> QED BY <3>6, Zenon DEF IsLine
  <2> HIDE DEF Item
  <2>4. f \in Seq(AnyLines) /\ DOMAIN f = 1 .. n /\ \A i \in 1 .. n : f[i] = Item(i)
    BY <2>1, <2>3
  <2> HIDE DEF f
  <2>5. Plain(f)
    <3>1. "value" \in {"section", "value"}
      OBVIOUS
    <3> QED BY <2>3, <2>4, <3>1, Zenon DEF Plain
  <2> QED BY <2>2, <2>4, <2>5, Zenon
<1> QED BY <1>1, <1>2

LEMMA PlainStarts ==
  ASSUME NEW f \in Seq(AnyLines), Plain(f), NEW i \in 1 .. Len(f)
  PROVE  i \in Ini!Starts(f) /\ i \in Ini!Complete(f, i) /\ Ini!Min(Ini!Complete(f, i)) = i
<1>1. Len(f) \in Nat /\ \A j \in 1 .. Len(f) : ~f[j].more
  BY StartsAre DEF Plain
<1>2. i - 1 = 0 \/ i - 1 \in 1 .. Len(f)
  BY <1>1
<1>3. i - 1 \in Nat /\ (i - 1) + 1 = i
  BY <1>1
<1>4. LineBegins(f, (i - 1) + 1)
  BY <1>1, <1>2, <1>3, BeginsAfter
<1>5. i \in Ini!Starts(f)
  BY <1>3, <1>4, StartsAre
<1>6. /\ i \in Ini!Complete(f, i) /\ Ini!Complete(f, i) \in SUBSET Int
      /\ \A j \in Ini!Complete(f, i) : i <= j
  BY <1>1 DEF Ini!Complete
<1> QED BY <1>5, <1>6, MinIs

LEMMA SubSeqOne ==
  ASSUME NEW S, NEW q \in Seq(S), NEW i \in 1 .. Len(q)
  PROVE  SubSeq(q, i, i) = <<q[i]>>
<1>1. Len(q) \in Nat /\ i \in Nat /\ i <= Len(q) /\ q[i] \in S
  OBVIOUS
<1>2. SubSeq(q, i, i) \in Seq(S) /\ Len(SubSeq(q, i, i)) = 1 /\ SubSeq(q, i, i)[1] = q[i]
  BY <1>1
<1>3. <<q[i]>> \in Seq(S) /\ Len(<<q[i]>>) = 1 /\ <<q[i]>>[1] = q[i]
  BY <1>1
<1>4. \A j \in 1 .. Len(SubSeq(q, i, i)) : SubSeq(q, i, i)[j] = <<q[i]>>[j]
  BY <1>2, <1>3
<1> QED BY <1>2, <1>3, <1>4, SeqEqual

LEMMA TextOne == ASSUME NEW l \in AnyLines PROVE Ini!Text(<<l>>) = l.text
<1> DEFINE L == <<l>>
           C == {i \in 2 .. Len(L) : L[i].kind = "comment"}
           x == [i \in 1 .. Len(L) |-> L[i].text]
<1>1. Len(L) = 1 /\ L[1] = l
  OBVIOUS
<1>2. C = {}
  BY <1>1
<1>3. Ini!Text(L) = Ini!FlattenSeq(x)
  BY <1>2, Zenon DEF Ini!Text
<1>4. x = <<l.text>>
  BY <1>1
<1>5. l.text \in Seq(IniWords)
  BY DEF AnyLines
<1>6. \A y : Ini!FlattenSeq(y) = Ext!FlattenSeq(y)
  BY Zenon DEF Ini!FlattenSeq, Ext!FlattenSeq
<1>7. Ext!FlattenSeq(<<l.text>>) = l.text
  BY <1>5, FlatOne
<1> HIDE DEF x
<1> QED BY <1>3, <1>4, <1>6, <1>7, Zenon

\* A line of a saved file says what was saved.
LEMMA LineSays ==
  ASSUME NEW d, WellFormed(d), NEW f, Dumps(f, d, Ini!Sections(d)),
         NEW i \in 1 .. Len(f), NEW s \in Ini!Sections(d), Owned(f, d, s, i)
  PROVE  /\ f[i].kind = "section" => Ini!KeyAt(f, i) = <<f[i].name>>
         /\ f[i].kind = "value" => Ini!KeyAt(f, i) = <<s, f[i].name>>
         /\ Ini!KeyAt(f, i) \in DOMAIN d
         /\ Ini!ValueAt(f, i) = d[Ini!KeyAt(f, i)]
<1>1. /\ f \in Seq(AnyLines) /\ Plain(f) /\ DOMAIN f = 1 .. Len(f) /\ Len(f) \in Nat
      /\ s \in LowNames /\ <<s>> \in DOMAIN d /\ d[<<s>>] = <<>>
  <2>1. f \in Seq(AnyLines)
    BY Zenon DEF Dumps
  <2>2. Plain(f)
    BY SectionsAre, DumpsPlain
  <2> QED BY <2>1, <2>2, SectionsAre, StartsAre
<1>2. PICK j \in 1 .. i : /\ f[j] = SectionLine(s)
                          /\ \A l \in j + 1 .. i : f[l].kind = "value"
                          /\ i = j \/ \E k \in Ini!KeysOf(d, s) : f[i] = ValueLine(k, d)
  BY Zenon DEF Owned
<1>3. SectionLine(s).kind = "section" /\ SectionLine(s).name = s /\ IniLower[s] = s
      /\ "value" # "section"
  BY <1>1, SectionLineIs DEF LowNames
<1>4. CASE i = j
  <2>1. f[i].kind = "section" /\ f[i].name = s
    BY <1>2, <1>3, <1>4
  <2>2. Ini!KeyAt(f, i) = <<s>>
    BY <1>3, <2>1, Zenon DEF Ini!KeyAt, Ini!SectionKey
  <2>3. Ini!ValueAt(f, i) = <<>>
    BY <2>1, Zenon DEF Ini!ValueAt
  <2> QED BY <1>1, <1>3, <2>1, <2>2, <2>3, Zenon
<1>5. CASE i # j
  <2>1. PICK k \in Ini!KeysOf(d, s) : f[i] = ValueLine(k, d)
    BY <1>2, <1>5
  <2>2. k \in DOMAIN d /\ OfValue(k, d) /\ k[1] = s
    BY KeysAre
  <2>3. f[i] \in AnyLines /\ f[i].kind = "value" /\ f[i].name = k[2] /\ f[i].text = d[k]
    BY <2>1, <2>2, ValueLineIs
  <2>4. k = <<s, k[2]>> /\ IniLower[k[2]] = k[2]
    BY <2>2 DEF OfValue, LowNames
  <2>5. Ini!SectionAt(f, i) = s
    <3>1. j < i /\ j \in 1 .. Len(f)
      BY <1>1, <1>5
    <3>2. j \in Before(f, i)
      BY <1>1, <1>2, <1>3, <3>1, PlainStarts DEF Before
    <3>3. ASSUME NEW l \in Before(f, i) PROVE l <= j /\ l \in Int
      <4>1. l \in 1 .. Len(f) /\ l < i /\ f[l].kind = "section"
        BY <1>1, StartsAre DEF Before
      <4>2. l \notin j + 1 .. i
        BY <1>2, <1>3, <4>1
      <4> QED BY <1>1, <3>1, <4>1, <4>2
    <3>4. (CHOOSE l \in Before(f, i) : \A m \in Before(f, i) : m <= l) = j
      <4>1. Before(f, i) \in SUBSET Int
        BY <3>3
      <4> QED BY <3>2, <3>3, <4>1, LastIs
    <3>5. Before(f, i) # {}
      BY <3>2
    <3>6. Ini!SectionAt(f, i) = IniLower[f[j].name]
      BY <3>4, <3>5, Zenon DEF Ini!SectionAt, Before
    <3> QED BY <1>2, <1>3, <3>6
  <2>6. Ini!KeyAt(f, i) = <<s, k[2]>>
    BY <1>3, <2>3, <2>4, <2>5, Zenon DEF Ini!KeyAt, Ini!ValueKey
  <2>7. Ini!ValueAt(f, i) = d[k]
    <3>1. Ini!Min(Ini!Complete(f, i)) = i
      BY <1>1, PlainStarts
    <3>2. SubSeq(f, i, i) = <<f[i]>>
      BY <1>1, SubSeqOne
    <3>3. Ini!ValueAt(f, i) = Ini!Text(<<f[i]>>)
      BY <1>3, <2>3, <3>1, <3>2, Zenon DEF Ini!ValueAt
    <3> QED BY <2>3, <3>3, TextOne
  <2> QED BY <1>3, <2>2, <2>3, <2>4, <2>6, <2>7, Zenon
<1> QED BY <1>4, <1>5

\* A dictionary whose keys belong to sections is what its file says.
LEMMA DumpSays ==
  ASSUME NEW d, WellFormed(d), d # Ini!NoDict, \A k \in DOMAIN d : k[1] # IniTop
  PROVE  LET f == Ini!Dump(d) IN
         /\ Ini!AllKeys(f) = DOMAIN d
         /\ \A i \in 1 .. Len(f) : Ini!ValueAt(f, i) = d[Ini!KeyAt(f, i)]
<1> DEFINE f == Ini!Dump(d)
           S == Ini!Sections(d)
<1>1. \A k \in DOMAIN d : (OfSection(k, d) /\ k = <<k[1]>> /\ k[1] \in S)
                          \/ (OfValue(k, d) /\ k[1] \in S /\ k \in Ini!KeysOf(d, k[1]))
  <2>1. SUFFICES ASSUME NEW k \in DOMAIN d
                 PROVE  (OfSection(k, d) /\ k = <<k[1]>> /\ k[1] \in S)
                        \/ (OfValue(k, d) /\ k[1] \in S /\ k \in Ini!KeysOf(d, k[1]))
    OBVIOUS
  <2>2. OfSection(k, d) \/ OfValue(k, d)
    BY Zenon DEF WellFormed
  <2>3. CASE OfSection(k, d)
    <3>1. k = <<k[1]>>
      BY <2>3, Zenon DEF OfSection
    <3>2. <<k[1]>> \in DOMAIN d
      BY <3>1
    <3>3. k[1] \in S
      BY <3>2, SectionsAre, Zenon
    <3> QED BY <2>3, <3>1, <3>3
  <2>4. CASE OfValue(k, d)
    <3>1. <<k[1]>> \in DOMAIN d /\ Len(k) = 2
      BY <2>4, Zenon DEF OfValue
    <3>2. k[1] \in S
      BY <3>1, SectionsAre, Zenon
    <3>3. k \in Ini!KeysOf(d, k[1])
      BY <3>1 DEF Ini!KeysOf, Ini!Keys
    <3> QED BY <2>4, <3>2, <3>3
  <2> QED BY <2>2, <2>3, <2>4
<1>2. S # {}
  <2>1. SUFFICES ASSUME DOMAIN d = {} PROVE FALSE
    BY <1>1
  <2>2. d = [k \in {} |-> d[k]]
    BY <2>1, Zenon DEF WellFormed, IsDict
  <2> QED BY <2>2 DEF Ini!NoDict
<1>3. Dumps(f, d, S) /\ f \in Seq(AnyLines) /\ Plain(f)
  BY <1>2, DumpSections, DumpIs
<1>4. DOMAIN f = 1 .. Len(f) /\ \A i \in 1 .. Len(f) : f[i].kind \in {"section", "value"}
  BY <1>3, StartsAre DEF Plain
<1> HIDE DEF f, S
<1>5. ASSUME NEW i \in 1 .. Len(f)
      PROVE  /\ Ini!ValueAt(f, i) = d[Ini!KeyAt(f, i)] /\ Ini!KeyAt(f, i) \in DOMAIN d
             /\ Ini!KeyAt(f, i) \in Ini!AllKeys(f)
  <2>1. PICK s \in S : Owned(f, d, s, i)
    BY <1>3, Zenon DEF Dumps
  <2>2. Ini!ValueAt(f, i) = d[Ini!KeyAt(f, i)] /\ Ini!KeyAt(f, i) \in DOMAIN d
    BY <1>3, <2>1, LineSays DEF S
  <2>3. i \in Ini!Says(f, Ini!KeyAt(f, i))
    BY <1>3, <1>4, PlainStarts DEF Ini!Says
  <2>4. Ini!KeyAt(f, i) \in Ini!AllKeys(f)
    BY <1>4, <2>3, Zenon DEF Ini!AllKeys
  <2> QED BY <2>2, <2>4
<1>6. ASSUME NEW k \in DOMAIN d PROVE \E i \in 1 .. Len(f) : Ini!KeyAt(f, i) = k
  <2>1. CASE OfSection(k, d) /\ k = <<k[1]>> /\ k[1] \in S
    <3>1. PICK i \in 1 .. Len(f) : f[i] = SectionLine(k[1])
      BY <1>3, <2>1, Zenon DEF Dumps
    <3>2. PICK s \in S : Owned(f, d, s, i)
      BY <1>3, Zenon DEF Dumps
    <3>3. f[i].kind = "section" /\ f[i].name = k[1]
      BY <2>1, <3>1, SectionLineIs DEF OfSection
    <3>4. Ini!KeyAt(f, i) = <<f[i].name>>
      BY <1>3, <3>2, <3>3, LineSays DEF S
    <3> QED BY <2>1, <3>3, <3>4, Zenon
  <2>2. CASE OfValue(k, d) /\ k[1] \in S /\ k \in Ini!KeysOf(d, k[1])
    <3>1. PICK i \in 1 .. Len(f) : f[i] = ValueLine(k, d) /\ Owned(f, d, k[1], i)
      BY <1>3, <2>2, Zenon DEF Dumps
    <3>2. f[i].kind = "value" /\ f[i].name = k[2]
      BY <2>2, <3>1, ValueLineIs
    <3>3. Ini!KeyAt(f, i) = <<k[1], f[i].name>>
      BY <1>3, <2>2, <3>1, <3>2, LineSays DEF S
    <3>4. k = <<k[1], k[2]>>
      BY <2>2, Zenon DEF OfValue
    <3> QED BY <3>2, <3>3, <3>4, Zenon
  <2> QED BY <1>1, <2>1, <2>2
<1>7. ASSUME NEW k \in Ini!AllKeys(f) PROVE k \in DOMAIN d
  <2>1. PICK i \in DOMAIN f : k = Ini!KeyAt(f, i)
    BY <1>7, Zenon DEF Ini!AllKeys
  <2> QED BY <1>4, <1>5, <2>1
<1>8. ASSUME NEW k \in DOMAIN d PROVE k \in Ini!AllKeys(f)
  BY <1>5, <1>6
<1>9. Ini!AllKeys(f) = DOMAIN d
  BY <1>7, <1>8
<1> QED BY <1>5, <1>9 DEF f

LEMMA SaveKeeps == ASSUME IniInv, Ini!Save PROVE IniInv'
<1>1. /\ iniPhase = "loaded" /\ saved = Ini!NoDict /\ dict # Ini!NoDict /\ saved' = dict
      /\ file' = Ini!Dump(dict) /\ unread' = Ini!Dump(dict) /\ joined' = <<>>
      /\ section' = IniTop /\ dict' = Ini!NoDict /\ errs' = 0 /\ mem' = IniMemory
      /\ iniPhase' = "reading"
  BY Zenon DEF Ini!Save, Ini!Reading
<1>2. "loaded" # "refused" /\ "reading" # "loaded" /\ "reading" # "refused"
      /\ "reading" \in {"reading", "loaded", "refused"}
  OBVIOUS
<1>3. WellFormed(dict) /\ Counted(dict, mem)
  BY <1>1, <1>2, Zenon DEF IniInv, Named
<1>4. Ini!Dump(dict) \in Seq(AnyLines) /\ Plain(Ini!Dump(dict))
  BY <1>3, DumpIs
<1>5. Cardinality(DOMAIN dict) <= IniMemory
  <2>1. mem \in Nat /\ Cardinality(DOMAIN dict) \in Nat /\ mem + Cardinality(DOMAIN dict) = IniMemory
    BY <1>3, FS_CardinalityType DEF Counted, IsDict
  <2> QED BY <2>1
<1>6. SavedAs(saved', file')
  BY <1>1, <1>3, <1>4, <1>5, Zenon DEF SavedAs
<1>7. /\ Counted(dict', mem') /\ ReadSoFar(file', joined', unread', section', dict', errs')
      /\ errs' \in Nat
  BY <1>1, <1>4, ReadsFirst
<1> QED BY <1>1, <1>2, <1>4, <1>6, <1>7, Zenon DEF IniInv

LEMMA IniSteps == IniInv /\ [Ini!Next]_(Ini!vars) => IniInv'
<1> SUFFICES ASSUME IniInv, [Ini!Next]_(Ini!vars) PROVE IniInv'
  OBVIOUS
<1>1. CASE UNCHANGED Ini!vars
  <2>1. /\ file' = file /\ unread' = unread /\ joined' = joined /\ section' = section
        /\ dict' = dict /\ errs' = errs /\ mem' = mem /\ iniPhase' = iniPhase /\ saved' = saved
    BY <1>1 DEF Ini!vars
  <2> QED BY <2>1, Zenon DEF IniInv
<1> QED BY <1>1, JoinKeeps, TooLongKeeps, TakeKeeps, FinishKeeps, SaveKeeps, Zenon DEF Ini!Next

LEMMA IniDelivers == IniInv => IniFilesSurvive
<1> SUFFICES ASSUME IniInv PROVE IniFilesSurvive
  OBVIOUS
<1>1. ASSUME iniPhase = "loaded"
      PROVE  /\ file \in Seq(AnyLines) /\ IsDict(dict)
             /\ Full(file) \/ (AllSaid(file, dict) /\ \E p : Holds(file, p, dict))
  <2>1. /\ file \in Seq(AnyLines) /\ Counted(dict, mem) /\ unread = <<>> /\ errs = 0
        /\ ReadSoFar(file, joined, unread, section, dict, errs)
    <3>1. "loaded" # "refused"
      OBVIOUS
    <3> QED BY <1>1, <3>1, Zenon DEF IniInv
  <2>2. ASSUME NEW p \in 0 .. Len(file), Reads(file, p, joined, unread, section, dict, errs)
        PROVE  AllSaid(file, dict) /\ Holds(file, p, dict)
    <3>1. Reads(file, p, joined, <<>>, section, dict, 0)
      BY <2>1, <2>2
    <3> QED BY <2>1, <3>1, AllRead, Zenon DEF Reads
  <2> QED BY <2>1, <2>2, Zenon DEF ReadSoFar, Counted
<1>2. Ini!LoadsWhatTheFileSays
  <2>1. SUFFICES ASSUME iniPhase = "loaded", Cardinality(Ini!AllKeys(file)) <= IniMemory
                 PROVE  AllSaid(file, dict)
    BY IniCardinality, Zenon DEF Ini!LoadsWhatTheFileSays, AllSaid, Ini!Keys
  <2>2. ~Full(file)
    <3>1. Cardinality(Ini!AllKeys(file)) \in Nat /\ IniMemory \in Nat
      BY <1>1, <2>1, AllKeysFinite, FS_CardinalityType, IniAssumption
    <3> QED BY <2>1, <3>1 DEF Full
  <2> QED BY <1>1, <2>1, <2>2
<1>3. Ini!SavedIsLoadable
  <2>1. SUFFICES ASSUME saved # Ini!NoDict
                 PROVE  /\ iniPhase # "refused"
                        /\ iniPhase = "loaded" /\ (\A k \in DOMAIN saved : k[1] # IniTop) => dict = saved
    BY Zenon DEF Ini!SavedIsLoadable, Ini!Keys
  <2>2. SavedAs(saved, file) /\ iniPhase # "refused"
    BY <2>1, Zenon DEF IniInv
  <2>3. ASSUME iniPhase = "loaded", \A k \in DOMAIN saved : k[1] # IniTop PROVE dict = saved
    <3>1. WellFormed(saved) /\ Cardinality(DOMAIN saved) <= IniMemory /\ file = Ini!Dump(saved)
      BY <2>2, Zenon DEF SavedAs
    <3>2. /\ Ini!AllKeys(file) = DOMAIN saved
          /\ \A i \in 1 .. Len(file) : Ini!ValueAt(file, i) = saved[Ini!KeyAt(file, i)]
      BY <2>1, <2>3, <3>1, DumpSays
    <3>3. ~Full(file)
      <4>1. Cardinality(DOMAIN saved) \in Nat /\ IniMemory \in Nat
        BY <3>1, FS_CardinalityType, IniAssumption DEF WellFormed, IsDict
      <4> QED BY <3>1, <3>2, <4>1 DEF Full
    <3>4. AllSaid(file, dict) /\ IsDict(dict) /\ IsDict(saved)
      BY <1>1, <2>3, <3>1, <3>3, Zenon DEF WellFormed
    <3>5. PICK p : Holds(file, p, dict)
      BY <1>1, <2>3, <3>3
    <3>6. DOMAIN dict = DOMAIN saved
      BY <3>2, <3>4, Zenon DEF AllSaid
    <3>7. ASSUME NEW k \in DOMAIN dict PROVE dict[k] = saved[k]
      <4>1. PICK i \in Giving(file, p) : LastOf(file, p, k, i) /\ dict[k] = Ini!ValueAt(file, i)
        BY <3>5, <3>7, Zenon DEF Holds
      <4>2. Ini!KeyAt(file, i) = k
        BY <4>1, Zenon DEF LastOf
      <4>3. i \in 1 .. Len(file)
        BY <1>1, <2>3, StartsAre DEF Giving
      <4> QED BY <3>2, <4>1, <4>2, <4>3, Zenon
    <3>8. dict = [k \in DOMAIN dict |-> dict[k]] /\ saved = [k \in DOMAIN saved |-> saved[k]]
      BY <3>4, Zenon DEF IsDict
    <3> QED BY <3>6, <3>7, <3>8
  <2> QED BY <2>2, <2>3
<1> QED BY <1>2, <1>3, Zenon DEF IniFilesSurvive

\* Whatever a file says, with lines that go on, junk and entries said twice:
\* iniparser_load either refuses it or holds, if the memory suffices, the last that
\* the file says of every key; and what iniparser_dump_ini makes of a dictionary is
\* read as the same dictionary, if every entry belongs to a section.
THEOREM IniFilesRoundTrip == Ini!Spec => []IniFilesSurvive
<1>1. Ini!Spec => []IniInv
  BY IniStarts, IniSteps, PTL DEF Ini!Spec
<1> QED BY <1>1, IniDelivers, PTL
=============================================================================
