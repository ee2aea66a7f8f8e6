---------------------------- MODULE ReportProofs ----------------------------
(***************************************************************************)
(* What is written and reported in Services: the logger gives each output  *)
(* what is due from it, and a suite reports what ran; for any number of    *)
(* streams, threads, tests and suites.                                     *)
(***************************************************************************)
EXTENDS Services, FlatSequences, FiniteSetTheorems

-----------------------------------------------------------------------------
(***************************************************************************)
(* Logger.  What an output got is what is due from it: while a walk has    *)
(* not come to it, all but the line of the walk.                           *)
(***************************************************************************)

\* The texts that a peer reads.
Texts(s) == [i \in 1 .. Len(s) \div 2 |-> s[2 * i]]

\* Each text behind its size.
Alternates(s) == \A i \in 1 .. Len(s) : (s[i] = 0) <=> (i % 2 = 1)

LEMMA TextsGrow ==
  ASSUME NEW s \in Seq(Nat), Len(s) % 2 = 0, Alternates(s), NEW l \in Nat, l # 0
  PROVE  LET r == s \o << 0, l >>
         IN /\ r \in Seq(Nat) /\ Len(r) % 2 = 0 /\ Alternates(r)
            /\ Texts(r) = Append(Texts(s), l)
  <1> DEFINE r == s \o << 0, l >>
             k == Len(s) \div 2
  <1>1. k \in Nat /\ Len(s) = 2 * k /\ Len(s) \in Nat
    OBVIOUS
  <1>2. << 0, l >> \in Seq(Nat) /\ Len(<< 0, l >>) = 2
    OBVIOUS
  <1>3. /\ r \in Seq(Nat) /\ Len(r) = Len(s) + 2
        /\ \A i \in 1 .. Len(s) : r[i] = s[i]
        /\ r[Len(s) + 1] = 0 /\ r[Len(s) + 2] = l
    BY <1>1, <1>2
  <1>4. Len(r) % 2 = 0 /\ Len(r) \div 2 = k + 1
    BY <1>1, <1>3
  <1> HIDE DEF r
  <1>5. Alternates(r)
    <2> SUFFICES ASSUME NEW i \in 1 .. Len(s) + 2 PROVE (r[i] = 0) <=> (i % 2 = 1)
      BY <1>3 DEF Alternates
    <2>1. CASE i \in 1 .. Len(s)
      <3>1. r[i] = s[i]
        BY <1>3, <2>1
      <3>2. (s[i] = 0) <=> (i % 2 = 1)
        BY <2>1 DEF Alternates
      <3> QED
        BY <3>1, <3>2
    <2>2. CASE i = Len(s) + 1
      <3>1. i % 2 = 1
        BY <1>1, <2>2
      <3> QED
        BY <1>3, <2>2, <3>1
    <2>3. CASE i = Len(s) + 2
      <3>1. i % 2 = 0
        BY <1>1, <2>3
      <3> QED
        BY <1>3, <2>3, <3>1
    <2> QED
      BY <1>1, <2>1, <2>2, <2>3
  <1>6. Texts(r) = Append(Texts(s), l)
    <2>1. Texts(s) \in Seq(Nat) /\ Len(Texts(s)) = k
          /\ \A i \in 1 .. k : Texts(s)[i] = s[2 * i]
      BY <1>1 DEF Texts
    <2>2. Texts(r) \in Seq(Nat) /\ Len(Texts(r)) = k + 1
          /\ \A i \in 1 .. k + 1 : Texts(r)[i] = r[2 * i]
      <3>1. \A i \in 1 .. k + 1 : 2 * i \in 1 .. Len(r)
        BY <1>1, <1>3
      <3>2. \A i \in 1 .. k + 1 : r[2 * i] \in Nat
        BY <1>3, <3>1
      <3>3. Texts(r) = [i \in 1 .. k + 1 |-> r[2 * i]]
        BY <1>4 DEF Texts
      <3> QED
        BY <1>1, <3>2, <3>3
    <2>3. ASSUME NEW i \in 1 .. k PROVE Texts(r)[i] = Texts(s)[i]
      <3>1. 2 * i \in 1 .. Len(s) /\ i \in 1 .. k + 1
        BY <1>1
      <3> QED
        BY <1>3, <2>1, <2>2, <3>1
    <2>4. Texts(r)[k + 1] = l
      <3>1. k + 1 \in 1 .. k + 1 /\ 2 * (k + 1) = Len(s) + 2
        BY <1>1
      <3> QED
        BY <1>3, <2>2, <3>1
    <2>5. Append(Texts(s), l) \in Seq(Nat) /\ Len(Append(Texts(s), l)) = k + 1
          /\ (\A i \in 1 .. k : Append(Texts(s), l)[i] = Texts(s)[i])
          /\ Append(Texts(s), l)[k + 1] = l
      <3> DEFINE t == Texts(s)
      <3>1. t \in Seq(Nat) /\ Len(t) = k
        BY <2>1
      <3> HIDE DEF t
      <3>2. /\ Append(t, l) \in Seq(Nat) /\ Len(Append(t, l)) = k + 1
            /\ \A i \in 1 .. k : Append(t, l)[i] = t[i]
            /\ Append(t, l)[k + 1] = l
        BY <1>1, <3>1
      <3> QED
        BY <3>2 DEF t
    <2>6. \A i \in 1 .. k + 1 : Texts(r)[i] = Append(Texts(s), l)[i]
      BY <1>1, <2>3, <2>4, <2>5
    <2> QED
      BY <2>2, <2>5, <2>6, SeqEqual
  <1> QED
    BY <1>3, <1>4, <1>5, <1>6 DEF r

\* A size alone hands on nothing.
LEMMA TextsKept ==
  ASSUME NEW s \in Seq(Nat), Len(s) % 2 = 0, Alternates(s)
  PROVE  /\ Append(s, 0) \in Seq(Nat) /\ Alternates(Append(s, 0))
         /\ Texts(Append(s, 0)) = Texts(s)
  <1> DEFINE r == Append(s, 0)
             k == Len(s) \div 2
  <1>1. k \in Nat /\ Len(s) = 2 * k /\ Len(s) \in Nat
    OBVIOUS
  <1>2. /\ r \in Seq(Nat) /\ Len(r) = Len(s) + 1
        /\ \A i \in 1 .. Len(s) : r[i] = s[i]
        /\ r[Len(s) + 1] = 0
    BY <1>1
  <1>3. Len(r) \div 2 = k
    BY <1>1, <1>2
  <1> HIDE DEF r
  <1>4. Alternates(r)
    <2> SUFFICES ASSUME NEW i \in 1 .. Len(s) + 1 PROVE (r[i] = 0) <=> (i % 2 = 1)
      BY <1>2 DEF Alternates
    <2>1. CASE i \in 1 .. Len(s)
      BY <1>2, <2>1 DEF Alternates
    <2>2. CASE i = Len(s) + 1
      BY <1>1, <1>2, <2>2
    <2> QED
      BY <1>1, <2>1, <2>2
  <1>5. \A i \in 1 .. k : r[2 * i] = s[2 * i]
    BY <1>1, <1>2
  <1>6. Texts(r) = Texts(s)
    BY <1>3, <1>5 DEF Texts
  <1> QED
    BY <1>2, <1>4, <1>6 DEF r

\* A walk has not come to the output.
Waits(o) == holder # NoThread /\ \E i \in DOMAIN outs : i >= at /\ outs[i] = o

GoodOut(o) ==
    /\ due[o] \in Seq(Nat) /\ received[o] \in Seq(Nat)
    /\ o \in Tcps => Alternates(received[o])
    /\ o \in Log!ToSet(outs) =>
         Log!Lines(o) = Log!Due(o) /\ (o \in Tcps => Len(received[o]) % 2 = 0)
    /\ Log!IsPrefix(Log!Lines(o), Log!Due(o))
    /\ o \in fresh => due[o] = << >> /\ received[o] = << >>
    /\ Waits(o) => due[o] # << >> /\ due[o][Len(due[o])] = line[holder]

LogTypes ==
    /\ outs \in Seq(Log!Outs) /\ fresh \subseteq Log!Outs
    /\ \A p, q \in 1 .. Len(outs) : p < q => outs[p] # outs[q]
    /\ \A p \in 1 .. Len(outs) : outs[p] \notin fresh
    /\ due \in [Log!Outs -> Seq(Nat)] /\ received \in [Log!Outs -> Seq(Nat)]
    /\ line \in [LogThreads -> Nat] /\ logged \in Nat /\ at \in Nat
    /\ holder # NoThread => holder \in LogThreads /\ line[holder] # 0
                            /\ at \in 1 .. Len(outs) + 1

LogInv ==
    /\ LogTypes
    /\ open \subseteq Log!ToSet(outs)
    /\ \A o \in Log!Outs : GoodOut(o)

\* What an output got is what is due from it, the line of the walk aside.
LEMMA LogInit == Log!Init => LogInv
  <1> SUFFICES ASSUME Log!Init PROVE LogInv
    OBVIOUS
  <1>1. /\ fresh = Log!Outs /\ outs = << >> /\ open = {} /\ holder = NoThread /\ at = 0
        /\ line = [t \in LogThreads |-> 0] /\ logged = 0
        /\ due = [o \in Log!Outs |-> << >>] /\ received = [o \in Log!Outs |-> << >>]
    BY DEF Log!Init
  <1>2. LogTypes
    BY <1>1 DEF LogTypes
  <1>3. ASSUME NEW o \in Log!Outs PROVE GoodOut(o)
    <2>1. due[o] = << >> /\ received[o] = << >>
      BY <1>1
    <2>2. o \notin Log!ToSet(outs) /\ ~ Waits(o)
      BY <1>1 DEF Log!ToSet, Waits
    <2>3. Log!Lines(o) = << >> /\ Log!Due(o) = << >>
      <3>1. Len(received[o]) \div 2 = 0 /\ 1 .. 0 = {}
        BY <2>1
      <3>2. o \in Tcps => Log!Lines(o) = << >>
        BY <2>1, <3>1 DEF Log!Lines
      <3> QED
        BY <1>1, <2>1, <3>2 DEF Log!Lines, Log!Due
    <2>4. Alternates(<< >>)
      BY DEF Alternates
    <2>5. Log!IsPrefix(<< >>, << >>)
      BY DEF Log!IsPrefix
    <2> QED
      BY <2>1, <2>2, <2>3, <2>4, <2>5 DEF GoodOut
  <1> QED
    BY <1>1, <1>2, <1>3 DEF LogInv

LEMMA DueIs ==
  ASSUME NEW o
  PROVE  /\ Waits(o) => Log!Due(o) = Log!Front(due[o])
         /\ ~ Waits(o) => Log!Due(o) = due[o]
         /\ Waits(o)' => Log!Due(o)' = Log!Front(due'[o])
         /\ ~ Waits(o)' => Log!Due(o)' = due'[o]
  BY DEF Log!Due, Waits

LEMMA LinesAre ==
  ASSUME NEW o
  PROVE  /\ o \in Tcps => Log!Lines(o) = Texts(received[o]) /\ Log!Lines(o)' = Texts(received'[o])
         /\ o \notin Tcps => Log!Lines(o) = received[o] /\ Log!Lines(o)' = received'[o]
  BY DEF Log!Lines, Texts

\* What happens to other outputs leaves an output as it is.
LEMMA GoodSame ==
  ASSUME NEW o, GoodOut(o), due'[o] = due[o], received'[o] = received[o],
         Waits(o)' <=> Waits(o), Waits(o) => line'[holder'] = line[holder],
         o \in Log!ToSet(outs)' => o \in Log!ToSet(outs), o \in fresh' => o \in fresh
  PROVE  GoodOut(o)'
  <1>1. Log!Due(o)' = Log!Due(o)
    BY DueIs
  <1>2. Log!Lines(o)' = Log!Lines(o)
    BY LinesAre
  <1>3. Log!IsPrefix(Log!Lines(o)', Log!Due(o)')
    BY <1>1, <1>2 DEF GoodOut
  <1>4. Alternates(received[o])' = Alternates(received[o])
    BY DEF Alternates
  <1> QED
    BY <1>1, <1>2, <1>3, <1>4 DEF GoodOut

LEMMA ListedIs ==
  /\ outs \in Seq(Log!Outs) => \A o : o \in Log!ToSet(outs) <=> \E i \in 1 .. Len(outs) : outs[i] = o
  /\ outs' \in Seq(Log!Outs) => \A o : o \in Log!ToSet(outs)' <=> \E i \in 1 .. Len(outs') : outs'[i] = o
  BY DEF Log!ToSet

LEMMA LogFormat == ASSUME LogInv, NEW t \in LogThreads, Log!Format(t) PROVE LogInv'
  <1>1. /\ line[t] = 0 /\ logged' = logged + 1 /\ line' = [line EXCEPT ![t] = logged']
        /\ UNCHANGED << level, fresh, outs, open, holder, at, due, received >>
    BY DEF Log!Format, Log!Idle
  <1>2. holder # NoThread => line'[holder] = line[holder]
    BY <1>1 DEF LogInv, LogTypes
  <1>3. LogTypes'
    <2>1. logged' \in Nat /\ line' \in [LogThreads -> Nat]
      BY <1>1 DEF LogInv, LogTypes
    <2> QED
      BY <1>1, <1>2, <2>1 DEF LogInv, LogTypes
  <1>4. ASSUME NEW o \in Log!Outs PROVE GoodOut(o)'
    <2>1. Waits(o)' <=> Waits(o)
      BY <1>1 DEF Waits
    <2>2. Waits(o) => line'[holder'] = line[holder]
      BY <1>1, <1>2 DEF Waits
    <2>3. Log!ToSet(outs)' = Log!ToSet(outs)
      BY <1>1 DEF Log!ToSet
    <2>4. GoodOut(o) /\ due'[o] = due[o] /\ received'[o] = received[o] /\ fresh' = fresh
      BY <1>1 DEF LogInv
    <2> QED
      BY <2>1, <2>2, <2>3, <2>4, GoodSame
  <1> QED
    BY <1>1, <1>3, <1>4 DEF LogInv, Log!ToSet

LEMMA LogUnlock == ASSUME LogInv, NEW t \in LogThreads, Log!Unlock(t) PROVE LogInv'
  <1>1. /\ holder = t /\ at > Len(outs) /\ holder' = NoThread /\ at' = 0
        /\ line' = [line EXCEPT ![t] = 0]
        /\ UNCHANGED << level, fresh, outs, open, logged, due, received >>
    BY DEF Log!Unlock
  <1>2. LogTypes'
    <2>1. line' \in [LogThreads -> Nat] /\ at' \in Nat
      BY <1>1 DEF LogInv, LogTypes
    <2> QED
      BY <1>1, <2>1 DEF LogInv, LogTypes
  <1>3. ASSUME NEW o \in Log!Outs PROVE GoodOut(o)'
    <2>1. ~ Waits(o) /\ ~ Waits(o)'
      BY <1>1 DEF Waits, LogInv, LogTypes
    <2>2. Log!ToSet(outs)' = Log!ToSet(outs)
      BY <1>1 DEF Log!ToSet
    <2>3. GoodOut(o) /\ due'[o] = due[o] /\ received'[o] = received[o] /\ fresh' = fresh
      BY <1>1 DEF LogInv
    <2> QED
      BY <2>1, <2>2, <2>3, GoodSame
  <1> QED
    BY <1>1, <1>2, <1>3 DEF LogInv, Log!ToSet

LEMMA LogAddOut ==
  ASSUME LogInv, NEW t \in LogThreads, NEW o \in Log!Outs, Log!AddOut(t, o)
  PROVE  LogInv'
  <1>1. /\ holder = NoThread /\ o \in fresh /\ fresh' = fresh \ {o} /\ outs' = Append(outs, o)
        /\ open' \subseteq open \cup {o}
        /\ UNCHANGED << level, holder, at, line, logged, due, received >>
    BY DEF Log!AddOut
  <1>2. outs \in Seq(Log!Outs) /\ Len(outs) \in Nat /\ LogTypes
    BY DEF LogInv, LogTypes
  <1>3. /\ outs' \in Seq(Log!Outs) /\ Len(outs') = Len(outs) + 1 /\ outs'[Len(outs) + 1] = o
        /\ \A i \in 1 .. Len(outs) : outs'[i] = outs[i]
    BY <1>1, <1>2
  <1>4. \A x : x \in Log!ToSet(outs)' <=> x \in Log!ToSet(outs) \/ x = o
    BY <1>2, <1>3, ListedIs
  <1>5. LogTypes'
    <2>1. \A p \in 1 .. Len(outs) : outs[p] # o
      BY <1>1, <1>2 DEF LogTypes
    <2>2. ASSUME NEW p \in 1 .. Len(outs'), NEW q \in 1 .. Len(outs'), p < q
          PROVE  outs'[p] # outs'[q]
      <3>1. p \in 1 .. Len(outs) /\ outs'[p] = outs[p]
        BY <1>2, <1>3, <2>2
      <3>2. CASE q \in 1 .. Len(outs)
        BY <1>2, <1>3, <2>2, <3>1, <3>2 DEF LogTypes
      <3>3. CASE q = Len(outs) + 1
        BY <1>3, <2>1, <3>1, <3>3
      <3> QED
        BY <1>2, <1>3, <3>2, <3>3
    <2>3. ASSUME NEW p \in 1 .. Len(outs') PROVE outs'[p] \notin fresh'
      <3>1. CASE p = Len(outs) + 1
        BY <1>1, <1>3, <3>1
      <3>2. CASE p # Len(outs) + 1
        <4>1. p \in 1 .. Len(outs) /\ outs'[p] = outs[p]
          BY <1>2, <1>3, <3>2
        <4> QED
          BY <1>1, <1>2, <4>1 DEF LogTypes
      <3> QED
        BY <3>1, <3>2
    <2> QED
      BY <1>1, <1>2, <1>3, <2>2, <2>3 DEF LogTypes
  <1>6. ASSUME NEW x \in Log!Outs PROVE GoodOut(x)'
    <2>1. ~ Waits(x) /\ ~ Waits(x)'
      BY <1>1 DEF Waits
    <2>2. GoodOut(x) /\ due'[x] = due[x] /\ received'[x] = received[x] /\ fresh' \subseteq fresh
      BY <1>1 DEF LogInv
    <2>3. CASE x # o
      BY <1>4, <2>1, <2>2, <2>3, GoodSame
    <2>4. CASE x = o
      <3>1. due[x] = << >> /\ received[x] = << >> /\ x \notin fresh'
        BY <1>1, <2>2, <2>4 DEF GoodOut
      <3>2. Log!Due(x)' = << >>
        BY <2>1, <2>2, <3>1, DueIs
      <3>3. Texts(<< >>) = << >> /\ Alternates(<< >>)
        <4>1. Len(<< >>) \div 2 = 0 /\ 1 .. 0 = {}
          OBVIOUS
        <4>2. Texts(<< >>) = << >>
          BY <4>1 DEF Texts
        <4> QED
          BY <4>2 DEF Alternates
      <3>4. Log!Lines(x)' = << >>
        BY <2>2, <3>1, <3>3, LinesAre
      <3>5. Log!IsPrefix(Log!Lines(x)', Log!Due(x)')
        BY <3>2, <3>4 DEF Log!IsPrefix
      <3> QED
        BY <2>1, <2>2, <3>1, <3>2, <3>3, <3>4, <3>5 DEF GoodOut
    <2> QED
      BY <2>3, <2>4
  <1> QED
    BY <1>1, <1>4, <1>5, <1>6 DEF LogInv

LEMMA RemoveIs ==
  ASSUME NEW S, NEW s \in Seq(S), NEW i \in 1 .. Len(s)
  PROVE  LET r == Log!RemoveAt(s, i)
         IN /\ r \in Seq(S) /\ Len(r) = Len(s) - 1
            /\ \A j \in 1 .. Len(s) - 1 : r[j] = IF j < i THEN s[j] ELSE s[j + 1]
  <1> DEFINE a == SubSeq(s, 1, i - 1)
             b == SubSeq(s, i + 1, Len(s))
  <1>1. Len(s) \in Nat /\ i \in Nat /\ 1 <= i /\ i <= Len(s)
    OBVIOUS
  <1>2. /\ a \in Seq(S) /\ Len(a) = i - 1 /\ \A j \in 1 .. i - 1 : a[j] = s[j]
    BY <1>1
  <1>3. /\ b \in Seq(S) /\ Len(b) = Len(s) - i /\ \A j \in 1 .. Len(s) - i : b[j] = s[i + j]
    BY <1>1
  <1> HIDE DEF a, b
  <1>4. /\ a \o b \in Seq(S) /\ Len(a \o b) = Len(s) - 1
        /\ \A j \in 1 .. Len(s) - 1 : (a \o b)[j] = IF j < i THEN a[j] ELSE b[j - (i - 1)]
    <2>1. (i - 1) + (Len(s) - i) = Len(s) - 1
      BY <1>1
    <2>2. /\ a \o b \in Seq(S) /\ Len(a \o b) = Len(a) + Len(b)
          /\ \A j \in 1 .. Len(a) + Len(b) :
                (a \o b)[j] = IF j <= Len(a) THEN a[j] ELSE b[j - Len(a)]
      BY <1>2, <1>3, ConcatProperties
    <2>3. \A j \in 1 .. Len(s) - 1 : j <= i - 1 <=> j < i
      BY <1>1
    <2> QED
      BY <1>2, <1>3, <2>1, <2>2, <2>3
  <1>5. ASSUME NEW j \in 1 .. Len(s) - 1
        PROVE  (a \o b)[j] = IF j < i THEN s[j] ELSE s[j + 1]
    <2>1. CASE j < i
      BY <1>1, <1>2, <1>4, <2>1
    <2>2. CASE ~ j < i
      <3>1. j - (i - 1) \in 1 .. Len(s) - i /\ i + (j - (i - 1)) = j + 1
        BY <1>1, <2>2
      <3> QED
        BY <1>3, <1>4, <2>2, <3>1
    <2> QED
      BY <2>1, <2>2
  <1> QED
    BY <1>4, <1>5 DEF Log!RemoveAt, a, b

LEMMA Dropped ==
  ASSUME LogTypes, NEW i \in 1 .. Len(outs), outs' = Log!RemoveAt(outs, i), fresh' = fresh
  PROVE  /\ outs' \in Seq(Log!Outs) /\ Len(outs) \in Nat /\ Len(outs') = Len(outs) - 1
         /\ \A j \in 1 .. Len(outs) - 1 : outs'[j] = IF j < i THEN outs[j] ELSE outs[j + 1]
         /\ \A o : o \in Log!ToSet(outs)' <=> o \in Log!ToSet(outs) /\ o # outs[i]
         /\ \A p, q \in 1 .. Len(outs') : p < q => outs'[p] # outs'[q]
         /\ \A p \in 1 .. Len(outs') : outs'[p] \notin fresh'
  <1>1. outs \in Seq(Log!Outs) /\ Len(outs) \in Nat
    BY DEF LogTypes
  <1>2. /\ outs' \in Seq(Log!Outs) /\ Len(outs') = Len(outs) - 1
        /\ \A j \in 1 .. Len(outs) - 1 : outs'[j] = IF j < i THEN outs[j] ELSE outs[j + 1]
    BY <1>1, RemoveIs
  <1>3. \A j \in 1 .. Len(outs') : \E k \in 1 .. Len(outs) : k # i /\ outs'[j] = outs[k]
    <2> SUFFICES ASSUME NEW j \in 1 .. Len(outs')
                 PROVE  \E k \in 1 .. Len(outs) : k # i /\ outs'[j] = outs[k]
      OBVIOUS
    <2>1. CASE j < i
      BY <1>1, <1>2, <2>1
    <2>2. CASE ~ j < i
      <3>1. j + 1 \in 1 .. Len(outs) /\ j + 1 # i /\ outs'[j] = outs[j + 1]
        BY <1>1, <1>2, <2>2
      <3> QED
        BY <3>1
    <2> QED
      BY <2>1, <2>2
  <1>4. \A k \in 1 .. Len(outs) : k # i => \E j \in 1 .. Len(outs') : outs'[j] = outs[k]
    <2> SUFFICES ASSUME NEW k \in 1 .. Len(outs), k # i
                 PROVE  \E j \in 1 .. Len(outs') : outs'[j] = outs[k]
      OBVIOUS
    <2>1. CASE k < i
      BY <1>1, <1>2, <2>1
    <2>2. CASE ~ k < i
      <3>1. k - 1 \in 1 .. Len(outs') /\ outs'[k - 1] = outs[k]
        BY <1>1, <1>2, <2>2
      <3> QED
        BY <3>1
    <2> QED
      BY <2>1, <2>2
  <1>5. \A p, q \in 1 .. Len(outs) : p # q => outs[p] # outs[q]
    BY <1>1 DEF LogTypes
  <1>6. \A o : o \in Log!ToSet(outs)' <=> o \in Log!ToSet(outs) /\ o # outs[i]
    <2>1. ASSUME NEW o, o \in Log!ToSet(outs)' PROVE o \in Log!ToSet(outs) /\ o # outs[i]
      BY <1>1, <1>2, <1>3, <1>5, <2>1, ListedIs
    <2>2. ASSUME NEW o, o \in Log!ToSet(outs), o # outs[i] PROVE o \in Log!ToSet(outs)'
      BY <1>1, <1>2, <1>4, <2>2, ListedIs
    <2> QED
      BY <2>1, <2>2
  <1>7. ASSUME NEW p \in 1 .. Len(outs'), NEW q \in 1 .. Len(outs'), p < q
        PROVE  outs'[p] # outs'[q]
    <2>1. outs'[p] = outs[IF p < i THEN p ELSE p + 1] /\ outs'[q] = outs[IF q < i THEN q ELSE q + 1]
      BY <1>1, <1>2
    <2>2. /\ (IF p < i THEN p ELSE p + 1) \in 1 .. Len(outs)
          /\ (IF q < i THEN q ELSE q + 1) \in 1 .. Len(outs)
          /\ (IF p < i THEN p ELSE p + 1) # (IF q < i THEN q ELSE q + 1)
      BY <1>1, <1>2, <1>7
    <2> QED
      BY <1>5, <2>1, <2>2
  <1>8. \A p \in 1 .. Len(outs') : outs'[p] \notin fresh'
    BY <1>3 DEF LogTypes
  <1> QED
    BY <1>1, <1>2, <1>6, <1>7, <1>8

LEMMA LogRemoveOut ==
  ASSUME LogInv, NEW t \in LogThreads, NEW o \in Log!Outs, Log!RemoveOut(t, o)
  PROVE  LogInv'
  <1>1. holder = NoThread /\ UNCHANGED << level, fresh, holder, at, line, logged, due, received >>
    BY DEF Log!RemoveOut
  <1>2. \E i \in 1 .. Len(outs) : outs' = Log!RemoveAt(outs, i) /\ open' = open \ {outs[i]}
    <2>1. DOMAIN outs = 1 .. Len(outs)
      BY DEF LogInv, LogTypes
    <2> QED
      BY <2>1 DEF Log!RemoveOut, Log!Drop
  <1> PICK i \in 1 .. Len(outs) : outs' = Log!RemoveAt(outs, i) /\ open' = open \ {outs[i]}
    BY <1>2
  <1>3. LogTypes
    BY DEF LogInv
  <1>4. /\ outs' \in Seq(Log!Outs)
        /\ \A x : x \in Log!ToSet(outs)' <=> x \in Log!ToSet(outs) /\ x # outs[i]
        /\ \A p, q \in 1 .. Len(outs') : p < q => outs'[p] # outs'[q]
        /\ \A p \in 1 .. Len(outs') : outs'[p] \notin fresh'
    BY <1>1, <1>3, Dropped
  <1>5. LogTypes'
    BY <1>1, <1>3, <1>4 DEF LogTypes
  <1>6. ASSUME NEW x \in Log!Outs PROVE GoodOut(x)'
    <2>1. ~ Waits(x) /\ ~ Waits(x)'
      BY <1>1 DEF Waits
    <2>2. GoodOut(x) /\ due'[x] = due[x] /\ received'[x] = received[x] /\ fresh' = fresh
      BY <1>1 DEF LogInv
    <2> QED
      BY <1>4, <2>1, <2>2, GoodSame
  <1> QED
    BY <1>4, <1>5, <1>6 DEF LogInv

LEMMA FrontOfAppend ==
  ASSUME NEW s \in Seq(Nat), NEW l \in Nat
  PROVE  /\ Append(s, l) \in Seq(Nat) /\ Append(s, l) # << >>
         /\ Append(s, l)[Len(Append(s, l))] = l
         /\ Log!Front(Append(s, l)) = s
  <1> DEFINE r == Append(s, l)
  <1>1. /\ r \in Seq(Nat) /\ Len(r) = Len(s) + 1 /\ r[Len(s) + 1] = l /\ Len(s) \in Nat
        /\ \A j \in 1 .. Len(s) : r[j] = s[j]
    OBVIOUS
  <1> HIDE DEF r
  <1>2. r # << >>
    BY <1>1
  <1>3. Log!Front(r) = s
    <2>1. /\ Log!Front(r) \in Seq(Nat) /\ Len(Log!Front(r)) = Len(r) - 1
          /\ \A j \in 1 .. Len(r) - 1 : Log!Front(r)[j] = r[j]
      BY <1>1, <1>2, AllButLast DEF Log!Front
    <2>2. Len(Log!Front(r)) = Len(s) /\ \A j \in 1 .. Len(s) : Log!Front(r)[j] = s[j]
      BY <1>1, <2>1
    <2> QED
      BY <2>1, <2>2, SeqEqual
  <1>4. r[Len(r)] = l
    BY <1>1
  <1> QED
    BY <1>1, <1>2, <1>3, <1>4 DEF r

LEMMA AppendToFront ==
  ASSUME NEW s \in Seq(Nat), s # << >>
  PROVE  Log!Front(s) \in Seq(Nat) /\ Append(Log!Front(s), s[Len(s)]) = s
  <1> DEFINE f == Log!Front(s)
             l == s[Len(s)]
  <1>1. /\ f \in Seq(Nat) /\ Len(s) \in Nat \ {0} /\ Len(f) = Len(s) - 1
        /\ \A j \in 1 .. Len(s) - 1 : f[j] = s[j]
    BY AllButLast DEF Log!Front
  <1>2. l \in Nat
    BY <1>1, ElementOfSeq
  <1> HIDE DEF f
  <1>3. /\ Append(f, l) \in Seq(Nat) /\ Len(Append(f, l)) = Len(f) + 1
        /\ Append(f, l)[Len(f) + 1] = l /\ \A j \in 1 .. Len(f) : Append(f, l)[j] = f[j]
    BY <1>1, <1>2
  <1>4. Len(Append(f, l)) = Len(s)
    BY <1>1, <1>3
  <1>5. ASSUME NEW j \in 1 .. Len(s) PROVE Append(f, l)[j] = s[j]
    <2>1. CASE j = Len(s)
      BY <1>1, <1>3, <2>1
    <2>2. CASE j # Len(s)
      <3>1. j \in 1 .. Len(s) - 1
        BY <1>1, <2>2
      <3> QED
        BY <1>1, <1>3, <3>1
    <2> QED
      BY <2>1, <2>2
  <1>6. Append(f, l) = s
    BY <1>3, <1>4, <1>5, SeqEqual
  <1> QED
    BY <1>1, <1>6 DEF f

LEMMA LogLock == ASSUME LogInv, NEW t \in LogThreads, Log!Lock(t) PROVE LogInv'
  <1>1. /\ line[t] # 0 /\ holder = NoThread /\ holder' = t /\ at' = 1
        /\ due' = [o \in Log!Outs |-> IF o \in Log!ToSet(outs) THEN Append(due[o], line[t])
                                      ELSE due[o]]
        /\ UNCHANGED << level, fresh, outs, open, line, logged, received >>
    BY DEF Log!Lock, Log!Idle
  <1>2. LogTypes /\ outs \in Seq(Log!Outs) /\ Len(outs) \in Nat /\ line[t] \in Nat
    BY DEF LogInv, LogTypes
  <1>3. LogTypes'
    <2>1. ASSUME NEW o \in Log!Outs
          PROVE  (IF o \in Log!ToSet(outs) THEN Append(due[o], line[t]) ELSE due[o]) \in Seq(Nat)
      <3>1. due[o] \in Seq(Nat)
        BY <1>2 DEF LogTypes
      <3>2. Append(due[o], line[t]) \in Seq(Nat)
        BY <1>2, <3>1, FrontOfAppend
      <3> QED
        BY <3>1, <3>2
    <2>2. due' \in [Log!Outs -> Seq(Nat)]
      BY <1>1, <2>1
    <2>3. at' \in Nat /\ at' \in 1 .. Len(outs) + 1
      BY <1>1, <1>2
    <2> QED
      BY <1>1, <1>2, <2>2, <2>3 DEF LogTypes
  <1>4. ASSUME NEW x \in Log!Outs PROVE GoodOut(x)'
    <2>1. GoodOut(x) /\ received'[x] = received[x] /\ fresh' = fresh /\ ~ Waits(x)
          /\ Log!ToSet(outs)' = Log!ToSet(outs)
      BY <1>1 DEF LogInv, Waits, Log!ToSet
    <2>2. CASE x \notin Log!ToSet(outs)
      <3>1. due'[x] = due[x] /\ ~ Waits(x)'
        BY <1>1, <2>2 DEF Waits, Log!ToSet
      <3> QED
        BY <2>1, <2>2, <3>1, GoodSame
    <2>3. CASE x \in Log!ToSet(outs)
      <3>1. due'[x] = Append(due[x], line[t]) /\ due[x] \in Seq(Nat)
        BY <1>1, <1>2, <2>3 DEF LogTypes
      <3>2. Waits(x)'
        <4>1. \E i \in DOMAIN outs : i >= 1 /\ outs[i] = x
          BY <1>2, <2>3 DEF Log!ToSet
        <4>2. holder' # NoThread
          BY <1>1, LoggerAssumption
        <4> QED
          BY <1>1, <4>1, <4>2 DEF Waits
      <3>3. /\ due'[x] \in Seq(Nat) /\ due'[x] # << >> /\ due'[x][Len(due'[x])] = line[t]
            /\ Log!Front(due'[x]) = due[x]
        BY <1>2, <3>1, FrontOfAppend
      <3>4. Log!Due(x)' = Log!Due(x)
        BY <2>1, <3>2, <3>3, DueIs
      <3>5. Log!Lines(x)' = Log!Lines(x) /\ Alternates(received[x])' = Alternates(received[x])
        BY <2>1, LinesAre DEF Alternates
      <3>6. Log!IsPrefix(Log!Lines(x)', Log!Due(x)')
        BY <2>1, <3>4, <3>5 DEF GoodOut
      <3>7. x \notin fresh'
        <4>1. x \notin fresh
          <5>1. \E i \in 1 .. Len(outs) : outs[i] = x
            BY <1>2, <2>3, ListedIs
          <5> QED
            BY <1>2, <5>1 DEF LogTypes
        <4> QED
          BY <2>1, <4>1
      <3>8. line'[holder'] = line[t]
        BY <1>1
      <3> QED
        BY <2>1, <3>3, <3>4, <3>5, <3>6, <3>7, <3>8 DEF GoodOut
    <2> QED
      BY <2>2, <2>3
  <1> QED
    BY <1>1, <1>3, <1>4 DEF LogInv, Log!ToSet

\* Where the walk stands.
LEMMA WalkAt ==
  ASSUME LogInv, NEW t \in LogThreads, holder = t, at <= Len(outs)
  PROVE  /\ outs \in Seq(Log!Outs) /\ Len(outs) \in Nat /\ at \in 1 .. Len(outs)
         /\ outs[at] \in Log!Outs /\ outs[at] \in Log!ToSet(outs) /\ outs[at] \notin fresh
         /\ Waits(outs[at])
         /\ line[t] \in Nat \ {0} /\ holder # NoThread
  <1>1. outs \in Seq(Log!Outs) /\ Len(outs) \in Nat /\ holder # NoThread
    BY LoggerAssumption DEF LogInv, LogTypes
  <1>2. at \in 1 .. Len(outs) /\ line[t] \in Nat \ {0}
    BY <1>1 DEF LogInv, LogTypes
  <1>3. outs[at] \in Log!Outs /\ outs[at] \notin fresh
    BY <1>1, <1>2 DEF LogInv, LogTypes
  <1>4. outs[at] \in Log!ToSet(outs) /\ Waits(outs[at])
    BY <1>1, <1>2 DEF Log!ToSet, Waits
  <1> QED
    BY <1>1, <1>2, <1>3, <1>4

LEMMA LogWriteOut == ASSUME LogInv, NEW t \in LogThreads, Log!WriteOut(t) PROVE LogInv'
  <1>1. /\ holder = t /\ at <= Len(outs) /\ at' = at + 1
        /\ open' = open \cup {outs[at]}
        /\ received' = [received EXCEPT ![outs[at]] =
             @ \o (IF outs[at] \in Tcps THEN << Log!Size, line[t] >> ELSE << line[t] >>)]
        /\ UNCHANGED << level, fresh, outs, holder, line, logged, due >>
    BY DEF Log!WriteOut
  <1>2. /\ outs \in Seq(Log!Outs) /\ Len(outs) \in Nat /\ at \in 1 .. Len(outs)
        /\ outs[at] \in Log!Outs /\ outs[at] \in Log!ToSet(outs) /\ outs[at] \notin fresh
        /\ Waits(outs[at]) /\ line[t] \in Nat \ {0} /\ holder # NoThread
    BY <1>1, WalkAt
  <1> PICK o \in Log!Outs : o = outs[at]
    BY <1>2
  <1>3. PICK l \in Nat \ {0} : l = line[t]
    BY <1>2
  <1>4. LogTypes
    BY DEF LogInv
  <1>5. /\ o \in Tcps => received'[o] = received[o] \o << 0, l >>
        /\ o \notin Tcps => received'[o] = received[o] \o << l >>
        /\ \A x \in Log!Outs : x # o => received'[x] = received[x]
    BY <1>1, <1>3, <1>4 DEF LogTypes, Log!Size
  <1>6. \A x : x # o => (Waits(x)' <=> Waits(x))
    <2> SUFFICES ASSUME NEW x, x # o PROVE Waits(x)' <=> Waits(x)
      OBVIOUS
    <2>1. \A i \in DOMAIN outs : outs[i] = x => (i >= at <=> i >= at + 1)
      BY <1>2
    <2> QED
      BY <1>1, <2>1 DEF Waits
  <1>7. ~ Waits(o)'
    <2>1. \A i \in 1 .. Len(outs) : i >= at + 1 => outs[i] # o
      BY <1>2, <1>4 DEF LogTypes
    <2> QED
      BY <1>1, <1>2, <2>1 DEF Waits
  <1>8. GoodOut(o) /\ Waits(o)
    BY <1>2 DEF LogInv
  <1>9. Log!Due(o)' = Append(Log!Due(o), l)
    <2>1. due[o] \in Seq(Nat) /\ due[o] # << >> /\ due[o][Len(due[o])] = l
      BY <1>1, <1>3, <1>8 DEF GoodOut
    <2>2. Append(Log!Front(due[o]), l) = due[o]
      BY <2>1, AppendToFront
    <2>3. Log!Due(o) = Log!Front(due[o]) /\ Log!Due(o)' = due'[o]
      BY <1>7, <1>8, DueIs
    <2> QED
      BY <1>1, <2>2, <2>3
  <1>10. /\ received'[o] \in Seq(Nat) /\ Log!Lines(o)' = Append(Log!Lines(o), l)
         /\ o \in Tcps => Alternates(received[o])' /\ Len(received'[o]) % 2 = 0
    <2>1. CASE o \in Tcps
      <3>1. received[o] \in Seq(Nat) /\ Len(received[o]) % 2 = 0 /\ Alternates(received[o])
        BY <1>2, <1>8, <2>1 DEF GoodOut
      <3> PICK s \in Seq(Nat) : s = received[o]
        BY <3>1
      <3>2. LET r == s \o << 0, l >>
            IN /\ r \in Seq(Nat) /\ Len(r) % 2 = 0 /\ Alternates(r)
               /\ Texts(r) = Append(Texts(s), l)
        BY <3>1, TextsGrow
      <3>3. received'[o] = s \o << 0, l >>
        BY <1>5, <2>1
      <3>4. received'[o] \in Seq(Nat) /\ Len(received'[o]) % 2 = 0
            /\ Texts(received'[o]) = Append(Texts(received[o]), l)
        BY <3>2, <3>3
      <3>5. Alternates(received[o])'
        BY <3>2, <3>3 DEF Alternates
      <3> QED
        BY <2>1, <3>4, <3>5, LinesAre
    <2>2. CASE o \notin Tcps
      <3>1. received[o] \in Seq(Nat)
        BY <1>8 DEF GoodOut
      <3>2. received[o] \o << l >> = Append(received[o], l) /\ received[o] \o << l >> \in Seq(Nat)
        BY <3>1
      <3> QED
        BY <1>5, <2>2, <3>2, LinesAre
    <2> QED
      BY <2>1, <2>2
  <1>11. GoodOut(o)'
    <2>1. Log!Lines(o) = Log!Due(o)
      BY <1>2, <1>8 DEF GoodOut
    <2>2. Log!Lines(o)' = Log!Due(o)'
      BY <1>9, <1>10, <2>1
    <2>3. Log!Due(o)' \in Seq(Nat) /\ due'[o] \in Seq(Nat)
      BY <1>1, <1>7, <1>8, DueIs DEF GoodOut
    <2>4. Log!IsPrefix(Log!Lines(o)', Log!Due(o)')
      BY <2>2, <2>3 DEF Log!IsPrefix
    <2>5. o \notin fresh'
      BY <1>1, <1>2
    <2> QED
      BY <1>7, <1>10, <2>2, <2>3, <2>4, <2>5 DEF GoodOut
  <1>12. ASSUME NEW x \in Log!Outs, x # o PROVE GoodOut(x)'
    <2>1. GoodOut(x) /\ due'[x] = due[x] /\ received'[x] = received[x] /\ fresh' = fresh
          /\ line'[holder'] = line[holder] /\ Log!ToSet(outs)' = Log!ToSet(outs)
      BY <1>1, <1>5, <1>12 DEF LogInv, Log!ToSet
    <2>2. Waits(x)' <=> Waits(x)
      BY <1>6, <1>12
    <2> QED
      BY <2>1, <2>2, GoodSame
  <1>13. LogTypes'
    <2>1. received' \in [Log!Outs -> Seq(Nat)]
      <3>1. \E r : received' = [received EXCEPT ![o] = r]
        BY <1>1
      <3>2. received' = [received EXCEPT ![o] = received'[o]]
        BY <1>4, <3>1 DEF LogTypes
      <3> QED
        BY <1>4, <1>10, <3>2 DEF LogTypes
    <2>2. at' \in Nat /\ at' \in 1 .. Len(outs) + 1
      BY <1>1, <1>2
    <2> QED
      BY <1>1, <1>4, <2>1, <2>2 DEF LogTypes
  <1>14. open' \subseteq Log!ToSet(outs)'
    BY <1>1, <1>2 DEF LogInv, Log!ToSet
  <1> QED
    BY <1>11, <1>12, <1>13, <1>14 DEF LogInv

LEMMA LogFailOut == ASSUME LogInv, NEW t \in LogThreads, Log!FailOut(t) PROVE LogInv'
  <1>1. /\ holder = t /\ at <= Len(outs) /\ at' = at
        /\ outs' = Log!RemoveAt(outs, at) /\ open' = open \ {outs[at]}
        /\ \/ received' = received
           \/ /\ outs[at] \in Tcps
              /\ received' = [received EXCEPT ![outs[at]] = Append(@, Log!Size)]
        /\ UNCHANGED << level, fresh, holder, line, logged, due >>
    BY DEF Log!FailOut, Log!Drop
  <1>2. /\ outs \in Seq(Log!Outs) /\ Len(outs) \in Nat /\ at \in 1 .. Len(outs)
        /\ outs[at] \in Log!Outs /\ outs[at] \in Log!ToSet(outs) /\ outs[at] \notin fresh
        /\ Waits(outs[at]) /\ line[t] \in Nat \ {0} /\ holder # NoThread
    BY <1>1, WalkAt
  <1> PICK o \in Log!Outs : o = outs[at]
    BY <1>2
  <1> PICK k \in 1 .. Len(outs) : k = at
    BY <1>2
  <1>3. LogTypes
    BY DEF LogInv
  <1>4. /\ outs' \in Seq(Log!Outs) /\ Len(outs') = Len(outs) - 1
        /\ \A j \in 1 .. Len(outs) - 1 : outs'[j] = IF j < k THEN outs[j] ELSE outs[j + 1]
        /\ \A x : x \in Log!ToSet(outs)' <=> x \in Log!ToSet(outs) /\ x # o
        /\ \A p, q \in 1 .. Len(outs') : p < q => outs'[p] # outs'[q]
        /\ \A p \in 1 .. Len(outs') : outs'[p] \notin fresh'
    BY <1>1, <1>3, Dropped
  <1>5. /\ received'[o] = received[o]
             \/ (o \in Tcps /\ received'[o] = Append(received[o], 0))
        /\ \A x \in Log!Outs : x # o => received'[x] = received[x]
    BY <1>1, <1>3 DEF LogTypes, Log!Size
  <1>6. ASSUME NEW x, x # o PROVE Waits(x)' <=> Waits(x)
    <2>1. DOMAIN outs = 1 .. Len(outs) /\ DOMAIN outs' = 1 .. Len(outs) - 1
      BY <1>2, <1>4
    <2>2. ASSUME NEW i \in 1 .. Len(outs), i >= k, outs[i] = x
          PROVE  i - 1 \in 1 .. Len(outs) - 1 /\ i - 1 >= k /\ outs'[i - 1] = x
      <3>1. i # k
        BY <1>6, <2>2
      <3>2. i - 1 \in 1 .. Len(outs) - 1 /\ i - 1 >= k /\ (i - 1) + 1 = i /\ ~ i - 1 < k
        BY <1>2, <2>2, <3>1
      <3> QED
        BY <1>4, <2>2, <3>2
    <2>3. ASSUME NEW i \in 1 .. Len(outs) - 1, i >= k, outs'[i] = x
          PROVE  i + 1 \in 1 .. Len(outs) /\ i + 1 >= k /\ outs[i + 1] = x
      <3>1. i + 1 \in 1 .. Len(outs) /\ i + 1 >= k /\ ~ i < k
        BY <1>2, <2>3
      <3> QED
        BY <1>4, <2>3, <3>1
    <2> QED
      BY <1>1, <2>1, <2>2, <2>3 DEF Waits
  <1>7. ~ Waits(o)'
    <2>1. o \notin Log!ToSet(outs)'
      BY <1>4
    <2> QED
      BY <2>1 DEF Waits, Log!ToSet
  <1>8. GoodOut(o) /\ Waits(o)
    BY <1>2 DEF LogInv
  <1>9. /\ received'[o] \in Seq(Nat) /\ Log!Lines(o)' = Log!Lines(o)
        /\ o \in Tcps => Alternates(received[o])'
    <2>1. CASE received'[o] = received[o]
      BY <1>8, <2>1, LinesAre DEF GoodOut, Alternates
    <2>2. CASE o \in Tcps /\ received'[o] = Append(received[o], 0)
      <3>1. received[o] \in Seq(Nat) /\ Len(received[o]) % 2 = 0 /\ Alternates(received[o])
        BY <1>2, <1>8, <2>2 DEF GoodOut
      <3> PICK s \in Seq(Nat) : s = received[o]
        BY <3>1
      <3>2. /\ Append(s, 0) \in Seq(Nat) /\ Alternates(Append(s, 0))
            /\ Texts(Append(s, 0)) = Texts(s)
        BY <3>1, TextsKept
      <3>3. received'[o] \in Seq(Nat) /\ Texts(received'[o]) = Texts(received[o])
        BY <2>2, <3>2
      <3>4. Alternates(received[o])'
        BY <2>2, <3>2 DEF Alternates
      <3> QED
        BY <2>2, <3>3, <3>4, LinesAre
    <2> QED
      BY <1>5, <2>1, <2>2
  <1>10. GoodOut(o)'
    <2>1. Log!Lines(o) = Log!Due(o) /\ Log!Due(o) = Log!Front(due[o])
          /\ due[o] \in Seq(Nat) /\ due[o] # << >>
      BY <1>2, <1>8, DueIs DEF GoodOut
    <2>2. Log!Lines(o)' = Log!Front(due[o]) /\ Log!Due(o)' = due[o]
      BY <1>1, <1>7, <1>9, <2>1, DueIs
    <2>3. Log!IsPrefix(Log!Front(due[o]), due[o])
      <3> PICK s \in Seq(Nat) : s = due[o]
        BY <2>1
      <3>1. Log!Front(s) \in Seq(Nat) /\ Len(s) \in Nat /\ Len(Log!Front(s)) = Len(s) - 1
            /\ Log!Front(s) = SubSeq(s, 1, Len(Log!Front(s)))
        BY <2>1, AllButLast DEF Log!Front
      <3>2. \A f \in Seq(Nat) : SubSeq(f, 1, Len(f)) = f
        OBVIOUS
      <3>3. SubSeq(Log!Front(s), 1, Len(Log!Front(s))) = Log!Front(s)
        BY <3>1, <3>2
      <3>4. Log!IsPrefix(Log!Front(s), s)
        BY <3>1, <3>3 DEF Log!IsPrefix
      <3> QED
        BY <3>4
    <2>4. o \notin fresh' /\ o \notin Log!ToSet(outs)' /\ due'[o] \in Seq(Nat)
      BY <1>1, <1>2, <1>4, <2>1
    <2> QED
      BY <1>7, <1>9, <2>2, <2>3, <2>4 DEF GoodOut
  <1>11. ASSUME NEW x \in Log!Outs, x # o PROVE GoodOut(x)'
    <2>1. GoodOut(x) /\ due'[x] = due[x] /\ received'[x] = received[x] /\ fresh' = fresh
          /\ line'[holder'] = line[holder]
          /\ (x \in Log!ToSet(outs)' => x \in Log!ToSet(outs))
      BY <1>1, <1>4, <1>5, <1>11 DEF LogInv
    <2>2. Waits(x)' <=> Waits(x)
      BY <1>6, <1>11
    <2> QED
      BY <2>1, <2>2, GoodSame
  <1>12. LogTypes'
    <2>1. received' \in [Log!Outs -> Seq(Nat)]
      <3>1. received' = received \/ \E r : received' = [received EXCEPT ![o] = r]
        BY <1>1
      <3>2. received' = [received EXCEPT ![o] = received'[o]]
        BY <1>3, <3>1 DEF LogTypes
      <3> QED
        BY <1>3, <1>9, <3>2 DEF LogTypes
    <2>2. at' \in Nat /\ at' \in 1 .. Len(outs') + 1
      BY <1>1, <1>2, <1>4
    <2> QED
      BY <1>1, <1>3, <1>4, <2>1, <2>2 DEF LogTypes
  <1>13. open' \subseteq Log!ToSet(outs)'
    BY <1>1, <1>4 DEF LogInv
  <1> QED
    BY <1>10, <1>11, <1>12, <1>13 DEF LogInv

LEMMA LogStep == LogInv /\ [Log!Next]_(Log!vars) => LogInv'
  <1> SUFFICES ASSUME LogInv, [Log!Next]_(Log!vars) PROVE LogInv'
    OBVIOUS
  <1>1. ASSUME NEW t \in LogThreads,
               Log!Format(t) \/ Log!Lock(t) \/ Log!WriteOut(t) \/ Log!FailOut(t) \/ Log!Unlock(t)
        PROVE  LogInv'
    BY <1>1, LogFormat, LogLock, LogWriteOut, LogFailOut, LogUnlock
  <1>2. ASSUME NEW t \in LogThreads, NEW o \in Log!Outs, Log!AddOut(t, o) \/ Log!RemoveOut(t, o)
        PROVE  LogInv'
    BY <1>2, LogAddOut, LogRemoveOut
  <1>3. CASE UNCHANGED << fresh, outs, open, holder, at, line, logged, due, received >>
    <2>1. \A o : GoodOut(o)' <=> GoodOut(o)
      BY <1>3 DEF GoodOut, Alternates, Waits, Log!Lines, Log!Due, Log!ToSet
    <2> QED
      BY <1>3, <2>1 DEF LogInv, LogTypes, Log!ToSet
  <1>4. ASSUME NEW t \in LogThreads, NEW l \in Levels, Log!SetLevel(t, l) PROVE LogInv'
    BY <1>3, <1>4 DEF Log!SetLevel
  <1> QED
    BY <1>1, <1>2, <1>3, <1>4 DEF Log!Next, Log!vars

\* Every output gets every line that is written while it is listed, in the order of
\* the mutex and whichever outputs fail during a walk (cf_logger.c:71-78): with any
\* number of threads, files and peers.
THEOREM LogsEverything == Log!Spec => []LogComplete
  <1>1. LogInv => LogComplete
    <2> SUFFICES ASSUME LogInv PROVE Log!EveryOutputEveryLine
      BY DEF LogComplete
    <2>1. \A o \in Log!ToSet(outs) : o \in Log!Outs
      <3>1. outs \in Seq(Log!Outs)
        BY DEF LogInv, LogTypes
      <3>2. \A i \in 1 .. Len(outs) : outs[i] \in Log!Outs
        BY <3>1
      <3> QED
        BY <3>1, <3>2, ListedIs
    <2>2. ASSUME NEW o \in Tcps
          PROVE  \A i \in DOMAIN received[o] : (received[o][i] = Log!Size) <=> (i % 2 = 1)
      <3>1. o \in Log!Outs
        BY DEF Log!Outs
      <3>2. received[o] \in Seq(Nat) /\ Alternates(received[o])
        BY <3>1 DEF LogInv, GoodOut
      <3>3. DOMAIN received[o] = 1 .. Len(received[o])
        BY <3>2
      <3> QED
        BY <3>2, <3>3 DEF Alternates, Log!Size
    <2>3. \A o \in Log!ToSet(outs) : Log!Lines(o) = Log!Due(o)
      BY <2>1 DEF LogInv, GoodOut
    <2> QED
      BY <2>2, <2>3 DEF LogInv, GoodOut, Log!EveryOutputEveryLine
  <1> QED
    BY <1>1, LogInit, LogStep, PTL DEF Log!Spec

-----------------------------------------------------------------------------
(***************************************************************************)
(* TestSuite.  Suites are put into suites in one order, so what stands     *)
(* below each is defined; the suites that run are a chain, each the entry  *)
(* that the one around it has come to.  What ran is what stands in front   *)
(* of these entries, one chain link behind the other; a suite that has run *)
(* has a report of what stands below it, and one that runs has counted the *)
(* failures in front of its entry.  Nothing is come to twice in a run, so  *)
(* a mark that a test gets changes no report.                              *)
(***************************************************************************)
Items == Tests \cup Suites

\* What stands below each entry, when B says so of the suites.
Piece(B) == [e \in Items |-> IF e \in Suites THEN B[e] ELSE <<e>>]
Unfold(B, L) == [s \in Suites |-> FlatMap(Piece(B), L[s])]
BelowOf(L) == CHOOSE B : B = [s \in Suites |->
                Ext!FlattenSeq([i \in DOMAIN L[s] |->
                  IF L[s][i] \in Suites THEN B[L[s][i]] ELSE <<L[s][i]>>])]

\* Suites are put into suites in one order, and nothing into two places.
Nested(L) == /\ L \in [Suites -> Seq(Items)]
             /\ \A s \in Suites : \A i \in 1 .. Len(L[s]) : L[s][i] \in Suites => L[s][i] > s
OnePlace(L) == \A s, r \in Suites : \A i \in 1 .. Len(L[s]), j \in 1 .. Len(L[r]) :
                 L[s][i] = L[r][j] => s = r /\ i = j

\* The suites that run: each is the entry that the one around it has come to.
Chain(L, S) ==
  /\ S \in Seq([suite : Suites, entry : Nat])
  /\ \A k \in 1 .. Len(S) : S[k].entry \in 1 .. Len(L[S[k].suite]) + 1
  /\ \A k \in 1 .. Len(S) - 1 : /\ S[k].entry <= Len(L[S[k].suite])
                                /\ L[S[k].suite][S[k].entry] = S[k + 1].suite
  /\ \A k \in 1 .. Len(S) : \A j \in 1 .. k - 1 : S[j].suite < S[k].suite

\* The tests in front of the entry that a suite has come to, and those that ran.
Front(B, L, f) == FlatMap(Piece(B), SubSeq(L[f.suite], 1, f.entry - 1))
Ran(B, L, S, q) ==
  \E g \in [0 .. Len(S) -> Seq(Tests)] :
    /\ g[0] = <<>> /\ q = g[Len(S)]
    /\ \A k \in 1 .. Len(S) : g[k] = g[k - 1] \o Front(B, L, S[k])

\* T has what was come to in this run.
Visited(T, L, S) ==
  /\ \A k \in 1 .. Len(S) : S[k].suite \in T
  /\ \A s \in Suites : \A i \in 1 .. Len(L[s]) : L[s][i] \in T =>
       /\ s \in T
       /\ \A k \in 1 .. Len(S) : S[k].suite = s =>
            i < S[k].entry \/ (i = S[k].entry /\ k < Len(S))

\* The mark of each test, and the lines about it.
Marks(F) == [t \in Tests |-> IF t \in F THEN <<"F">> ELSE <<".">>]
Faults(F) == [t \in Tests |-> IF t \in F THEN <<t>> ELSE <<>>]

\* c counts those in q that failed, and n is 1 in the first run.
Tally(F, n, c, q) == /\ c \in Nat /\ Len(FlatMap(Faults(F), q)) <= c
                     /\ n = 1 => c = Len(FlatMap(Faults(F), q))

Within(q, T) == \A i \in 1 .. Len(q) : q[i] \in T

\* A suite that has run.
Reported(T, B, F, R, C, n, S, u) ==
  /\ u \in T /\ Within(B[u], T) /\ Tally(F, n, C[u], B[u])
  /\ R[u].summary = FlatMap(Marks(F), B[u]) /\ R[u].lines = FlatMap(Faults(F), B[u])
  /\ \A k \in 1 .. Len(S) : S[k].suite # u

\* A suite that runs.
Running(T, B, L, F, R, C, n, S, f) ==
  /\ Within(Front(B, L, f), T) /\ Tally(F, n, C[f.suite], Front(B, L, f))
  /\ \A i \in 1 .. f.entry - 1 :
       L[f.suite][i] \in Suites => Reported(T, B, F, R, C, n, S, L[f.suite][i])

InRun(T, B, L, F, R, C, n, S) ==
  /\ Chain(L, S) /\ Visited(T, L, S)
  /\ n = 1 => \A u \in Suites : u \notin T => C[u] = 0
  /\ \A k \in 1 .. Len(S) : Running(T, B, L, F, R, C, n, S, S[k])

Counts(B, c) == \A s \in Suites : c[s] = Len(B[s])

SuiteInv ==
  /\ Nested(list) /\ OnePlace(list)
  /\ count \in [Suites -> Nat] /\ failCount \in [Suites -> Nat]
  /\ reports = [s \in Suites |-> reports[s]] /\ runs \in Nat
  /\ ~late => Counts(BelowOf(list), count)
  /\ runs = 0 => running = <<>> /\ \A s \in Suites : failCount[s] = 0
  /\ running # <<>> =>
       /\ Ran(BelowOf(list), list, running, ran)
       /\ \E T \in SUBSET Items :
            InRun(T, BelowOf(list), list, failed, reports, failCount, runs, running)

LEMMA FlatMapAgree ==
  ASSUME NEW A, NEW s \in Seq(A), NEW f, NEW h, \A i \in 1 .. Len(s) : f[s[i]] = h[s[i]]
  PROVE  FlatMap(f, s) = FlatMap(h, s)
<1>1. DOMAIN s = 1 .. Len(s)
  OBVIOUS
<1>2. Map(f, s) = Map(h, s)
  BY <1>1 DEF Map
<1> QED BY <1>2, Zenon DEF FlatMap

Grows(f, s, k) == FlatMap(f, SubSeq(s, 1, k)) = FlatMap(f, SubSeq(s, 1, k - 1)) \o f[s[k]]

LEMMA FlatMapNext ==
  ASSUME NEW A, NEW X, NEW f \in [A -> Seq(X)], NEW s \in Seq(A), NEW k \in 1 .. Len(s)
  PROVE  Grows(f, s, k)
<1> DEFINE p == SubSeq(s, 1, k - 1)
           a == s[k]
<1>1. p \in Seq(A) /\ a \in A /\ SubSeq(s, 1, k) = Append(p, a)
  OBVIOUS
<1> HIDE DEF p, a
<1>2. Append(p, a) = p \o <<a>> /\ <<a>> \in Seq(A)
  BY <1>1
<1>3. Joins(f, p, <<a>>)
  BY <1>1, <1>2, FlatMapConcat, Zenon
<1>4. FlatMap(f, <<a>>) = f[a]
  BY <1>1, FlatMapOne
<1>5. FlatMap(f, SubSeq(s, 1, k)) = FlatMap(f, p) \o f[a]
  BY <1>1, <1>2, <1>3, <1>4, Zenon DEF Joins
<1> QED BY <1>5 DEF p, a, Grows

\* f of what g makes of each is h of each of them.
Twice(f, g, h, s) == FlatMap(f, FlatMap(g, s)) = FlatMap(h, s)

LEMMA FlatMapTwice ==
  ASSUME NEW A, NEW X, NEW Y, NEW g \in [A -> Seq(X)], NEW f \in [X -> Seq(Y)],
         NEW s \in Seq(A), NEW h \in [A -> Seq(Y)],
         \A a \in A : h[a] = FlatMap(f, g[a])
  PROVE  Twice(f, g, h, s)
<1> DEFINE n == Len(s)
           T == {k \in 0 .. n : FlatMap(f, FlatMap(g, SubSeq(s, 1, k))) = FlatMap(h, SubSeq(s, 1, k))}
<1>1. n \in Nat /\ SubSeq(s, 1, 0) = <<>> /\ SubSeq(s, 1, n) = s
  OBVIOUS
<1>2. h \in [A -> Seq(Y)]
  OBVIOUS
<1>3. 0 \in T
  <2>1. FlatMap(g, <<>>) = <<>> /\ FlatMap(f, <<>>) = <<>> /\ FlatMap(h, <<>>) = <<>>
    BY FlatMapEmpty
  <2>2. 0 \in 0 .. n
    BY <1>1
  <2> HIDE DEF n
  <2> QED BY <1>1, <2>1, <2>2, Zenon
<1>4. ASSUME NEW k \in 0 .. n - 1, k \in T PROVE k + 1 \in T
  <2> DEFINE p == SubSeq(s, 1, k)
             q == SubSeq(s, 1, k + 1)
             a == s[k + 1]
  <2>1. k + 1 \in 1 .. Len(s) /\ (k + 1) - 1 = k /\ k + 1 \in 0 .. n
    BY <1>1
  <2>2. a \in A /\ p \in Seq(A)
    BY <2>1
  <2>3. FlatMap(g, q) = FlatMap(g, p) \o g[a]
    <3>1. FlatMap(g, SubSeq(s, 1, k + 1)) = FlatMap(g, SubSeq(s, 1, (k + 1) - 1)) \o g[s[k + 1]]
      <4>1. Grows(g, s, k + 1)
        BY <1>2, <2>1, FlatMapNext, Zenon
      <4> QED BY <4>1, Zenon DEF Grows
    <3> QED BY <2>1, <3>1, Zenon
  <2>4. FlatMap(h, q) = FlatMap(h, p) \o h[a]
    <3>1. FlatMap(h, SubSeq(s, 1, k + 1)) = FlatMap(h, SubSeq(s, 1, (k + 1) - 1)) \o h[s[k + 1]]
      <4>1. Grows(h, s, k + 1)
        BY <1>2, <2>1, FlatMapNext, Zenon
      <4> QED BY <4>1, Zenon DEF Grows
    <3> QED BY <2>1, <3>1, Zenon
  <2>5. FlatMap(g, p) \in Seq(X) /\ g[a] \in Seq(X)
    BY <2>2, FlatMapType
  <2>6. h[a] = FlatMap(f, g[a])
    BY <2>2
  <2> HIDE DEF p, q, a, n
  <2>7. Joins(f, FlatMap(g, p), g[a])
    BY <2>5, FlatMapConcat
  <2>8. FlatMap(f, FlatMap(g, p)) = FlatMap(h, p)
    BY <1>4, Zenon DEF p
  <2>9. FlatMap(f, FlatMap(g, q)) = FlatMap(h, q)
    BY <2>3, <2>4, <2>6, <2>7, <2>8, Zenon DEF Joins
  <2> QED BY <2>1, <2>9, Zenon DEF q
<1>5. n \in T
  <2> HIDE DEF T, n
  <2> QED BY <1>1, <1>3, <1>4, Upward
<1> QED BY <1>1, <1>5, Zenon DEF Twice

\* Where f makes one of each, they are as many.
Singles(f, h, s) == FlatMap(h, s) = [i \in DOMAIN s |-> f[s[i]]]

LEMMA FlatMapSingle ==
  ASSUME NEW A, NEW X, NEW f \in [A -> X], NEW s \in Seq(A),
         NEW h \in [A -> Seq(X)], \A a \in A : h[a] = <<f[a]>>
  PROVE  Singles(f, h, s)
<1> DEFINE n == Len(s)
           r(k) == [i \in 1 .. k |-> f[s[i]]]
           T == {k \in 0 .. n : FlatMap(h, SubSeq(s, 1, k)) = r(k)}
<1>1. n \in Nat /\ SubSeq(s, 1, 0) = <<>> /\ SubSeq(s, 1, n) = s /\ DOMAIN s = 1 .. n
      /\ r(0) = <<>>
  OBVIOUS
<1>2. h \in [A -> Seq(X)]
  OBVIOUS
<1>3. 0 \in T
  <2>1. FlatMap(h, <<>>) = <<>> /\ 0 \in 0 .. n
    BY <1>1, FlatMapEmpty
  <2> HIDE DEF n, r
  <2> QED BY <1>1, <2>1, Zenon
<1>4. ASSUME NEW k \in 0 .. n - 1, k \in T PROVE k + 1 \in T
  <2>1. k + 1 \in 1 .. Len(s) /\ (k + 1) - 1 = k /\ k + 1 \in 0 .. n /\ s[k + 1] \in A /\ k \in Nat
    BY <1>1
  <2>2. FlatMap(h, SubSeq(s, 1, k + 1)) = FlatMap(h, SubSeq(s, 1, k)) \o h[s[k + 1]]
    <3>1. Grows(h, s, k + 1)
      BY <1>2, <2>1, FlatMapNext, Zenon
    <3> QED BY <2>1, <3>1, Zenon DEF Grows
  <2>3. h[s[k + 1]] = <<f[s[k + 1]]>>
    BY <2>1
  <2>4. r(k) \o <<f[s[k + 1]]>> = r(k + 1)
    <3> DEFINE x == f[s[k + 1]]
               p == r(k)
    <3>1. \A i \in 1 .. k : s[i] \in A
      BY <1>1, <2>1
    <3>2. p \in Seq(X) /\ Len(p) = k /\ x \in X /\ \A i \in 1 .. k : p[i] = f[s[i]]
      BY <2>1, <3>1
    <3>3. r(k + 1) \in Seq(X) /\ Len(r(k + 1)) = k + 1
          /\ \A i \in 1 .. k + 1 : r(k + 1)[i] = IF i = k + 1 THEN x ELSE f[s[i]]
      BY <2>1, <3>1
    <3> HIDE DEF p, x
    <3>4. p \o <<x>> = Append(p, x) /\ Append(p, x) \in Seq(X) /\ Len(Append(p, x)) = k + 1
          /\ \A i \in 1 .. k + 1 : Append(p, x)[i] = IF i = k + 1 THEN x ELSE p[i]
      BY <2>1, <3>2
    <3> DEFINE w == r(k + 1)
    <3>5. \A i \in 1 .. k + 1 : Append(p, x)[i] = w[i]
      BY <2>1, <3>2, <3>3, <3>4
    <3> HIDE DEF w, r
    <3>6. Append(p, x) = w
      BY <3>3, <3>4, <3>5, SeqEqual DEF w
    <3> QED BY <3>4, <3>6 DEF p, x, w
  <2>5. FlatMap(h, SubSeq(s, 1, k)) = r(k)
    BY <1>4
  <2> HIDE DEF r
  <2>6. FlatMap(h, SubSeq(s, 1, k + 1)) = r(k + 1)
    BY <2>2, <2>3, <2>4, <2>5, Zenon
  <2> QED BY <2>1, <2>6
<1>5. n \in T
  <2> HIDE DEF T, n
  <2> QED BY <1>1, <1>3, <1>4, Upward
<1>6. r(n) = [i \in DOMAIN s |-> f[s[i]]]
  BY <1>1
<1> QED BY <1>1, <1>5, <1>6, Zenon DEF Singles

-----------------------------------------------------------------------------
LEMMA PieceType ==
  ASSUME NEW B \in [Suites -> Seq(Tests)]
  PROVE  /\ Piece(B) \in [Items -> Seq(Tests)]
         /\ \A u \in Suites : Piece(B)[u] = B[u]
         /\ \A t \in Tests : Piece(B)[t] = <<t>> /\ t \notin Suites
<1>1. \A t \in Tests : t \notin Suites /\ <<t>> \in Seq(Tests)
  BY SuiteAssumption
<1> QED BY <1>1 DEF Piece, Items

LEMMA UnfoldType ==
  ASSUME NEW L, Nested(L), NEW B \in [Suites -> Seq(Tests)]
  PROVE  Unfold(B, L) \in [Suites -> Seq(Tests)]
<1>1. ASSUME NEW s \in Suites PROVE FlatMap(Piece(B), L[s]) \in Seq(Tests)
  <2>1. L[s] \in Seq(Items) /\ Piece(B) \in [Items -> Seq(Tests)]
    BY PieceType DEF Nested
  <2> QED BY <2>1, FlatMapType
<1> QED BY <1>1 DEF Unfold

\* Suites that agree on what is put into one agree on it.
LEMMA UnfoldAgree ==
  ASSUME NEW L, Nested(L), NEW s \in Suites, NEW B, NEW C,
         \A u \in Suites : u > s => B[u] = C[u]
  PROVE  Unfold(B, L)[s] = Unfold(C, L)[s]
<1>1. L[s] \in Seq(Items) /\ \A i \in 1 .. Len(L[s]) : L[s][i] \in Items
  BY DEF Nested
<1>2. ASSUME NEW i \in 1 .. Len(L[s]) PROVE Piece(B)[L[s][i]] = Piece(C)[L[s][i]]
  BY <1>1 DEF Piece, Nested
<1>3. FlatMap(Piece(B), L[s]) = FlatMap(Piece(C), L[s])
  BY <1>1, <1>2, FlatMapAgree
<1> QED BY <1>3 DEF Unfold

LEMMA SuitesBounded == \E m \in Nat : \A s \in Suites : s < m
<1>a. PICK n \in Nat : \E f : f \in Bijection(1 .. n, Suites)
  BY SuiteAssumption, FS_CardinalityType DEF ExistsBijection
<1>1. PICK f : f \in Bijection(1 .. n, Suites)
  BY <1>a
<1>2. f \in [1 .. n -> Suites] /\ \A s \in Suites : \E i \in 1 .. n : f[i] = s
  BY <1>1 DEF Bijection, Surjection
<1> DEFINE T == {k \in 0 .. n : \E m \in Nat : \A i \in 1 .. k : f[i] < m}
<1>3. 0 \in T
  OBVIOUS
<1>4. ASSUME NEW k \in 0 .. n - 1, k \in T PROVE k + 1 \in T
  <2>1. PICK m \in Nat : \A i \in 1 .. k : f[i] < m
    BY <1>4
  <2>2. k + 1 \in 1 .. n /\ f[k + 1] \in Nat /\ \A i \in 1 .. k : f[i] \in Nat
    <3>1. k \in Nat /\ k + 1 \in 1 .. n /\ \A i \in 1 .. k : i \in 1 .. n
      OBVIOUS
    <3>2. \A i \in 1 .. n : f[i] \in Nat
      BY <1>2, SuiteAssumption
    <3> QED BY <3>1, <3>2
  <2>3. \A i \in 1 .. k + 1 : f[i] < m + f[k + 1] + 1
    BY <2>1, <2>2
  <2>4. m + f[k + 1] + 1 \in Nat /\ k + 1 \in 0 .. n
    BY <2>2
  <2> QED BY <2>3, <2>4
<1>5. n \in T
  <2> HIDE DEF T
  <2> QED BY <1>3, <1>4, Upward
<1>6. PICK m \in Nat : \A i \in 1 .. n : f[i] < m
  BY <1>5
<1> QED BY <1>2, <1>6

LEMMA BelowExists ==
  ASSUME NEW L, Nested(L)
  PROVE  \E B \in [Suites -> Seq(Tests)] : B = Unfold(B, L)
<1>1. PICK m \in Nat : \A s \in Suites : s < m
  BY SuitesBounded
<1> DEFINE Y == [Suites -> Seq(Tests)]
           a == [s \in Suites |-> <<>>]
           f == [p \in (1 .. m) \X Y |-> Unfold(p[2], L)]
<1>2. a \in Y /\ f \in [(1 .. m) \X Y -> Y]
  <2>1. a \in Y
    OBVIOUS
  <2>2. ASSUME NEW p \in (1 .. m) \X Y PROVE Unfold(p[2], L) \in Y
    BY UnfoldType
  <2> QED BY <2>1, <2>2
<1> HIDE DEF Y, a
<1>3. PICK g : Iterates(g, Y, a, m, f)
  <2> HIDE DEF f
  <2> QED BY <1>2, Recursion
<1>4. \A i \in 0 .. m : g[i] \in Y
  BY <1>3 DEF Iterates
<1>5. ASSUME NEW i \in 1 .. m PROVE g[i] = Unfold(g[i - 1], L)
  <2>1. g[i] = f[<<i, g[i - 1]>>] /\ i - 1 \in 0 .. m
    <3>1. g[i] = f[<<i, g[i - 1]>>]
      BY <1>3, Zenon DEF Iterates
    <3> QED BY <3>1
  <2>2. <<i, g[i - 1]>> \in (1 .. m) \X Y
    BY <1>4, <2>1
  <2> QED BY <2>1, <2>2
<1> HIDE DEF f
<1> DEFINE T == {k \in 0 .. m : \A s \in Suites : s >= m - k => g[k][s] = Unfold(g[k], L)[s]}
<1>6. 0 \in T
  BY <1>1, SuiteAssumption
<1>7. ASSUME NEW k \in 0 .. m - 1, k \in T PROVE k + 1 \in T
  <2>1. k + 1 \in 1 .. m /\ (k + 1) - 1 = k /\ k + 1 \in 0 .. m
    OBVIOUS
  <2>2. g[k + 1] = Unfold(g[k], L)
    BY <1>5, <2>1
  <2>3. ASSUME NEW s \in Suites, s >= m - (k + 1) PROVE g[k + 1][s] = Unfold(g[k + 1], L)[s]
    <3>1. ASSUME NEW u \in Suites, u > s PROVE g[k][u] = g[k + 1][u]
      <4>1. u >= m - k
        BY <2>1, <2>3, <3>1, SuiteAssumption
      <4>2. g[k][u] = Unfold(g[k], L)[u]
        BY <1>7, <4>1
      <4> QED BY <2>2, <4>2
    <3>2. Unfold(g[k], L)[s] = Unfold(g[k + 1], L)[s]
      BY <3>1, UnfoldAgree
    <3> QED BY <2>2, <3>2
  <2> QED BY <2>1, <2>3
<1>8. m \in T
  <2> HIDE DEF T
  <2> QED BY <1>1, <1>6, <1>7, Upward
<1>9. g[m] \in Y /\ \A s \in Suites : g[m][s] = Unfold(g[m], L)[s]
  <2>1. m \in 0 .. m /\ \A s \in Suites : s >= m - m
    BY SuiteAssumption
  <2>2. \A s \in Suites : s >= m - m => g[m][s] = Unfold(g[m], L)[s]
    BY <1>8, Zenon
  <2> QED BY <1>4, <2>1, <2>2
<1>10. Unfold(g[m], L) \in Y
  BY <1>9, UnfoldType DEF Y
<1> DEFINE b == g[m]
           c == Unfold(b, L)
<1>11. b = c
  <2>1. b \in Y /\ c \in Y /\ \A s \in Suites : b[s] = c[s]
    BY <1>9, <1>10
  <2> HIDE DEF b, c
  <2> QED BY <2>1 DEF Y
<1> QED BY <1>9, <1>11 DEF Y

LEMMA BelowUnique ==
  ASSUME NEW L, Nested(L), NEW B, B = Unfold(B, L), NEW C, C = Unfold(C, L)
  PROVE  B = C
<1>1. PICK m \in Nat : \A s \in Suites : s < m
  BY SuitesBounded
<1> DEFINE T == {k \in 0 .. m : \A s \in Suites : s >= m - k => B[s] = C[s]}
<1>2. 0 \in T
  BY <1>1, SuiteAssumption
<1>3. ASSUME NEW k \in 0 .. m - 1, k \in T PROVE k + 1 \in T
  <2>1. ASSUME NEW s \in Suites, s >= m - (k + 1) PROVE B[s] = C[s]
    <3>1. ASSUME NEW u \in Suites, u > s PROVE B[u] = C[u]
      <4>1. u >= m - k
        BY <2>1, <3>1, SuiteAssumption
      <4> QED BY <1>3, <4>1
    <3>2. Unfold(B, L)[s] = Unfold(C, L)[s]
      BY <3>1, UnfoldAgree
    <3> QED BY <3>2
  <2> QED BY <2>1
<1>4. m \in T
  <2> HIDE DEF T
  <2> QED BY <1>1, <1>2, <1>3, Upward
<1>5. \A s \in Suites : B[s] = C[s]
  BY <1>4, SuiteAssumption
<1>6. B = [s \in Suites |-> B[s]] /\ C = [s \in Suites |-> C[s]]
  BY DEF Unfold
<1> QED BY <1>5, <1>6

LEMMA BelowIs ==
  ASSUME NEW L, Nested(L)
  PROVE  /\ BelowOf(L) \in [Suites -> Seq(Tests)]
         /\ \A s \in Suites : BelowOf(L)[s] = FlatMap(Piece(BelowOf(L)), L[s])
         /\ \A C : C = Unfold(C, L) => C = BelowOf(L)
<1> DEFINE U(B) == [s \in Suites |->
                Ext!FlattenSeq([i \in DOMAIN L[s] |->
                  IF L[s][i] \in Suites THEN B[L[s][i]] ELSE <<L[s][i]>>])]
<1>1. ASSUME NEW B PROVE U(B) = Unfold(B, L)
  <2>1. ASSUME NEW s \in Suites
        PROVE  [i \in DOMAIN L[s] |-> IF L[s][i] \in Suites THEN B[L[s][i]] ELSE <<L[s][i]>>]
                 = Map(Piece(B), L[s])
    <3>1. \A i \in DOMAIN L[s] : L[s][i] \in Items
      BY DEF Nested
    <3> QED BY <3>1 DEF Map, Piece
  <2> QED BY <2>1, Zenon DEF Unfold, FlatMap
<1>2. BelowOf(L) = CHOOSE B : B = U(B)
  BY Zenon DEF BelowOf
<1> HIDE DEF U
<1>3. PICK B \in [Suites -> Seq(Tests)] : B = Unfold(B, L)
  BY BelowExists
<1>4. \E C : C = U(C)
  BY <1>1, <1>3
<1>5. BelowOf(L) = U(BelowOf(L))
  BY <1>2, <1>4, Zenon
<1>6. BelowOf(L) = Unfold(BelowOf(L), L)
  BY <1>1, <1>5
<1>7. \A C : C = Unfold(C, L) => C = BelowOf(L)
  BY <1>6, BelowUnique
<1>8. BelowOf(L) = B
  BY <1>3, <1>7
<1>9. \A s \in Suites : BelowOf(L)[s] = FlatMap(Piece(BelowOf(L)), L[s])
  BY <1>6 DEF Unfold
<1> QED BY <1>3, <1>7, <1>8, <1>9, Zenon

LEMMA SuiteBelow == Suite!Below = BelowOf(list)
  BY Zenon DEF Suite!Below, BelowOf, Suite!FlattenSeq, Ext!FlattenSeq

\* What is put into a suite that nothing lists it.
Unlisted(L, e) == \A r \in Suites : \A i \in 1 .. Len(L[r]) : L[r][i] # e
Put(L, s, e) == [L EXCEPT ![s] = Append(@, e)]

LEMMA PutIs ==
  ASSUME NEW L, Nested(L), NEW s \in Suites, NEW e \in Items
  PROVE  /\ \A r \in Suites : L[r] \in Seq(Items) /\ Len(L[r]) \in Nat
         /\ \A r \in Suites : r # s => Put(L, s, e)[r] = L[r]
         /\ Put(L, s, e)[s] = Append(L[s], e) /\ Len(Put(L, s, e)[s]) = Len(L[s]) + 1
         /\ Put(L, s, e)[s][Len(L[s]) + 1] = e
         /\ \A i \in 1 .. Len(L[s]) : Put(L, s, e)[s][i] = L[s][i]
         /\ Put(L, s, e) \in [Suites -> Seq(Items)]
<1>1. L \in [Suites -> Seq(Items)]
  BY DEF Nested
<1>2. \A r \in Suites : L[r] \in Seq(Items) /\ Len(L[r]) \in Nat
  BY <1>1
<1>3. Put(L, s, e)[s] = Append(L[s], e) /\ \A r \in Suites : r # s => Put(L, s, e)[r] = L[r]
  BY <1>1 DEF Put
<1>4. Append(L[s], e) \in Seq(Items) /\ Len(Append(L[s], e)) = Len(L[s]) + 1
      /\ Append(L[s], e)[Len(L[s]) + 1] = e
      /\ \A i \in 1 .. Len(L[s]) : Append(L[s], e)[i] = L[s][i]
  BY <1>2
<1>5. Put(L, s, e) \in [Suites -> Seq(Items)]
  BY <1>1, <1>4 DEF Put
<1> QED BY <1>2, <1>3, <1>4, <1>5

LEMMA PutNested ==
  ASSUME NEW L, Nested(L), OnePlace(L), NEW s \in Suites, NEW e \in Items, Unlisted(L, e),
         e \in Suites => e > s
  PROVE  Nested(Put(L, s, e)) /\ OnePlace(Put(L, s, e))
<1> DEFINE M == Put(L, s, e)
<1>1. /\ \A r \in Suites : L[r] \in Seq(Items) /\ Len(L[r]) \in Nat
      /\ \A r \in Suites : r # s => M[r] = L[r]
      /\ Len(M[s]) = Len(L[s]) + 1
      /\ M[s][Len(L[s]) + 1] = e
      /\ \A i \in 1 .. Len(L[s]) : M[s][i] = L[s][i]
      /\ M \in [Suites -> Seq(Items)]
  BY PutIs
<1> HIDE DEF M
<1>2. ASSUME NEW r \in Suites, NEW i \in 1 .. Len(M[r])
      PROVE  (r = s /\ i = Len(L[s]) + 1 /\ M[r][i] = e) \/ (i \in 1 .. Len(L[r]) /\ M[r][i] = L[r][i])
  <2>1. CASE r = s
    <3>1. i = Len(L[s]) + 1 \/ i \in 1 .. Len(L[s])
      BY <1>1, <2>1
    <3> QED BY <1>1, <2>1, <3>1
  <2>2. CASE r # s
    BY <1>1, <2>2
  <2> QED BY <2>1, <2>2
<1>3. ASSUME NEW r \in Suites, NEW i \in 1 .. Len(M[r]), M[r][i] \in Suites PROVE M[r][i] > r
  BY <1>2, <1>3 DEF Nested
<1>4. ASSUME NEW r \in Suites, NEW q \in Suites, NEW i \in 1 .. Len(M[r]), NEW j \in 1 .. Len(M[q]),
             M[r][i] = M[q][j]
      PROVE  r = q /\ i = j
  <2>1. CASE M[r][i] = e
    <3>1. r = s /\ i = Len(L[s]) + 1
      BY <1>2, <2>1 DEF Unlisted
    <3>2. q = s /\ j = Len(L[s]) + 1
      BY <1>2, <1>4, <2>1 DEF Unlisted
    <3> QED BY <3>1, <3>2
  <2>2. CASE M[r][i] # e
    <3>1. i \in 1 .. Len(L[r]) /\ M[r][i] = L[r][i]
      BY <1>2, <2>2, Zenon
    <3>2. j \in 1 .. Len(L[q]) /\ M[q][j] = L[q][j]
      BY <1>2, <1>4, <2>2, Zenon
    <3>3. L[r][i] = L[q][j]
      BY <1>4, <3>1, <3>2, Zenon
    <3>4. i \in 1 .. Len(L[r]) /\ j \in 1 .. Len(L[q])
      BY <3>1, <3>2
    <3> QED BY <3>3, <3>4 DEF OnePlace
  <2> QED BY <2>1, <2>2
<1>5. Nested(M)
  BY <1>1, <1>3, Zenon DEF Nested
<1>6. OnePlace(M)
  BY <1>4, Zenon DEF OnePlace
<1> QED BY <1>5, <1>6 DEF M

\* A suite that nothing lists yet gets what is below the new entry.
LEMMA PutCounts ==
  ASSUME NEW L, Nested(L), OnePlace(L), NEW s \in Suites, NEW e \in Items, Unlisted(L, e),
         e \in Suites => e > s, Unlisted(L, s), NEW c, Counts(BelowOf(L), c),
         c \in [Suites -> Nat]
  PROVE  Counts(BelowOf(Put(L, s, e)), [c EXCEPT ![s] = @ + Len(Piece(BelowOf(L))[e])])
<1> DEFINE M == Put(L, s, e)
           B == BelowOf(L)
           C == [v \in Suites |-> IF v = s THEN B[s] \o Piece(B)[e] ELSE B[v]]
<1>1. /\ \A r \in Suites : L[r] \in Seq(Items) /\ Len(L[r]) \in Nat
      /\ \A r \in Suites : r # s => M[r] = L[r]
      /\ M[s] = Append(L[s], e)
  BY PutIs
<1>2. B \in [Suites -> Seq(Tests)] /\ \A r \in Suites : B[r] = FlatMap(Piece(B), L[r])
  <2>1. B \in [Suites -> Seq(Tests)]
    BY BelowIs
  <2> QED BY <2>1, BelowIs
<1>3. Nested(M)
  BY PutNested
<1>4. e # s
  BY SuiteAssumption DEF Items
<1> HIDE DEF M, B
<1>5. Piece(B) \in [Items -> Seq(Tests)] /\ Piece(B)[e] \in Seq(Tests)
  <2>1. Piece(B) \in [Items -> Seq(Tests)]
    BY <1>2, PieceType
  <2> QED BY <2>1
<1>6. \A x \in Items : x # s => Piece(C)[x] = Piece(B)[x]
  BY DEF Piece
<1>7. ASSUME NEW r \in Suites PROVE FlatMap(Piece(C), L[r]) = B[r]
  <2>1. \A i \in 1 .. Len(L[r]) : L[r][i] \in Items
    BY <1>1
  <2>2. \A i \in 1 .. Len(L[r]) : Piece(C)[L[r][i]] = Piece(B)[L[r][i]]
    <3> HIDE DEF C
    <3> QED BY <1>6, <2>1, Zenon DEF Unlisted
  <2>3. FlatMap(Piece(C), L[r]) = FlatMap(Piece(B), L[r])
    <3> HIDE DEF C
    <3> QED BY <1>1, <2>2, FlatMapAgree
  <2> QED BY <1>2, <2>3
<1>8. C \in [Suites -> Seq(Tests)]
  <2>1. B[s] \o Piece(B)[e] \in Seq(Tests)
    BY <1>2, <1>5
  <2> QED BY <1>2, <2>1
<1>9. FlatMap(Piece(C), M[s]) = B[s] \o Piece(B)[e]
  <2>1. <<e>> \in Seq(Items) /\ Append(L[s], e) = L[s] \o <<e>> /\ L[s] \in Seq(Items)
    BY <1>1
  <2>2. Piece(C) \in [Items -> Seq(Tests)] /\ Piece(C)[e] = Piece(B)[e]
    <3> HIDE DEF C
    <3>1. Piece(C) \in [Items -> Seq(Tests)]
      BY <1>8, PieceType
    <3> QED BY <1>4, <1>6, <3>1
  <2> HIDE DEF C
  <2>3. Joins(Piece(C), L[s], <<e>>)
    BY <2>1, <2>2, FlatMapConcat, Zenon
  <2>4. FlatMap(Piece(C), <<e>>) = Piece(C)[e]
    BY <2>2, FlatMapOne
  <2> QED BY <1>1, <1>7, <2>1, <2>2, <2>3, <2>4, Zenon DEF Joins
<1>10. C = Unfold(C, M)
  <2>1. \A r \in Suites : C[r] = FlatMap(Piece(C), M[r])
    <3>1. C[s] = B[s] \o Piece(B)[e] /\ \A r \in Suites : r # s => C[r] = B[r]
      OBVIOUS
    <3> HIDE DEF C
    <3> QED BY <1>1, <1>7, <1>9, <3>1
  <2>2. C = [r \in Suites |-> C[r]]
    OBVIOUS
  <2> HIDE DEF C
  <2> QED BY <2>1, <2>2 DEF Unfold
<1>11. BelowOf(M) = C
  <2> HIDE DEF C
  <2> QED BY <1>3, <1>10, BelowIs
<1>12. ASSUME NEW r \in Suites
       PROVE  [c EXCEPT ![s] = @ + Len(Piece(B)[e])][r] = Len(C[r])
  <2>1. c[r] = Len(B[r]) /\ c[s] = Len(B[s])
    BY DEF Counts, B
  <2>2. CASE r = s
    <3>1. Len(B[s] \o Piece(B)[e]) = Len(B[s]) + Len(Piece(B)[e])
      BY <1>2, <1>5
    <3> QED BY <2>1, <2>2, <3>1
  <2>3. CASE r # s
    BY <2>1, <2>3
  <2> QED BY <2>2, <2>3
<1> HIDE DEF C
<1> QED BY <1>11, <1>12 DEF Counts, M, B

-----------------------------------------------------------------------------
Frames == [suite : Suites, entry : Nat]
Unfolds(B, L) == /\ B \in [Suites -> Seq(Tests)]
                 /\ \A s \in Suites : B[s] = FlatMap(Piece(B), L[s])
Onward(f) == [f EXCEPT !.entry = @ + 1]

LEMMA FrontIs ==
  ASSUME NEW L, Nested(L), NEW B, Unfolds(B, L), NEW f \in Frames,
         f.entry \in 1 .. Len(L[f.suite]) + 1
  PROVE  /\ Front(B, L, f) \in Seq(Tests)
         /\ f.entry = 1 => Front(B, L, f) = <<>>
         /\ f.entry <= Len(L[f.suite]) =>
              Front(B, L, Onward(f)) = Front(B, L, f) \o Piece(B)[L[f.suite][f.entry]]
         /\ f.entry > Len(L[f.suite]) => Front(B, L, f) = B[f.suite]
<1> DEFINE l == L[f.suite]
           k == f.entry
<1>1. l \in Seq(Items) /\ k \in 1 .. Len(l) + 1 /\ Len(l) \in Nat /\ f.suite \in Suites
  BY DEF Nested, Frames
<1>2. Piece(B) \in [Items -> Seq(Tests)]
  BY PieceType DEF Unfolds
<1>3. Onward(f).suite = f.suite /\ Onward(f).entry = f.entry + 1 /\ (k + 1) - 1 = k
  BY <1>1 DEF Onward, Frames
<1>4. Front(B, L, f) = FlatMap(Piece(B), SubSeq(l, 1, k - 1))
      /\ Front(B, L, Onward(f)) = FlatMap(Piece(B), SubSeq(l, 1, k))
  BY <1>3 DEF Front
<1> HIDE DEF l, k
<1>5. SubSeq(l, 1, k - 1) \in Seq(Items) /\ (k = 1 => SubSeq(l, 1, k - 1) = <<>>)
      /\ (k > Len(l) => SubSeq(l, 1, k - 1) = l)
  BY <1>1
<1>6. Front(B, L, f) \in Seq(Tests)
  <2>1. FlatMap(Piece(B), SubSeq(l, 1, k - 1)) \in Seq(Tests)
    BY <1>2, <1>5, FlatMapType
  <2> QED BY <1>4, <2>1, Zenon
<1>7. k = 1 => Front(B, L, f) = <<>>
  BY <1>4, <1>5, FlatMapEmpty
<1>8. ASSUME k <= Len(l) PROVE Front(B, L, Onward(f)) = Front(B, L, f) \o Piece(B)[l[k]]
  <2>1. k \in 1 .. Len(l)
    BY <1>1, <1>8
  <2> QED BY <1>1, <1>2, <1>4, <2>1, FlatMapNext DEF Grows
<1>9. ASSUME k > Len(l) PROVE Front(B, L, f) = B[f.suite]
  <2>1. SubSeq(l, 1, k - 1) = l
    BY <1>5, <1>9
  <2> QED BY <1>1, <1>4, <2>1 DEF Unfolds, l
<1> QED BY <1>6, <1>7, <1>8, <1>9 DEF l, k

LEMMA FaultsType ==
  ASSUME NEW F, NEW q \in Seq(Tests)
  PROVE  /\ Faults(F) \in [Tests -> Seq(Tests)] /\ FlatMap(Faults(F), q) \in Seq(Tests)
         /\ Len(FlatMap(Faults(F), q)) \in Nat
         /\ Marks(F) \in [Tests -> Seq({"F", "."})] /\ FlatMap(Marks(F), q) \in Seq({"F", "."})
<1>1. Faults(F) \in [Tests -> Seq(Tests)]
  BY DEF Faults
<1>2. Marks(F) \in [Tests -> Seq({"F", "."})]
  <2>1. <<"F">> \in Seq({"F", "."}) /\ <<".">> \in Seq({"F", "."})
    OBVIOUS
  <2> QED BY <2>1, Zenon DEF Marks
<1>3. FlatMap(Faults(F), q) \in Seq(Tests)
  BY <1>1, FlatMapType
<1>4. FlatMap(Marks(F), q) \in Seq({"F", "."})
  BY <1>2, FlatMapType
<1> QED BY <1>1, <1>2, <1>3, <1>4, LenProperties

\* Marks that are set elsewhere.
Agree(F, F2, T) == \A t \in T : t \in F2 <=> t \in F

LEMMA FaultsSame ==
  ASSUME NEW F, NEW F2, NEW T, Agree(F, F2, T), NEW q \in Seq(Tests), Within(q, T)
  PROVE  /\ FlatMap(Faults(F2), q) = FlatMap(Faults(F), q)
         /\ FlatMap(Marks(F2), q) = FlatMap(Marks(F), q)
<1>1. \A i \in 1 .. Len(q) : q[i] \in Tests /\ (q[i] \in F2 <=> q[i] \in F)
  BY DEF Agree, Within
<1>2. \A i \in 1 .. Len(q) : Faults(F2)[q[i]] = Faults(F)[q[i]]
  BY <1>1 DEF Faults
<1>3. \A i \in 1 .. Len(q) : Marks(F2)[q[i]] = Marks(F)[q[i]]
  BY <1>1 DEF Marks
<1>4. FlatMap(Faults(F2), q) = FlatMap(Faults(F), q)
  BY <1>2, FlatMapAgree
<1>5. FlatMap(Marks(F2), q) = FlatMap(Marks(F), q)
  BY <1>3, FlatMapAgree
<1> QED BY <1>4, <1>5

LEMMA TallySame ==
  ASSUME NEW F, NEW F2, NEW T, Agree(F, F2, T), NEW q \in Seq(Tests), Within(q, T),
         NEW n, NEW c, Tally(F, n, c, q)
  PROVE  Tally(F2, n, c, q)
  BY FaultsSame, Zenon DEF Tally

LEMMA TallyJoins ==
  ASSUME NEW F, NEW n, NEW p \in Seq(Tests), NEW q \in Seq(Tests), NEW c, NEW d,
         Tally(F, n, c, p), Tally(F, n, d, q)
  PROVE  Tally(F, n, c + d, p \o q)
<1> DEFINE P == FlatMap(Faults(F), p)
           Q == FlatMap(Faults(F), q)
<1>1. P \in Seq(Tests) /\ Q \in Seq(Tests)
  BY FaultsType
<1>2. FlatMap(Faults(F), p \o q) = P \o Q
  <2>1. Faults(F) \in [Tests -> Seq(Tests)]
    BY FaultsType
  <2>2. Joins(Faults(F), p, q)
    BY <2>1, FlatMapConcat
  <2> QED BY <2>2, Zenon DEF Joins
<1>3. c \in Nat /\ d \in Nat /\ Len(P) <= c /\ Len(Q) <= d
      /\ (n = 1 => c = Len(P) /\ d = Len(Q))
  BY Zenon DEF Tally
<1> HIDE DEF P, Q
<1>4. Len(P \o Q) = Len(P) + Len(Q) /\ Len(P) \in Nat /\ Len(Q) \in Nat
  BY <1>1
<1>5. c + d \in Nat /\ Len(P \o Q) <= c + d /\ (n = 1 => c + d = Len(P \o Q))
  BY <1>3, <1>4
<1> QED BY <1>2, <1>5, Zenon DEF Tally

LEMMA TallyNone == ASSUME NEW F, NEW n PROVE Tally(F, n, 0, <<>>)
<1>1. FlatMap(Faults(F), <<>>) = <<>>
  BY FlatMapEmpty
<1>2. Len(<<>>) = 0 /\ 0 \in Nat /\ 0 <= 0
  OBVIOUS
<1> QED BY <1>1, <1>2, Zenon DEF Tally

LEMMA TallyOne ==
  ASSUME NEW F, NEW n, NEW t \in Tests PROVE Tally(F, n, IF t \in F THEN 1 ELSE 0, <<t>>)
<1>1. Faults(F) \in [Tests -> Seq(Tests)]
  BY DEF Faults
<1>2. FlatMap(Faults(F), <<t>>) = Faults(F)[t]
  BY <1>1, FlatMapOne
<1>3. Faults(F)[t] = IF t \in F THEN <<t>> ELSE <<>>
  BY DEF Faults
<1> QED BY <1>2, <1>3 DEF Tally

LEMMA WithinJoins ==
  ASSUME NEW T, NEW p \in Seq(Tests), NEW q \in Seq(Tests), Within(p, T), Within(q, T)
  PROVE  Within(p \o q, T)
<1>1. ASSUME NEW i \in 1 .. Len(p \o q) PROVE (p \o q)[i] \in T
  <2>1. CASE i \in 1 .. Len(p)
    <3>1. (p \o q)[i] = p[i]
      BY <2>1
    <3> QED BY <2>1, <3>1 DEF Within
  <2>2. CASE i \notin 1 .. Len(p)
    <3>1. (p \o q)[i] = q[i - Len(p)] /\ i - Len(p) \in 1 .. Len(q)
      BY <2>2
    <3> QED BY <3>1 DEF Within
  <2> QED BY <2>1, <2>2
<1> QED BY <1>1 DEF Within

LEMMA WithinMore ==
  ASSUME NEW T, NEW T2, T \subseteq T2, NEW q, Within(q, T) PROVE Within(q, T2)
  BY DEF Within

-----------------------------------------------------------------------------
Open(S, u) == \E k \in 1 .. Len(S) : S[k].suite = u

\* What has run stays as it is.
LEMMA ReportedStays ==
  ASSUME NEW T, NEW B \in [Suites -> Seq(Tests)], NEW F, NEW R, NEW C, NEW n, NEW S,
         NEW u \in Suites,
         Reported(T, B, F, R, C, n, S, u), NEW T2, T \subseteq T2, NEW F2, Agree(F, F2, T),
         NEW S2, ~Open(S2, u), NEW R2, NEW C2, R2[u] = R[u], C2[u] = C[u]
  PROVE  Reported(T2, B, F2, R2, C2, n, S2, u)
<1>1. /\ u \in T /\ Within(B[u], T) /\ Tally(F, n, C[u], B[u])
      /\ R[u].summary = FlatMap(Marks(F), B[u]) /\ R[u].lines = FlatMap(Faults(F), B[u])
  BY Zenon DEF Reported
<1>2. B[u] \in Seq(Tests)
  OBVIOUS
<1>3. Tally(F2, n, C2[u], B[u])
  BY <1>1, <1>2, TallySame
<1>4. FlatMap(Faults(F2), B[u]) = FlatMap(Faults(F), B[u])
      /\ FlatMap(Marks(F2), B[u]) = FlatMap(Marks(F), B[u])
  BY <1>1, <1>2, FaultsSame
<1>5. u \in T2 /\ Within(B[u], T2)
  BY <1>1, WithinMore
<1>6. \A k \in 1 .. Len(S2) : S2[k].suite # u
  BY DEF Open
<1> QED BY <1>1, <1>3, <1>4, <1>5, <1>6, Zenon DEF Reported

\* The suites in front of the entry that f has come to have run, and what is known
\* of them stays.
Kept(L, f, R, C, R2, C2, S2) ==
  \A i \in 1 .. f.entry - 1 : L[f.suite][i] \in Suites =>
    /\ R2[L[f.suite][i]] = R[L[f.suite][i]] /\ C2[L[f.suite][i]] = C[L[f.suite][i]]
    /\ ~Open(S2, L[f.suite][i])

LEMMA RunningStays ==
  ASSUME NEW L, Nested(L), NEW B, Unfolds(B, L), NEW f \in Frames,
         f.entry \in 1 .. Len(L[f.suite]) + 1,
         NEW T, NEW F, NEW R, NEW C, NEW n, NEW S, Running(T, B, L, F, R, C, n, S, f),
         NEW T2, T \subseteq T2, NEW F2, Agree(F, F2, T),
         NEW S2, NEW R2, NEW C2, C2[f.suite] = C[f.suite], Kept(L, f, R, C, R2, C2, S2)
  PROVE  Running(T2, B, L, F2, R2, C2, n, S2, f)
<1>1. Front(B, L, f) \in Seq(Tests) /\ B \in [Suites -> Seq(Tests)]
  BY FrontIs DEF Unfolds
<1>2. /\ Within(Front(B, L, f), T) /\ Tally(F, n, C[f.suite], Front(B, L, f))
      /\ \A i \in 1 .. f.entry - 1 :
           L[f.suite][i] \in Suites => Reported(T, B, F, R, C, n, S, L[f.suite][i])
  BY Zenon DEF Running
<1>3. Within(Front(B, L, f), T2)
  BY <1>2, WithinMore
<1>4. Tally(F2, n, C2[f.suite], Front(B, L, f))
  BY <1>1, <1>2, TallySame
<1>5. ASSUME NEW i \in 1 .. f.entry - 1, L[f.suite][i] \in Suites
      PROVE  Reported(T2, B, F2, R2, C2, n, S2, L[f.suite][i])
  <2> DEFINE u == L[f.suite][i]
  <2>1. u \in Suites /\ Reported(T, B, F, R, C, n, S, u)
    BY <1>2, <1>5
  <2>2. ~Open(S2, u) /\ R2[u] = R[u] /\ C2[u] = C[u]
    BY <1>5, Zenon DEF Kept
  <2> HIDE DEF u
  <2>3. Reported(T2, B, F2, R2, C2, n, S2, u)
    BY <1>1, <2>1, <2>2, ReportedStays
  <2> QED BY <2>3 DEF u
<1> QED BY <1>3, <1>4, <1>5, Zenon DEF Running

\* A suite goes on behind an entry, under which d tests have failed.
LEMMA RunningOn ==
  ASSUME NEW L, Nested(L), NEW B, Unfolds(B, L), NEW f \in Frames,
         f.entry \in 1 .. Len(L[f.suite]),
         NEW T, NEW F, NEW R, NEW C, NEW n, NEW S, Running(T, B, L, F, R, C, n, S, f),
         NEW T2, T \subseteq T2, NEW F2, Agree(F, F2, T),
         NEW S2, NEW R2, NEW C2, Kept(L, f, R, C, R2, C2, S2),
         NEW x, x = L[f.suite][f.entry],
         Within(Piece(B)[x], T2), NEW d, Tally(F2, n, d, Piece(B)[x]), C2[f.suite] = C[f.suite] + d,
         x \in Suites => Reported(T2, B, F2, R2, C2, n, S2, x)
  PROVE  Running(T2, B, L, F2, R2, C2, n, S2, Onward(f))
<1>0. f.entry \in 1 .. Len(L[f.suite]) + 1 /\ f.entry <= Len(L[f.suite]) /\ f.suite \in Suites
      /\ L[f.suite] \in Seq(Items) /\ f.entry \in Nat
  BY DEF Nested, Frames
<1>1. Front(B, L, f) \in Seq(Tests) /\ B \in [Suites -> Seq(Tests)]
      /\ Front(B, L, Onward(f)) = Front(B, L, f) \o Piece(B)[x]
  <2>1. Front(B, L, f) \in Seq(Tests)
    BY <1>0, FrontIs
  <2>2. Front(B, L, Onward(f)) = Front(B, L, f) \o Piece(B)[x]
    BY <1>0, FrontIs
  <2> QED BY <2>1, <2>2, Zenon DEF Unfolds
<1>2. /\ Within(Front(B, L, f), T) /\ Tally(F, n, C[f.suite], Front(B, L, f))
      /\ \A i \in 1 .. f.entry - 1 :
           L[f.suite][i] \in Suites => Reported(T, B, F, R, C, n, S, L[f.suite][i])
  BY Zenon DEF Running
<1>3. Piece(B)[x] \in Seq(Tests)
  <2>1. x \in Items
    BY <1>0
  <2>2. Piece(B) \in [Items -> Seq(Tests)]
    BY <1>1, PieceType
  <2> QED BY <2>1, <2>2
<1>4. Within(Front(B, L, Onward(f)), T2)
  <2>1. Within(Front(B, L, f), T2)
    BY <1>2, WithinMore
  <2>2. Within(Front(B, L, f) \o Piece(B)[x], T2)
    BY <1>1, <1>3, <2>1, WithinJoins
  <2> QED BY <1>1, <2>2, Zenon
<1>5. Tally(F2, n, C2[f.suite], Front(B, L, Onward(f)))
  <2>1. Tally(F2, n, C[f.suite], Front(B, L, f))
    BY <1>1, <1>2, TallySame
  <2>2. Tally(F2, n, C[f.suite] + d, Front(B, L, f) \o Piece(B)[x])
    BY <1>1, <1>3, <2>1, TallyJoins
  <2> QED BY <1>1, <2>2, Zenon
<1>6. Onward(f).suite = f.suite /\ Onward(f).entry = f.entry + 1
  BY DEF Onward, Frames
<1>7. ASSUME NEW i \in 1 .. Onward(f).entry - 1, L[f.suite][i] \in Suites
      PROVE  Reported(T2, B, F2, R2, C2, n, S2, L[f.suite][i])
  <2>1. CASE i = f.entry
    BY <1>7, <2>1, Zenon
  <2>2. CASE i # f.entry
    <3> DEFINE u == L[f.suite][i]
    <3>0. i \in 1 .. f.entry - 1
      BY <1>0, <1>6, <2>2
    <3>1. u \in Suites /\ Reported(T, B, F, R, C, n, S, u)
      BY <1>2, <1>7, <3>0
    <3>2. ~Open(S2, u) /\ R2[u] = R[u] /\ C2[u] = C[u]
      BY <1>7, <3>0, Zenon DEF Kept
    <3> HIDE DEF u
    <3>3. Reported(T2, B, F2, R2, C2, n, S2, u)
      BY <1>1, <3>1, <3>2, ReportedStays
    <3> QED BY <3>3 DEF u
  <2> QED BY <2>1, <2>2
<1> QED BY <1>4, <1>5, <1>6, <1>7, Zenon DEF Running

Advanced(S) == [S EXCEPT ![Len(S)].entry = @ + 1]
Inner(S) == S[Len(S)]
Outer(S) == SubSeq(S, 1, Len(S) - 1)
Entered(S, u) == Append(S, [suite |-> u, entry |-> 1])

LEMMA AdvancedIs ==
  ASSUME NEW S \in Seq(Frames), S # <<>>
  PROVE  /\ Advanced(S) \in Seq(Frames) /\ Len(Advanced(S)) = Len(S)
         /\ Advanced(S)[Len(S)] = Onward(S[Len(S)])
         /\ \A k \in 1 .. Len(S) : k # Len(S) => Advanced(S)[k] = S[k]
         /\ \A k \in 1 .. Len(S) : Advanced(S)[k].suite = S[k].suite
<1>1. Len(S) \in 1 .. Len(S) /\ S[Len(S)] \in Frames /\ DOMAIN S = 1 .. Len(S) /\ Len(S) \in Nat
      /\ S \in [1 .. Len(S) -> Frames]
  OBVIOUS
<1>2. Advanced(S) = [S EXCEPT ![Len(S)] = Onward(S[Len(S)])]
  BY <1>1 DEF Advanced, Onward
<1>3. Onward(S[Len(S)]) \in Frames /\ Onward(S[Len(S)]).suite = S[Len(S)].suite
  BY <1>1 DEF Onward, Frames
<1> DEFINE x == Onward(S[Len(S)])
           n == Len(S)
<1> HIDE DEF x, n
<1>4. [S EXCEPT ![n] = x] \in [1 .. n -> Frames] /\ n \in Nat /\ n \in 1 .. n
  BY <1>1, <1>3 DEF x, n
<1>5. [S EXCEPT ![n] = x] \in Seq(Frames) /\ Len([S EXCEPT ![n] = x]) = n
  BY <1>4
<1>6. [S EXCEPT ![n] = x][n] = x /\ \A k \in 1 .. n : k # n => [S EXCEPT ![n] = x][k] = S[k]
  BY <1>1, <1>4 DEF n
<1> QED BY <1>2, <1>3, <1>5, <1>6 DEF x, n

LEMMA ChainIs ==
  ASSUME NEW L, Nested(L), NEW S, Chain(L, S), S # <<>>
  PROVE  /\ S \in Seq(Frames) /\ Len(S) \in Nat /\ Len(S) >= 1 /\ Inner(S) \in Frames
         /\ \A k \in 1 .. Len(S) : S[k] \in Frames /\ S[k].suite \in Suites /\ S[k].suite \in Nat
                                   /\ L[S[k].suite] \in Seq(Items)
                                   /\ Len(L[S[k].suite]) \in Nat
                                   /\ S[k].entry \in 1 .. Len(L[S[k].suite]) + 1
         /\ \A k \in 1 .. Len(S) : \A j \in 1 .. Len(S) :
              S[k].suite = S[j].suite => k = j
         /\ \A k \in 1 .. Len(S) - 1 : /\ S[k].entry <= Len(L[S[k].suite])
                                       /\ L[S[k].suite][S[k].entry] = S[k + 1].suite
<1>0. S \in Seq(Frames)
  BY Zenon DEF Chain, Frames
<1>a. Len(S) \in Nat /\ Len(S) >= 1
  BY <1>0
<1>b. \A k \in 1 .. Len(S) : S[k] \in Frames
  BY <1>0, ElementOfSeq, Zenon
<1>1. S \in Seq(Frames) /\ Len(S) \in Nat /\ Len(S) >= 1 /\ Inner(S) \in Frames
  <2>1. Len(S) \in 1 .. Len(S)
    BY <1>a
  <2> QED BY <1>0, <1>a, <1>b, <2>1, Zenon DEF Inner
<1>2. \A k \in 1 .. Len(S) : S[k] \in Frames /\ S[k].suite \in Suites /\ S[k].suite \in Nat
  <2>1. \A f \in Frames : f.suite \in Suites
    BY DEF Frames
  <2> QED BY <1>b, <2>1, SuiteAssumption
<1>3. \A k \in 1 .. Len(S) : /\ L[S[k].suite] \in Seq(Items) /\ Len(L[S[k].suite]) \in Nat
                             /\ S[k].entry \in 1 .. Len(L[S[k].suite]) + 1
  BY <1>2 DEF Nested, Chain
<1>4. ASSUME NEW k \in 1 .. Len(S), NEW j \in 1 .. Len(S), S[k].suite = S[j].suite PROVE k = j
  <2>1. CASE j < k
    <3>1. j \in 1 .. k - 1
      BY <1>1, <2>1
    <3>2. S[j].suite < S[k].suite
      BY <3>1 DEF Chain
    <3> QED BY <1>2, <1>4, <3>2
  <2>2. CASE k < j
    <3>1. k \in 1 .. j - 1
      BY <1>1, <2>2
    <3>2. S[k].suite < S[j].suite
      BY <3>1 DEF Chain
    <3> QED BY <1>2, <1>4, <3>2
  <2> QED BY <1>1, <2>1, <2>2
<1>5. \A k \in 1 .. Len(S) - 1 : /\ S[k].entry <= Len(L[S[k].suite])
                                 /\ L[S[k].suite][S[k].entry] = S[k + 1].suite
  BY Zenon DEF Chain
<1> QED BY <1>1, <1>2, <1>3, <1>4, <1>5

LEMMA ChainOn ==
  ASSUME NEW L, Nested(L), NEW S, Chain(L, S), S # <<>>,
         Inner(S).entry <= Len(L[Inner(S).suite])
  PROVE  Chain(L, Advanced(S))
<1> DEFINE S2 == Advanced(S)
           n == Len(S)
<1>1. /\ S \in Seq(Frames) /\ n \in Nat /\ n >= 1
      /\ \A k \in 1 .. n : S[k] \in Frames /\ Len(L[S[k].suite]) \in Nat
                           /\ S[k].entry \in 1 .. Len(L[S[k].suite]) + 1
  BY ChainIs
<1>2. /\ S2 \in Seq(Frames) /\ Len(S2) = n
      /\ S2[n] = Onward(S[n])
      /\ \A k \in 1 .. n : k # n => S2[k] = S[k]
      /\ \A k \in 1 .. n : S2[k].suite = S[k].suite
  BY <1>1, AdvancedIs
<1> HIDE DEF S2
<1>3. S2[n].entry = S[n].entry + 1
  BY <1>1, <1>2 DEF Onward, Frames
<1>4. \A k \in 1 .. n : S2[k].entry \in 1 .. Len(L[S2[k].suite]) + 1
  <2>1. SUFFICES ASSUME NEW k \in 1 .. n PROVE S2[k].entry \in 1 .. Len(L[S2[k].suite]) + 1
    OBVIOUS
  <2>2. CASE k = n
    <3>1. S2[k].suite = S[n].suite /\ S[n].entry <= Len(L[S[n].suite])
      BY <1>2, <2>2 DEF Inner
    <3>2. Len(L[S[n].suite]) \in Nat /\ S[n].entry \in 1 .. Len(L[S[n].suite]) + 1
      BY <1>1
    <3>3. S[n].entry + 1 \in 1 .. Len(L[S[n].suite]) + 1
      BY <3>1, <3>2
    <3> QED BY <1>3, <2>2, <3>1, <3>3
  <2>3. CASE k # n
    BY <1>1, <1>2, <2>3
  <2> QED BY <2>2, <2>3
<1>5. \A k \in 1 .. n - 1 : /\ S2[k].entry <= Len(L[S2[k].suite])
                            /\ L[S2[k].suite][S2[k].entry] = S2[k + 1].suite
  <2>1. SUFFICES ASSUME NEW k \in 1 .. n - 1
                 PROVE  /\ S2[k].entry <= Len(L[S2[k].suite])
                        /\ L[S2[k].suite][S2[k].entry] = S2[k + 1].suite
    OBVIOUS
  <2>2. k \in 1 .. n /\ k # n /\ k + 1 \in 1 .. n
    BY <1>1
  <2>3. S2[k] = S[k] /\ S2[k + 1].suite = S[k + 1].suite
    BY <1>2, <2>2
  <2>4. S[k].entry <= Len(L[S[k].suite]) /\ L[S[k].suite][S[k].entry] = S[k + 1].suite
    BY DEF Chain
  <2> QED BY <2>3, <2>4
<1>6. \A k \in 1 .. n : \A j \in 1 .. k - 1 : S2[j].suite < S2[k].suite
  <2>1. SUFFICES ASSUME NEW k \in 1 .. n, NEW j \in 1 .. k - 1 PROVE S2[j].suite < S2[k].suite
    OBVIOUS
  <2>2. j \in 1 .. n
    BY <1>1
  <2>3. S[j].suite < S[k].suite
    BY DEF Chain
  <2> QED BY <1>2, <2>2, <2>3
<1>7. S2 \in Seq([suite : Suites, entry : Nat])
  BY <1>2, Zenon DEF Frames
<1>8. Chain(L, S2)
  BY <1>2, <1>4, <1>5, <1>6, <1>7 DEF Chain
<1> QED BY <1>8 DEF S2

LEMMA ChainOuter ==
  ASSUME NEW L, Nested(L), NEW S, Chain(L, S), Len(S) > 1
  PROVE  /\ Chain(L, Outer(S)) /\ Len(Outer(S)) = Len(S) - 1 /\ Outer(S) # <<>>
         /\ \A k \in 1 .. Len(S) - 1 : Outer(S)[k] = S[k]
         /\ Inner(Outer(S)) = S[Len(S) - 1]
<1> DEFINE S2 == Outer(S)
           n == Len(S)
<1>1. S \in Seq(Frames) /\ n \in Nat /\ n > 1
  BY DEF Chain, Frames
<1>a. \A k \in 1 .. n : S[k] \in Frames
  BY <1>1, ElementOfSeq, Zenon
<1>b. S2 = SubSeq(S, 1, n - 1)
  BY DEF Outer
<1>c. S2 = [k \in 1 .. n - 1 |-> S[k]] /\ Len(S2) = n - 1
  BY <1>1, <1>b
<1>2. S2 \in Seq(Frames) /\ Len(S2) = n - 1 /\ S2 # <<>> /\ \A k \in 1 .. n - 1 : S2[k] = S[k]
  <2>1. n - 1 \in Nat /\ n - 1 > 0
    BY <1>1
  <2>2. \A k \in 1 .. n - 1 : k \in 1 .. n
    BY <1>1
  <2>3. S2 \in [1 .. n - 1 -> Frames]
    BY <1>a, <1>c, <2>2, Zenon
  <2>4. S2 \in Seq(Frames)
    <3> DEFINE m == n - 1
    <3>1. m \in Nat /\ S2 \in [1 .. m -> Frames]
      BY <2>1, <2>3, Zenon
    <3> HIDE DEF S2, m
    <3> QED BY <3>1
  <2>5. S2 # <<>>
    <3>1. Len(S2) > 0
      BY <1>c, <2>1
    <3> HIDE DEF S2
    <3> QED BY <3>1
  <2>6. \A k \in 1 .. n - 1 : S2[k] = S[k]
    BY <1>c, Zenon
  <2> QED BY <1>c, <2>4, <2>5, <2>6
<1> HIDE DEF S2
<1>3. S2 \in Seq([suite : Suites, entry : Nat])
  BY <1>2, Zenon DEF Frames
<1>4. \A k \in 1 .. n - 1 : S2[k].entry \in 1 .. Len(L[S2[k].suite]) + 1
  <2>1. SUFFICES ASSUME NEW k \in 1 .. n - 1 PROVE S2[k].entry \in 1 .. Len(L[S2[k].suite]) + 1
    OBVIOUS
  <2>2. k \in 1 .. n
    BY <1>1
  <2>3. S[k].entry \in 1 .. Len(L[S[k].suite]) + 1
    BY <2>2 DEF Chain
  <2> QED BY <1>2, <2>3
<1>5. \A k \in 1 .. (n - 1) - 1 : /\ S2[k].entry <= Len(L[S2[k].suite])
                                  /\ L[S2[k].suite][S2[k].entry] = S2[k + 1].suite
  <2>1. SUFFICES ASSUME NEW k \in 1 .. (n - 1) - 1
                 PROVE  /\ S2[k].entry <= Len(L[S2[k].suite])
                        /\ L[S2[k].suite][S2[k].entry] = S2[k + 1].suite
    OBVIOUS
  <2>2. k \in 1 .. n - 1 /\ k + 1 \in 1 .. n - 1
    BY <1>1
  <2>3. S2[k] = S[k] /\ S2[k + 1] = S[k + 1]
    BY <1>2, <2>2
  <2>4. S[k].entry <= Len(L[S[k].suite]) /\ L[S[k].suite][S[k].entry] = S[k + 1].suite
    BY <2>2 DEF Chain
  <2> QED BY <2>3, <2>4
<1>6. \A k \in 1 .. n - 1 : \A j \in 1 .. k - 1 : S2[j].suite < S2[k].suite
  <2>1. SUFFICES ASSUME NEW k \in 1 .. n - 1, NEW j \in 1 .. k - 1 PROVE S2[j].suite < S2[k].suite
    OBVIOUS
  <2>2. j \in 1 .. n - 1 /\ k \in 1 .. n
    BY <1>1
  <2>3. S[j].suite < S[k].suite
    BY <2>2 DEF Chain
  <2> QED BY <1>2, <2>2, <2>3
<1>7. Chain(L, S2)
  BY <1>2, <1>3, <1>4, <1>5, <1>6 DEF Chain
<1>8. Inner(S2) = S[n - 1]
  BY <1>1, <1>2 DEF Inner
<1> QED BY <1>2, <1>7, <1>8 DEF S2

LEMMA ChainEnter ==
  ASSUME NEW L, Nested(L), NEW S, Chain(L, S), S # <<>>,
         Inner(S).entry <= Len(L[Inner(S).suite]),
         NEW u \in Suites, u = L[Inner(S).suite][Inner(S).entry]
  PROVE  /\ Chain(L, Entered(S, u)) /\ Len(Entered(S, u)) = Len(S) + 1
         /\ Entered(S, u)[Len(S) + 1] = [suite |-> u, entry |-> 1]
         /\ \A k \in 1 .. Len(S) : Entered(S, u)[k] = S[k]
<1> DEFINE f == [suite |-> u, entry |-> 1]
           S2 == Entered(S, u)
           n == Len(S)
<1>1. /\ S \in Seq(Frames) /\ n \in Nat /\ n >= 1 /\ n \in 1 .. n
      /\ \A k \in 1 .. n : S[k] \in Frames /\ S[k].suite \in Nat /\ S[k].suite \in Suites
                           /\ Len(L[S[k].suite]) \in Nat
                           /\ S[k].entry \in 1 .. Len(L[S[k].suite]) + 1
  BY ChainIs
<1>2. f \in Frames /\ f.suite = u /\ f.entry = 1 /\ u \in Nat
  BY SuiteAssumption DEF Frames
<1> HIDE DEF f
<1>3. /\ S2 \in Seq(Frames) /\ Len(S2) = n + 1 /\ S2[n + 1] = f
      /\ \A k \in 1 .. n : S2[k] = S[k]
  <2>1. S2 = Append(S, f)
    BY DEF Entered, f
  <2> HIDE DEF S2
  <2> QED BY <1>1, <1>2, <2>1
<1> HIDE DEF S2
<1>4. \A k \in 1 .. n + 1 : S2[k].entry \in 1 .. Len(L[S2[k].suite]) + 1
  <2>1. SUFFICES ASSUME NEW k \in 1 .. n + 1 PROVE S2[k].entry \in 1 .. Len(L[S2[k].suite]) + 1
    OBVIOUS
  <2>2. CASE k = n + 1
    <3>1. L[u] \in Seq(Items)
      BY DEF Nested
    <3>2. Len(L[u]) \in Nat
      BY <3>1
    <3> QED BY <1>2, <1>3, <2>2, <3>2
  <2>3. CASE k # n + 1
    BY <1>1, <1>3, <2>3
  <2> QED BY <2>2, <2>3
<1>5. \A k \in 1 .. (n + 1) - 1 : /\ S2[k].entry <= Len(L[S2[k].suite])
                                  /\ L[S2[k].suite][S2[k].entry] = S2[k + 1].suite
  <2>1. SUFFICES ASSUME NEW k \in 1 .. n
                 PROVE  /\ S2[k].entry <= Len(L[S2[k].suite])
                        /\ L[S2[k].suite][S2[k].entry] = S2[k + 1].suite
    BY <1>1
  <2>2. CASE k = n
    BY <1>2, <1>3, <2>2 DEF Inner
  <2>3. CASE k # n
    <3>1. k \in 1 .. n - 1 /\ k + 1 \in 1 .. n
      BY <1>1, <2>3
    <3>2. S[k].entry <= Len(L[S[k].suite]) /\ L[S[k].suite][S[k].entry] = S[k + 1].suite
      BY <3>1 DEF Chain
    <3> QED BY <1>3, <3>1, <3>2
  <2> QED BY <2>2, <2>3
<1>6. \A k \in 1 .. n + 1 : \A j \in 1 .. k - 1 : S2[j].suite < S2[k].suite
  <2>1. SUFFICES ASSUME NEW k \in 1 .. n + 1, NEW j \in 1 .. k - 1 PROVE S2[j].suite < S2[k].suite
    OBVIOUS
  <2>2. j \in 1 .. n
    BY <1>1
  <2>3. CASE k = n + 1
    <3>1. S[n].suite < u
      <4>1. S[n].suite \in Suites /\ S[n].entry \in 1 .. Len(L[S[n].suite])
        BY <1>1 DEF Inner
      <4>2. L[S[n].suite][S[n].entry] > S[n].suite
        BY <4>1, Zenon DEF Nested, Inner
      <4> QED BY <1>1, <1>2, <4>2 DEF Inner
    <3>2. CASE j = n
      BY <1>2, <1>3, <2>2, <2>3, <3>1, <3>2
    <3>3. CASE j # n
      <4>1. j \in 1 .. n - 1
        BY <1>1, <2>2, <3>3
      <4>2. S[j].suite < S[n].suite
        BY <1>1, <4>1 DEF Chain
      <4>3. S[j].suite < u
        BY <1>1, <1>2, <2>2, <3>1, <4>2
      <4> QED BY <1>2, <1>3, <2>2, <2>3, <4>3
    <3> QED BY <3>2, <3>3
  <2>4. CASE k # n + 1
    <3>1. k \in 1 .. n
      BY <1>1, <2>4
    <3>2. S[j].suite < S[k].suite
      BY <3>1 DEF Chain
    <3> QED BY <1>3, <2>2, <3>1, <3>2
  <2> QED BY <2>3, <2>4
<1>7. S2 \in Seq([suite : Suites, entry : Nat])
  BY <1>3, Zenon DEF Frames
<1>8. Chain(L, S2)
  BY <1>3, <1>4, <1>5, <1>6, <1>7 DEF Chain
<1> QED BY <1>3, <1>8 DEF S2, f

-----------------------------------------------------------------------------
\* The entry that the inner suite has come to was not visited.
LEMMA EntryFresh ==
  ASSUME NEW L, Nested(L), NEW T, NEW S, Chain(L, S), Visited(T, L, S), S # <<>>,
         Inner(S).entry <= Len(L[Inner(S).suite])
  PROVE  L[Inner(S).suite][Inner(S).entry] \notin T
<1>1. /\ Len(S) \in 1 .. Len(S) /\ S[Len(S)].suite \in Suites /\ Len(S) \in Nat
      /\ S[Len(S)].entry \in 1 .. Len(L[S[Len(S)].suite]) /\ S[Len(S)].entry \in Nat
  BY ChainIs DEF Inner
<1>2. SUFFICES ASSUME L[S[Len(S)].suite][S[Len(S)].entry] \in T PROVE FALSE
  BY DEF Inner
<1>3. S[Len(S)].entry < S[Len(S)].entry \/ Len(S) < Len(S)
  BY <1>1, <1>2, Zenon DEF Visited
<1> QED BY <1>1, <1>3

LEMMA VisitedOn ==
  ASSUME NEW L, Nested(L), OnePlace(L), NEW T, NEW S, Chain(L, S), Visited(T, L, S), S # <<>>,
         Inner(S).entry <= Len(L[Inner(S).suite]),
         NEW x, x = L[Inner(S).suite][Inner(S).entry]
  PROVE  Visited(T \cup {x}, L, Advanced(S))
<1> DEFINE S2 == Advanced(S)
           n == Len(S)
<1>1. /\ S \in Seq(Frames) /\ n \in Nat /\ n \in 1 .. n
      /\ \A k \in 1 .. n : S[k] \in Frames /\ S[k].suite \in Suites
      /\ S[n].entry \in 1 .. Len(L[S[n].suite]) /\ S[n].entry \in Nat
      /\ \A k \in 1 .. n : S[k].suite = S[n].suite => k = n
  BY ChainIs DEF Inner
<1>2. /\ Len(S2) = n /\ S2[n] = Onward(S[n])
      /\ \A k \in 1 .. n : k # n => S2[k] = S[k]
      /\ \A k \in 1 .. n : S2[k].suite = S[k].suite
  BY <1>1, AdvancedIs
<1>3. S2[n].entry = S[n].entry + 1
  BY <1>1, <1>2 DEF Onward, Frames
<1> HIDE DEF S2
<1>4. \A k \in 1 .. Len(S2) : S2[k].suite \in T \cup {x}
  BY <1>2 DEF Visited
<1>5. ASSUME NEW s \in Suites, NEW i \in 1 .. Len(L[s]), L[s][i] \in T \cup {x}
      PROVE  /\ s \in T \cup {x}
             /\ \A k \in 1 .. Len(S2) : S2[k].suite = s =>
                  i < S2[k].entry \/ (i = S2[k].entry /\ k < Len(S2))
  <2>1. CASE L[s][i] \in T
    <3>1. s \in T
      BY <2>1 DEF Visited
    <3>2. ASSUME NEW k \in 1 .. n, S2[k].suite = s
          PROVE  i < S2[k].entry \/ (i = S2[k].entry /\ k < n)
      <4>1. i < S[k].entry \/ (i = S[k].entry /\ k < n)
        BY <1>2, <2>1, <3>2 DEF Visited
      <4>2. CASE k = n
        <5>1. L[s] \in Seq(Items) /\ i \in Nat
          BY DEF Nested
        <5> QED BY <1>1, <1>3, <4>1, <4>2, <5>1
      <4>3. CASE k # n
        BY <1>2, <4>1, <4>3
      <4> QED BY <4>2, <4>3
    <3> QED BY <1>2, <3>1, <3>2
  <2>2. CASE L[s][i] = x
    <3>1. s = S[n].suite /\ i = S[n].entry
      BY <1>1, <2>2 DEF OnePlace, Inner
    <3>2. s \in T
      BY <1>1, <3>1 DEF Visited
    <3>3. ASSUME NEW k \in 1 .. n, S2[k].suite = s PROVE i < S2[k].entry
      <4>1. k = n
        BY <1>1, <1>2, <3>1, <3>3
      <4> QED BY <1>1, <1>3, <3>1, <4>1
    <3> QED BY <1>2, <3>2, <3>3
  <2> QED BY <1>5, <2>1, <2>2
<1>6. Visited(T \cup {x}, L, S2)
  BY <1>4, <1>5, Zenon DEF Visited
<1> QED BY <1>6 DEF S2

LEMMA VisitedEnter ==
  ASSUME NEW L, Nested(L), OnePlace(L), NEW T, NEW S, Chain(L, S), Visited(T, L, S), S # <<>>,
         Inner(S).entry <= Len(L[Inner(S).suite]),
         NEW u \in Suites, u = L[Inner(S).suite][Inner(S).entry]
  PROVE  Visited(T \cup {u}, L, Entered(S, u))
<1> DEFINE S2 == Entered(S, u)
           n == Len(S)
<1>1. /\ n \in Nat /\ n \in 1 .. n
      /\ \A k \in 1 .. n : S[k] \in Frames /\ S[k].suite \in Suites
      /\ S[n].entry \in 1 .. Len(L[S[n].suite]) /\ S[n].entry \in Nat
      /\ \A k \in 1 .. n : S[k].suite = S[n].suite => k = n
  BY ChainIs DEF Inner
<1>2. /\ Len(S2) = n + 1 /\ S2[n + 1] = [suite |-> u, entry |-> 1]
      /\ \A k \in 1 .. n : S2[k] = S[k]
  BY ChainEnter
<1>3. u \notin T
  BY EntryFresh
<1> HIDE DEF S2
<1>4. \A k \in 1 .. Len(S2) : S2[k].suite \in T \cup {u}
  <2>1. ASSUME NEW k \in 1 .. n + 1 PROVE S2[k].suite \in T \cup {u}
    <3>1. CASE k = n + 1
      BY <1>2, <3>1
    <3>2. CASE k # n + 1
      <4>1. k \in 1 .. n
        BY <1>1, <3>2
      <4>2. S[k].suite \in T
        BY <4>1 DEF Visited
      <4> QED BY <1>2, <4>1, <4>2
    <3> QED BY <3>1, <3>2
  <2> QED BY <1>2, <2>1
<1>5. ASSUME NEW s \in Suites, NEW i \in 1 .. Len(L[s]), L[s][i] \in T \cup {u}
      PROVE  /\ s \in T \cup {u}
             /\ \A k \in 1 .. Len(S2) : S2[k].suite = s =>
                  i < S2[k].entry \/ (i = S2[k].entry /\ k < Len(S2))
  <2>1. CASE L[s][i] \in T
    <3>1. s \in T
      BY <2>1 DEF Visited
    <3>2. ASSUME NEW k \in 1 .. n + 1, S2[k].suite = s
          PROVE  i < S2[k].entry \/ (i = S2[k].entry /\ k < n + 1)
      <4>1. k # n + 1
        BY <1>2, <1>3, <3>1, <3>2
      <4>2. k \in 1 .. n /\ k < n + 1
        BY <1>1, <4>1
      <4>3. i < S[k].entry \/ (i = S[k].entry /\ k < n)
        BY <1>2, <2>1, <3>2, <4>2 DEF Visited
      <4> QED BY <1>2, <4>2, <4>3
    <3> QED BY <1>2, <3>1, <3>2
  <2>2. CASE L[s][i] = u
    <3>1. s = S[n].suite /\ i = S[n].entry
      BY <1>1, <2>2 DEF OnePlace, Inner
    <3>2. s \in T
      BY <1>1, <3>1 DEF Visited
    <3>3. ASSUME NEW k \in 1 .. n + 1, S2[k].suite = s PROVE i = S2[k].entry /\ k < n + 1
      <4>1. k # n + 1
        BY <1>2, <1>3, <3>2, <3>3
      <4>2. k \in 1 .. n /\ k < n + 1
        BY <1>1, <4>1
      <4>3. k = n
        BY <1>1, <1>2, <3>1, <3>3, <4>2
      <4> QED BY <1>2, <3>1, <4>2, <4>3
    <3> QED BY <1>2, <3>2, <3>3
  <2> QED BY <1>5, <2>1, <2>2
<1>6. Visited(T \cup {u}, L, S2)
  BY <1>4, <1>5, Zenon DEF Visited
<1> QED BY <1>6 DEF S2

\* A suite is left, and the one around it goes on.
LEMMA LeftIs ==
  ASSUME NEW L, Nested(L), NEW S, Chain(L, S), Len(S) > 1
  PROVE  /\ Chain(L, Advanced(Outer(S))) /\ Len(Advanced(Outer(S))) = Len(S) - 1
         /\ Advanced(Outer(S))[Len(S) - 1] = Onward(S[Len(S) - 1])
         /\ \A k \in 1 .. Len(S) - 1 : k # Len(S) - 1 => Advanced(Outer(S))[k] = S[k]
         /\ \A k \in 1 .. Len(S) - 1 : Advanced(Outer(S))[k].suite = S[k].suite
         /\ S[Len(S) - 1].entry \in 1 .. Len(L[S[Len(S) - 1].suite])
         /\ L[S[Len(S) - 1].suite][S[Len(S) - 1].entry] = S[Len(S)].suite
<1> DEFINE P == Outer(S)
           n == Len(S)
<1>1. /\ Chain(L, P) /\ Len(P) = n - 1 /\ P # <<>> /\ Inner(P) = S[n - 1]
      /\ \A k \in 1 .. n - 1 : P[k] = S[k]
  BY ChainOuter
<1>a. S # <<>>
  BY DEF Chain
<1>2. n \in Nat /\ n > 1
  BY <1>a, ChainIs
<1>b. n - 1 \in 1 .. n /\ n - 1 \in 1 .. n - 1 /\ (n - 1) + 1 = n
  BY <1>2
<1>3. S[n - 1].entry <= Len(L[S[n - 1].suite]) /\ L[S[n - 1].suite][S[n - 1].entry] = S[n].suite
  BY <1>b DEF Chain
<1>4. Len(L[S[n - 1].suite]) \in Nat /\ S[n - 1].entry \in 1 .. Len(L[S[n - 1].suite]) + 1
  BY <1>a, <1>b, ChainIs
<1>5. S[n - 1].entry \in 1 .. Len(L[S[n - 1].suite])
  BY <1>3, <1>4
<1> HIDE DEF P
<1>6. Chain(L, Advanced(P))
  BY <1>1, <1>3, ChainOn
<1>7. P \in Seq(Frames)
  BY <1>1, ChainIs
<1>8. /\ Len(Advanced(P)) = n - 1
      /\ Advanced(P)[n - 1] = Onward(P[n - 1])
      /\ \A k \in 1 .. n - 1 : k # n - 1 => Advanced(P)[k] = P[k]
      /\ \A k \in 1 .. n - 1 : Advanced(P)[k].suite = P[k].suite
  BY <1>1, <1>7, AdvancedIs
<1>9. /\ Advanced(P)[n - 1] = Onward(S[n - 1])
      /\ \A k \in 1 .. n - 1 : k # n - 1 => Advanced(P)[k] = S[k]
      /\ \A k \in 1 .. n - 1 : Advanced(P)[k].suite = S[k].suite
  BY <1>1, <1>8, <1>b
<1> QED BY <1>3, <1>5, <1>6, <1>8, <1>9 DEF P

LEMMA VisitedLeave ==
  ASSUME NEW L, Nested(L), NEW T, NEW S, Chain(L, S), Visited(T, L, S), Len(S) > 1
  PROVE  Visited(T, L, Advanced(Outer(S)))
<1> DEFINE S2 == Advanced(Outer(S))
           n == Len(S)
<1>1. /\ Len(S2) = n - 1 /\ S2[n - 1] = Onward(S[n - 1])
      /\ \A k \in 1 .. n - 1 : k # n - 1 => S2[k] = S[k]
      /\ \A k \in 1 .. n - 1 : S2[k].suite = S[k].suite
  BY LeftIs
<1>a. S # <<>>
  BY DEF Chain
<1>2. n \in Nat /\ n > 1 /\ \A k \in 1 .. n : S[k] \in Frames
  BY <1>a, ChainIs
<1>3. n - 1 \in 1 .. n /\ \A k \in 1 .. n - 1 : k \in 1 .. n
  BY <1>2
<1>4. S2[n - 1].entry = S[n - 1].entry + 1 /\ S[n - 1].entry \in Nat
  BY <1>1, <1>2, <1>3 DEF Onward, Frames
<1> HIDE DEF S2
<1>5. \A k \in 1 .. Len(S2) : S2[k].suite \in T
  BY <1>1, <1>3 DEF Visited
<1>6. ASSUME NEW s \in Suites, NEW i \in 1 .. Len(L[s]), L[s][i] \in T
      PROVE  /\ s \in T
             /\ \A k \in 1 .. Len(S2) : S2[k].suite = s =>
                  i < S2[k].entry \/ (i = S2[k].entry /\ k < Len(S2))
  <2>1. s \in T
    BY <1>6 DEF Visited
  <2>2. L[s] \in Seq(Items) /\ i \in Nat
    BY DEF Nested
  <2>3. ASSUME NEW k \in 1 .. n - 1, S2[k].suite = s
        PROVE  i < S2[k].entry \/ (i = S2[k].entry /\ k < n - 1)
    <3>1. i < S[k].entry \/ (i = S[k].entry /\ k < n)
      BY <1>1, <1>3, <1>6, <2>3 DEF Visited
    <3>2. CASE k = n - 1
      BY <1>4, <2>2, <3>1, <3>2
    <3>3. CASE k # n - 1
      BY <1>1, <1>2, <3>1, <3>3
    <3> QED BY <3>2, <3>3
  <2> QED BY <1>1, <2>1, <2>3
<1>7. Visited(T, L, S2)
  BY <1>5, <1>6, Zenon DEF Visited
<1> QED BY <1>7 DEF S2

LEMMA Fronts ==
  ASSUME NEW L, Nested(L), NEW B, Unfolds(B, L), NEW S, Chain(L, S), S # <<>>
  PROVE  \A k \in 1 .. Len(S) : Front(B, L, S[k]) \in Seq(Tests)
<1>1. ASSUME NEW k \in 1 .. Len(S) PROVE Front(B, L, S[k]) \in Seq(Tests)
  <2>1. S[k] \in Frames /\ S[k].entry \in 1 .. Len(L[S[k].suite]) + 1
    BY ChainIs
  <2> QED BY <2>1, FrontIs
<1> QED BY <1>1

\* A suite goes on behind its entry.
LEMMA RanOn ==
  ASSUME NEW L, Nested(L), NEW B, Unfolds(B, L), NEW S, Chain(L, S), S # <<>>,
         Inner(S).entry <= Len(L[Inner(S).suite]),
         NEW x, x = L[Inner(S).suite][Inner(S).entry],
         NEW q, Ran(B, L, S, q)
  PROVE  Ran(B, L, Advanced(S), q \o Piece(B)[x])
<1> DEFINE S2 == Advanced(S)
           n == Len(S)
           p == Piece(B)[x]
<1>1. PICK g \in [0 .. n -> Seq(Tests)] :
        /\ g[0] = <<>> /\ q = g[n]
        /\ \A k \in 1 .. n : g[k] = g[k - 1] \o Front(B, L, S[k])
  BY Zenon DEF Ran
<1>2. /\ S \in Seq(Frames) /\ n \in Nat /\ n >= 1 /\ S[n] \in Frames
      /\ S[n].entry \in 1 .. Len(L[S[n].suite]) + 1
      /\ S[n].entry <= Len(L[S[n].suite]) /\ x = L[S[n].suite][S[n].entry]
      /\ L[S[n].suite] \in Seq(Items)
  BY ChainIs DEF Inner
<1>3. /\ Len(S2) = n
      /\ S2[n] = Onward(S[n])
      /\ \A k \in 1 .. n : k # n => S2[k] = S[k]
  BY <1>2, AdvancedIs
<1>4. Front(B, L, Onward(S[n])) = Front(B, L, S[n]) \o p /\ Front(B, L, S[n]) \in Seq(Tests)
  BY <1>2, FrontIs
<1>5. p \in Seq(Tests)
  <2>1. S[n].entry \in 1 .. Len(L[S[n].suite])
    BY <1>2
  <2>2. x \in Items
    BY <1>2, <2>1
  <2>3. Piece(B) \in [Items -> Seq(Tests)]
    BY PieceType DEF Unfolds
  <2> QED BY <2>2, <2>3
<1> HIDE DEF S2, p
<1> DEFINE h == [g EXCEPT ![n] = q \o p]
<1>a. n \in 0 .. n /\ n - 1 \in 0 .. n /\ n \in 1 .. n /\ n # 0 /\ 0 \in 0 .. n
  BY <1>2
<1>6. q \in Seq(Tests) /\ q \o p \in Seq(Tests) /\ g[n - 1] \in Seq(Tests)
  <2>1. q \in Seq(Tests) /\ g[n - 1] \in Seq(Tests)
    BY <1>1, <1>a, Zenon
  <2> QED BY <1>5, <2>1
<1>7. h \in [0 .. n -> Seq(Tests)] /\ h[0] = g[0] /\ h[n] = q \o p
      /\ \A k \in 0 .. n : k # n => h[k] = g[k]
  BY <1>1, <1>6, <1>a
<1> HIDE DEF h
<1>8. ASSUME NEW k \in 1 .. n PROVE h[k] = h[k - 1] \o Front(B, L, S2[k])
  <2>1. k \in 0 .. n /\ k - 1 \in 0 .. n /\ k - 1 # n
    BY <1>2
  <2>2. h[k - 1] = g[k - 1]
    BY <1>7, <2>1
  <2>3. CASE k = n
    <3>1. Associates(g[n - 1], Front(B, L, S[n]), p)
      BY <1>4, <1>5, <1>6, Associate, Zenon
    <3>2. q = g[n - 1] \o Front(B, L, S[n])
      BY <1>1, <1>a
    <3> QED BY <1>3, <1>4, <1>7, <2>2, <2>3, <3>1, <3>2, Zenon DEF Associates
  <2>4. CASE k # n
    BY <1>1, <1>3, <1>7, <2>1, <2>2, <2>4
  <2> QED BY <2>3, <2>4
<1>9. Ran(B, L, S2, q \o p)
  BY <1>1, <1>3, <1>7, <1>8, Zenon DEF Ran
<1> QED BY <1>9 DEF S2, p

\* What ran before the inner suite, and in it.
LEMMA RanOuter ==
  ASSUME NEW L, Nested(L), NEW B, Unfolds(B, L), NEW S, Chain(L, S), Len(S) > 1,
         NEW q, Ran(B, L, S, q)
  PROVE  \E p : Ran(B, L, Outer(S), p) /\ q = p \o Front(B, L, Inner(S))
<1> DEFINE S2 == Outer(S)
           n == Len(S)
           m == n - 1
<1>1. PICK g \in [0 .. n -> Seq(Tests)] :
        /\ g[0] = <<>> /\ q = g[n]
        /\ \A k \in 1 .. n : g[k] = g[k - 1] \o Front(B, L, S[k])
  BY Zenon DEF Ran
<1>a. S # <<>>
  BY DEF Chain
<1>2. n \in Nat /\ n > 1
  BY <1>a, ChainIs
<1>3. Len(S2) = m /\ \A k \in 1 .. m : S2[k] = S[k]
  BY ChainOuter
<1>4. n \in 1 .. n /\ m \in 0 .. m /\ 0 \in 0 .. m
      /\ (\A k \in 0 .. m : k \in 0 .. n)
      /\ \A k \in 1 .. m : k \in 1 .. n /\ k \in 0 .. m /\ k - 1 \in 0 .. m
  BY <1>2
<1> HIDE DEF S2
<1>5. q = g[m] \o Front(B, L, S[n])
  BY <1>1, <1>4
<1> DEFINE h == [k \in 0 .. m |-> g[k]]
<1>6. h \in [0 .. m -> Seq(Tests)] /\ h[0] = <<>> /\ h[m] = g[m]
  BY <1>1, <1>4, Zenon
<1>7. ASSUME NEW k \in 1 .. m PROVE h[k] = h[k - 1] \o Front(B, L, S2[k])
  <2>1. h[k] = g[k] /\ h[k - 1] = g[k - 1] /\ S2[k] = S[k] /\ k \in 1 .. n
    BY <1>3, <1>4
  <2>2. g[k] = g[k - 1] \o Front(B, L, S[k])
    BY <1>1, <2>1
  <2> QED BY <2>1, <2>2, Zenon
<1> HIDE DEF h, m
<1>8. Ran(B, L, S2, g[m])
  BY <1>3, <1>6, <1>7, Zenon DEF Ran
<1> QED BY <1>5, <1>8 DEF S2, Inner

\* A suite begins.
LEMMA RanEnter ==
  ASSUME NEW L, Nested(L), NEW B, Unfolds(B, L), NEW S, Chain(L, S), S # <<>>,
         Inner(S).entry <= Len(L[Inner(S).suite]),
         NEW u \in Suites, u = L[Inner(S).suite][Inner(S).entry],
         NEW q, Ran(B, L, S, q)
  PROVE  Ran(B, L, Entered(S, u), q)
<1> DEFINE S2 == Entered(S, u)
           n == Len(S)
           f == [suite |-> u, entry |-> 1]
           m == n + 1
<1>1. PICK g \in [0 .. n -> Seq(Tests)] :
        /\ g[0] = <<>> /\ q = g[n]
        /\ \A k \in 1 .. n : g[k] = g[k - 1] \o Front(B, L, S[k])
  BY Zenon DEF Ran
<1>2. n \in Nat /\ n >= 1
  BY ChainIs
<1>3. Len(S2) = m /\ S2[m] = f /\ \A k \in 1 .. n : S2[k] = S[k]
  BY ChainEnter
<1>4. Front(B, L, f) = <<>>
  <2>1. f \in Frames /\ f.entry = 1 /\ f.suite = u
    BY DEF Frames
  <2>2. L[u] \in Seq(Items)
    BY DEF Nested
  <2>3. Len(L[u]) \in Nat
    BY <2>2
  <2>4. f.entry \in 1 .. Len(L[f.suite]) + 1
    BY <2>1, <2>3
  <2> HIDE DEF f
  <2> QED BY <2>1, <2>4, FrontIs
<1> HIDE DEF S2, f
<1>5. g[n] \in Seq(Tests)
  BY <1>1, <1>2
<1> DEFINE h == [k \in 0 .. m |-> IF k = m THEN g[n] ELSE g[k]]
<1>6. \A k \in 0 .. m : k # m => k \in 0 .. n
  BY <1>2
<1>7. h \in [0 .. m -> Seq(Tests)]
  BY <1>1, <1>5, <1>6
<1>8. m \in 0 .. m /\ 0 \in 0 .. m /\ 0 # m /\ n # m /\ n \in 0 .. m /\ m - 1 = n
      /\ \A k \in 1 .. m : k # m => k \in 0 .. m /\ k - 1 \in 0 .. m /\ k - 1 # m /\ k \in 1 .. n
  BY <1>2
<1>9. h[0] = <<>> /\ h[m] = g[n] /\ h[n] = g[n]
  BY <1>1, <1>8, Zenon
<1>10. ASSUME NEW k \in 1 .. m PROVE h[k] = h[k - 1] \o Front(B, L, S2[k])
  <2>1. CASE k = m
    <3>1. g[n] \o <<>> = g[n]
      BY <1>5
    <3> QED BY <1>3, <1>4, <1>8, <1>9, <2>1, <3>1, Zenon
  <2>2. CASE k # m
    <3>1. k \in 0 .. m /\ k - 1 \in 0 .. m /\ k - 1 # m /\ k \in 1 .. n
      BY <1>8, <2>2
    <3>2. h[k] = g[k] /\ h[k - 1] = g[k - 1] /\ S2[k] = S[k]
      BY <1>3, <2>2, <3>1
    <3> QED BY <1>1, <3>1, <3>2, Zenon
  <2> QED BY <2>1, <2>2
<1> HIDE DEF h, m
<1>11. Ran(B, L, S2, q)
  BY <1>1, <1>3, <1>7, <1>9, <1>10, Zenon DEF Ran
<1> QED BY <1>11 DEF S2

\* A run begins, and ends.
First(s) == <<[suite |-> s, entry |-> 1]>>

LEMMA RanFirst ==
  ASSUME NEW L, Nested(L), NEW B, Unfolds(B, L), NEW s \in Suites
  PROVE  Ran(B, L, First(s), <<>>)
<1> DEFINE f == [suite |-> s, entry |-> 1]
           h == [k \in 0 .. 1 |-> <<>>]
<1>1. Len(First(s)) = 1 /\ First(s)[1] = f
  BY DEF First
<1>2. Front(B, L, f) = <<>>
  <2>1. f \in Frames /\ f.entry = 1 /\ f.suite = s
    BY DEF Frames
  <2>2. L[s] \in Seq(Items)
    BY DEF Nested
  <2>3. Len(L[s]) \in Nat
    BY <2>2
  <2>4. f.entry \in 1 .. Len(L[f.suite]) + 1
    BY <2>1, <2>3
  <2> HIDE DEF f
  <2> QED BY <2>1, <2>4, FrontIs
<1> HIDE DEF f
<1>3. h \in [0 .. 1 -> Seq(Tests)] /\ h[0] = <<>> /\ h[1] = <<>>
  OBVIOUS
<1> HIDE DEF h
<1>4. ASSUME NEW k \in 1 .. 1 PROVE h[k] = h[k - 1] \o Front(B, L, First(s)[k])
  <2>1. k = 1 /\ k - 1 = 0
    OBVIOUS
  <2>2. <<>> \o <<>> = <<>>
    OBVIOUS
  <2>3. h[k] = <<>> /\ h[k - 1] = <<>> /\ First(s)[k] = f
    BY <1>1, <1>3, <2>1
  <2> QED BY <1>2, <2>2, <2>3, Zenon
<1> QED BY <1>1, <1>3, <1>4, Zenon DEF Ran

LEMMA RanLast ==
  ASSUME NEW L, Nested(L), NEW B, Unfolds(B, L), NEW S, Chain(L, S), Len(S) = 1,
         NEW q, Ran(B, L, S, q)
  PROVE  q = Front(B, L, S[1])
<1>1. PICK g \in [0 .. Len(S) -> Seq(Tests)] :
        /\ g[0] = <<>> /\ q = g[Len(S)]
        /\ \A k \in 1 .. Len(S) : g[k] = g[k - 1] \o Front(B, L, S[k])
  BY Zenon DEF Ran
<1>2. g[1] = g[1 - 1] \o Front(B, L, S[1])
  BY <1>1
<1>3. 1 - 1 = 0
  OBVIOUS
<1>4. q = <<>> \o Front(B, L, S[1])
  BY <1>1, <1>2, <1>3
<1>5. Front(B, L, S[1]) \in Seq(Tests)
  <2>1. S # <<>>
    <3>1. Len(<<>>) = 0
      OBVIOUS
    <3>2. 1 # 0
      OBVIOUS
    <3> QED BY <3>1, <3>2, Zenon
  <2>2. 1 \in 1 .. Len(S)
    OBVIOUS
  <2> QED BY <2>1, <2>2, Fronts
<1> QED BY <1>4, <1>5

LEMMA KeptIf ==
  ASSUME NEW T, NEW B, NEW L, NEW F, NEW R, NEW C, NEW n, NEW S, NEW f,
         Running(T, B, L, F, R, C, n, S, f), NEW R2, NEW C2, NEW S2,
         \A v \in Suites : v \in T /\ ~Open(S, v) => R2[v] = R[v] /\ C2[v] = C[v] /\ ~Open(S2, v)
  PROVE  Kept(L, f, R, C, R2, C2, S2)
<1>1. ASSUME NEW i \in 1 .. f.entry - 1, L[f.suite][i] \in Suites
      PROVE  /\ R2[L[f.suite][i]] = R[L[f.suite][i]] /\ C2[L[f.suite][i]] = C[L[f.suite][i]]
             /\ ~Open(S2, L[f.suite][i])
  <2> DEFINE v == L[f.suite][i]
  <2>1. Reported(T, B, F, R, C, n, S, v)
    BY <1>1, Zenon DEF Running
  <2>2. v \in T /\ ~Open(S, v) /\ v \in Suites
    BY <1>1, <2>1, Zenon DEF Reported, Open
  <2> HIDE DEF v
  <2>3. R2[v] = R[v] /\ C2[v] = C[v] /\ ~Open(S2, v)
    BY <2>2, Zenon
  <2> QED BY <2>3 DEF v
<1> QED BY <1>1, Zenon DEF Kept

\* A run begins with nothing come to.
LEMMA RunStep ==
  ASSUME NEW L, Nested(L), NEW B, Unfolds(B, L), NEW F, NEW R, NEW C \in [Suites -> Nat],
         NEW n, NEW s \in Suites, Unlisted(L, s), n = 1 => \A v \in Suites : C[v] = 0
  PROVE  InRun({s}, B, L, F, R, C, n, First(s))
<1> DEFINE f == [suite |-> s, entry |-> 1]
           S == First(s)
<1>1. Len(S) = 1 /\ S[1] = f /\ S \in Seq([suite : Suites, entry : Nat])
  BY DEF First
<1>2. f \in Frames /\ f.entry = 1 /\ f.suite = s
  BY DEF Frames
<1> HIDE DEF S, f
<1>3. L[s] \in Seq(Items)
  BY DEF Nested
<1>4. Len(L[s]) \in Nat
  BY <1>3
<1>5. Front(B, L, f) = <<>>
  BY <1>2, <1>4, FrontIs
<1>6. Chain(L, S)
  <2>1. \A k \in 1 .. Len(S) : S[k].entry \in 1 .. Len(L[S[k].suite]) + 1
    BY <1>1, <1>2, <1>4
  <2>2. \A k \in 1 .. Len(S) - 1 : /\ S[k].entry <= Len(L[S[k].suite])
                                   /\ L[S[k].suite][S[k].entry] = S[k + 1].suite
    BY <1>1
  <2>3. \A k \in 1 .. Len(S) : \A j \in 1 .. k - 1 : S[j].suite < S[k].suite
    BY <1>1
  <2> QED BY <1>1, <2>1, <2>2, <2>3 DEF Chain
<1>7. Visited({s}, L, S)
  <2>1. \A k \in 1 .. Len(S) : S[k].suite \in {s}
    BY <1>1, <1>2
  <2>2. \A r \in Suites : \A i \in 1 .. Len(L[r]) : L[r][i] \notin {s}
    BY Zenon DEF Unlisted
  <2> QED BY <2>1, <2>2, Zenon DEF Visited
<1>8. Running({s}, B, L, F, R, C, n, S, f)
  <2>1. Within(Front(B, L, f), {s})
    <3>1. Len(<<>>) = 0 /\ \A i : i \notin 1 .. 0
      OBVIOUS
    <3> QED BY <1>5, <3>1, Zenon DEF Within
  <2>2. Tally(F, n, C[f.suite], Front(B, L, f))
    <3>1. FlatMap(Faults(F), <<>>) = <<>>
      BY FlatMapEmpty
    <3>2. C[s] \in Nat /\ (n = 1 => C[s] = 0) /\ Len(<<>>) = 0
      OBVIOUS
    <3>3. 0 <= C[s]
      BY <3>2
    <3> QED BY <1>2, <1>5, <3>1, <3>2, <3>3, Zenon DEF Tally
  <2>3. \A i : i \notin 1 .. f.entry - 1
    BY <1>2
  <2> QED BY <2>1, <2>2, <2>3, Zenon DEF Running
<1>9. \A k \in 1 .. Len(S) : Running({s}, B, L, F, R, C, n, S, S[k])
  BY <1>1, <1>8
<1>10. n = 1 => \A u \in Suites : u \notin {s} => C[u] = 0
  OBVIOUS
<1>11. InRun({s}, B, L, F, R, C, n, S)
  BY <1>6, <1>7, <1>9, <1>10, Zenon DEF InRun
<1> QED BY <1>11 DEF S

\* A test ends.
LEMMA TestStep ==
  ASSUME NEW L, Nested(L), OnePlace(L), NEW B, Unfolds(B, L), NEW F, NEW R, NEW C \in [Suites -> Nat],
         NEW n, NEW T, NEW S, InRun(T, B, L, F, R, C, n, S), S # <<>>,
         Inner(S).entry <= Len(L[Inner(S).suite]),
         NEW x \in Tests, x = L[Inner(S).suite][Inner(S).entry],
         NEW F2, F2 = F \/ F2 = F \cup {x},
         NEW C2, C2 = IF x \in F2 THEN [C EXCEPT ![Inner(S).suite] = @ + 1] ELSE C
  PROVE  InRun(T \cup {x}, B, L, F2, R, C2, n, Advanced(S))
<1> DEFINE S2 == Advanced(S)
           m == Len(S)
           T2 == T \cup {x}
           top == S[m].suite
           d == IF x \in F2 THEN 1 ELSE 0
<1>1. /\ Chain(L, S) /\ Visited(T, L, S)
      /\ n = 1 => \A u \in Suites : u \notin T => C[u] = 0
      /\ \A k \in 1 .. m : Running(T, B, L, F, R, C, n, S, S[k])
  BY Zenon DEF InRun
<1>2. /\ S \in Seq(Frames) /\ m \in Nat /\ m \in 1 .. m
      /\ \A k \in 1 .. m : S[k] \in Frames /\ S[k].suite \in Suites
                           /\ S[k].entry \in 1 .. Len(L[S[k].suite]) + 1
      /\ S[m].entry \in 1 .. Len(L[top]) /\ x = L[top][S[m].entry] /\ top \in Suites
      /\ \A k \in 1 .. m : S[k].suite = top => k = m
      /\ Inner(S) = S[m]
  BY <1>1, ChainIs DEF Inner
<1>3. /\ Len(S2) = m /\ S2[m] = Onward(S[m])
      /\ \A k \in 1 .. m : k # m => S2[k] = S[k]
      /\ \A k \in 1 .. m : S2[k].suite = S[k].suite
  BY <1>2, AdvancedIs
<1>4. Chain(L, S2) /\ Visited(T2, L, S2) /\ x \notin T
  BY <1>1, ChainOn, VisitedOn, EntryFresh
<1>5. Piece(B)[x] = <<x>> /\ x \notin Suites
  BY PieceType DEF Unfolds
<1>6. C2[top] = C[top] + d /\ \A v \in Suites : v # top => C2[v] = C[v]
  BY <1>2
<1>7. Agree(F, F2, T)
  BY <1>4 DEF Agree
<1> HIDE DEF S2
<1>8. \A v \in Suites : v \in T /\ ~Open(S, v) => C2[v] = C[v] /\ ~Open(S2, v)
  <2>1. ASSUME NEW v \in Suites, ~Open(S, v) PROVE C2[v] = C[v] /\ ~Open(S2, v)
    <3>1. v # top
      BY <1>2, <2>1 DEF Open
    <3>2. ~Open(S2, v)
      BY <1>3, <2>1 DEF Open
    <3> QED BY <1>6, <3>1, <3>2
  <2> QED BY <2>1
<1>9. \A k \in 1 .. m : Kept(L, S[k], R, C, R, C2, S2)
  <2>1. ASSUME NEW k \in 1 .. m PROVE Kept(L, S[k], R, C, R, C2, S2)
    <3>1. Running(T, B, L, F, R, C, n, S, S[k])
      BY <1>1
    <3> QED BY <1>8, <3>1, KeptIf
  <2> QED BY <2>1
<1> DEFINE fr == S[m]
<1>10. Running(T2, B, L, F2, R, C2, n, S2, Onward(fr))
  <2>1. Within(Piece(B)[x], T2)
    <3> DEFINE q == <<x>>
    <3>1. \A i \in 1 .. Len(q) : q[i] = x
      OBVIOUS
    <3>2. x \in T2
      OBVIOUS
    <3> HIDE DEF q
    <3>3. Within(q, T2)
      BY <3>1, <3>2, Zenon DEF Within
    <3> QED BY <1>5, <3>3, Zenon DEF q
  <2>2. Tally(F2, n, d, Piece(B)[x])
    <3>1. Tally(F2, n, d, <<x>>)
      BY TallyOne
    <3> QED BY <1>5, <3>1, Zenon
  <2>3. /\ fr \in Frames /\ fr.entry \in 1 .. Len(L[fr.suite]) /\ x = L[fr.suite][fr.entry]
        /\ C2[fr.suite] = C[fr.suite] + d
        /\ Running(T, B, L, F, R, C, n, S, fr) /\ Kept(L, fr, R, C, R, C2, S2)
    BY <1>1, <1>2, <1>6, <1>9
  <2>4. T \subseteq T2
    OBVIOUS
  <2> HIDE DEF fr, d, T2
  <2> QED BY <1>5, <1>7, <2>1, <2>2, <2>3, <2>4, RunningOn
<1>11. ASSUME NEW k \in 1 .. m, k # m PROVE Running(T2, B, L, F2, R, C2, n, S2, S[k])
  <2> DEFINE f == S[k]
  <2>1. /\ f \in Frames /\ f.entry \in 1 .. Len(L[f.suite]) + 1 /\ C2[f.suite] = C[f.suite]
        /\ Running(T, B, L, F, R, C, n, S, f) /\ Kept(L, f, R, C, R, C2, S2)
    BY <1>1, <1>2, <1>6, <1>9, <1>11
  <2>2. T \subseteq T2
    OBVIOUS
  <2> HIDE DEF f, T2
  <2>3. Running(T2, B, L, F2, R, C2, n, S2, f)
    BY <1>7, <2>1, <2>2, RunningStays
  <2> QED BY <2>3 DEF f
<1>12. \A k \in 1 .. Len(S2) : Running(T2, B, L, F2, R, C2, n, S2, S2[k])
  <2>1. ASSUME NEW k \in 1 .. m PROVE Running(T2, B, L, F2, R, C2, n, S2, S2[k])
    <3>1. CASE k = m
      BY <1>3, <1>10, <3>1, Zenon
    <3>2. CASE k # m
      BY <1>3, <1>11, <3>2, Zenon
    <3> QED BY <3>1, <3>2
  <2> QED BY <1>3, <2>1
<1>13. n = 1 => \A u \in Suites : u \notin T2 => C2[u] = 0
  <2>1. top \in T
    BY <1>1, <1>2 DEF Visited
  <2> QED BY <1>1, <1>6, <2>1
<1>14. InRun(T2, B, L, F2, R, C2, n, S2)
  BY <1>4, <1>12, <1>13, Zenon DEF InRun
<1> QED BY <1>14 DEF S2

\* A suite begins inside another.
LEMMA EnterStep ==
  ASSUME NEW L, Nested(L), OnePlace(L), NEW B, Unfolds(B, L), NEW F, NEW R, NEW C \in [Suites -> Nat],
         NEW n, NEW T, NEW S, InRun(T, B, L, F, R, C, n, S), S # <<>>,
         Inner(S).entry <= Len(L[Inner(S).suite]),
         NEW u \in Suites, u = L[Inner(S).suite][Inner(S).entry]
  PROVE  InRun(T \cup {u}, B, L, F, R, C, n, Entered(S, u))
<1> DEFINE S2 == Entered(S, u)
           m == Len(S)
           T2 == T \cup {u}
           e == [suite |-> u, entry |-> 1]
<1>1. /\ Chain(L, S) /\ Visited(T, L, S)
      /\ n = 1 => \A v \in Suites : v \notin T => C[v] = 0
      /\ \A k \in 1 .. m : Running(T, B, L, F, R, C, n, S, S[k])
  BY Zenon DEF InRun
<1>2. /\ m \in Nat
      /\ \A k \in 1 .. m : S[k] \in Frames /\ S[k].entry \in 1 .. Len(L[S[k].suite]) + 1
  BY <1>1, ChainIs
<1>3. /\ Chain(L, S2) /\ Len(S2) = m + 1 /\ S2[m + 1] = e
      /\ \A k \in 1 .. m : S2[k] = S[k]
  BY <1>1, ChainEnter
<1>4. Visited(T2, L, S2) /\ u \notin T
  BY <1>1, VisitedEnter, EntryFresh
<1>5. e \in Frames /\ e.entry = 1 /\ e.suite = u
  BY DEF Frames
<1>6. Agree(F, F, T) /\ T \subseteq T2
  BY DEF Agree
<1> HIDE DEF S2, e
<1>7. \A v \in Suites : v \in T /\ ~Open(S, v) => ~Open(S2, v)
  <2>1. ASSUME NEW v \in Suites, v \in T, ~Open(S, v), NEW k \in 1 .. m + 1, S2[k].suite = v
        PROVE  FALSE
    <3>1. CASE k = m + 1
      BY <1>3, <1>4, <1>5, <2>1, <3>1
    <3>2. CASE k # m + 1
      <4>1. k \in 1 .. m
        BY <1>2, <3>2
      <4> QED BY <1>3, <2>1, <4>1 DEF Open
    <3> QED BY <3>1, <3>2
  <2> QED BY <1>3, <2>1 DEF Open
<1>8. ASSUME NEW k \in 1 .. m PROVE Running(T2, B, L, F, R, C, n, S2, S[k])
  <2> DEFINE f == S[k]
  <2>1. Running(T, B, L, F, R, C, n, S, f)
    BY <1>1
  <2>2. Kept(L, f, R, C, R, C, S2)
    BY <1>7, <2>1, KeptIf
  <2>3. f \in Frames /\ f.entry \in 1 .. Len(L[f.suite]) + 1
    BY <1>2
  <2> HIDE DEF f, T2
  <2>4. Running(T2, B, L, F, R, C, n, S2, f)
    BY <1>6, <2>1, <2>2, <2>3, RunningStays
  <2> QED BY <2>4 DEF f
<1>9. Running(T2, B, L, F, R, C, n, S2, e)
  <2>1. L[u] \in Seq(Items)
    BY DEF Nested
  <2>2. Len(L[u]) \in Nat
    BY <2>1
  <2>3. Front(B, L, e) = <<>>
    BY <1>5, <2>2, FrontIs
  <2>4. Within(Front(B, L, e), T2)
    <3>1. Len(<<>>) = 0 /\ \A i : i \notin 1 .. 0
      OBVIOUS
    <3> QED BY <2>3, <3>1, Zenon DEF Within
  <2>5. Tally(F, n, C[e.suite], Front(B, L, e))
    <3>1. FlatMap(Faults(F), <<>>) = <<>>
      BY FlatMapEmpty
    <3>2. C[u] \in Nat /\ (n = 1 => C[u] = 0) /\ Len(<<>>) = 0
      BY <1>1, <1>4
    <3>3. 0 <= C[u]
      BY <3>2
    <3> QED BY <1>5, <2>3, <3>1, <3>2, <3>3, Zenon DEF Tally
  <2>6. \A i : i \notin 1 .. e.entry - 1
    BY <1>5
  <2> QED BY <2>4, <2>5, <2>6, Zenon DEF Running
<1>10. \A k \in 1 .. Len(S2) : Running(T2, B, L, F, R, C, n, S2, S2[k])
  <2>1. ASSUME NEW k \in 1 .. m + 1 PROVE Running(T2, B, L, F, R, C, n, S2, S2[k])
    <3>1. CASE k = m + 1
      BY <1>3, <1>9, <3>1, Zenon
    <3>2. CASE k # m + 1
      <4>1. k \in 1 .. m
        BY <1>2, <3>2
      <4> QED BY <1>3, <1>8, <4>1, Zenon
    <3> QED BY <3>1, <3>2
  <2> QED BY <1>3, <2>1
<1>11. n = 1 => \A v \in Suites : v \notin T2 => C[v] = 0
  BY <1>1
<1>12. InRun(T2, B, L, F, R, C, n, S2)
  BY <1>3, <1>4, <1>10, <1>11, Zenon DEF InRun
<1> QED BY <1>12 DEF S2

\* The suite f is at the suite x, which has run, with d failed tests.
Behind(L, B, f, T, F, R, C, n, S, S2, R2, C2, x, d) ==
  /\ f \in Frames /\ f.entry \in 1 .. Len(L[f.suite]) /\ x = L[f.suite][f.entry]
  /\ Running(T, B, L, F, R, C, n, S, f) /\ Kept(L, f, R, C, R2, C2, S2)
  /\ Within(Piece(B)[x], T) /\ Tally(F, n, d, Piece(B)[x]) /\ C2[f.suite] = C[f.suite] + d
  /\ x \in Suites => Reported(T, B, F, R2, C2, n, S2, x)

LEMMA RunningBehind ==
  ASSUME NEW L, Nested(L), NEW B, Unfolds(B, L), NEW f, NEW T, NEW F, NEW R, NEW C, NEW n, NEW S,
         NEW S2, NEW R2, NEW C2, NEW x, NEW d,
         Behind(L, B, f, T, F, R, C, n, S, S2, R2, C2, x, d)
  PROVE  Running(T, B, L, F, R2, C2, n, S2, Onward(f))
<1>1. T \subseteq T /\ Agree(F, F, T)
  BY DEF Agree
<1>2. /\ f \in Frames /\ f.entry \in 1 .. Len(L[f.suite]) /\ x = L[f.suite][f.entry]
      /\ Running(T, B, L, F, R, C, n, S, f) /\ Kept(L, f, R, C, R2, C2, S2)
      /\ Within(Piece(B)[x], T) /\ Tally(F, n, d, Piece(B)[x]) /\ C2[f.suite] = C[f.suite] + d
      /\ x \in Suites => Reported(T, B, F, R2, C2, n, S2, x)
  BY Zenon DEF Behind
<1> QED BY <1>1, <1>2, RunningOn

\* A suite inside another ends.
LeavesTo(B, L, F, R, C, S, u, r, R2, C2) ==
  /\ Len(S) > 1 /\ Inner(S).entry > Len(L[Inner(S).suite]) /\ u = Inner(S).suite
  /\ \A v \in Suites : R2[v] = IF v = u THEN r ELSE R[v]
  /\ r.summary = FlatMap(Marks(F), B[u]) /\ r.lines = FlatMap(Faults(F), B[u])
  /\ C2 = [C EXCEPT ![Inner(Outer(S)).suite] = @ + C[u]]

LEMMA LeaveStep ==
  ASSUME NEW L, Nested(L), OnePlace(L), NEW B, Unfolds(B, L), NEW F, NEW R, NEW C \in [Suites -> Nat],
         NEW n, NEW T, NEW S, InRun(T, B, L, F, R, C, n, S),
         NEW u, NEW r, NEW R2, NEW C2, LeavesTo(B, L, F, R, C, S, u, r, R2, C2)
  PROVE  InRun(T, B, L, F, R2, C2, n, Advanced(Outer(S)))
<1> SUFFICES ASSUME Len(S) > 1, Inner(S).entry > Len(L[Inner(S).suite]), u = Inner(S).suite,
                    \A v \in Suites : R2[v] = IF v = u THEN r ELSE R[v],
                    r.summary = FlatMap(Marks(F), B[u]), r.lines = FlatMap(Faults(F), B[u]),
                    C2 = [C EXCEPT ![Inner(Outer(S)).suite] = @ + C[u]]
             PROVE  InRun(T, B, L, F, R2, C2, n, Advanced(Outer(S)))
  BY Zenon DEF LeavesTo
<1> DEFINE S2 == Advanced(Outer(S))
           m == Len(S)
           p == m - 1
           w == S[p].suite
           d == C[u]
<1>0. S # <<>>
  BY DEF Chain
<1>1. /\ Chain(L, S) /\ Visited(T, L, S)
      /\ n = 1 => \A v \in Suites : v \notin T => C[v] = 0
      /\ \A k \in 1 .. m : Running(T, B, L, F, R, C, n, S, S[k])
  BY Zenon DEF InRun
<1>2. /\ m \in Nat
      /\ \A k \in 1 .. m : S[k] \in Frames /\ S[k].suite \in Suites
                           /\ S[k].entry \in 1 .. Len(L[S[k].suite]) + 1
      /\ \A k \in 1 .. m : \A j \in 1 .. m : S[k].suite = S[j].suite => k = j
      /\ Inner(S) = S[m] /\ u = S[m].suite
  BY <1>0, <1>1, ChainIs DEF Inner
<1>3. /\ Chain(L, S2) /\ Len(S2) = p /\ S2[p] = Onward(S[p])
      /\ \A k \in 1 .. p : k # p => S2[k] = S[k]
      /\ \A k \in 1 .. p : S2[k].suite = S[k].suite
      /\ S[p].entry \in 1 .. Len(L[w])
      /\ L[w][S[p].entry] = u
  BY <1>1, <1>2, LeftIs
<1>4. /\ m \in 1 .. m /\ p \in 1 .. m /\ p # m /\ p \in 1 .. p
      /\ \A k \in 1 .. p : k \in 1 .. m /\ k # m
  BY <1>2
<1>5. Inner(Outer(S)).suite = w
  BY <1>1, ChainOuter
<1>6. w \in Suites /\ u \in Suites /\ w # u /\ u \in T /\ w \in T
  <2>1. u \in Suites /\ w \in Suites /\ w # u
    BY <1>2, <1>4
  <2>2. u \in T /\ w \in T
    BY <1>1, <1>2, <1>4 DEF Visited
  <2> QED BY <2>1, <2>2
<1>7. C2[w] = C[w] + d /\ \A v \in Suites : v # w => C2[v] = C[v]
  BY <1>5, <1>6
<1>8. Visited(T, L, S2)
  BY <1>1, VisitedLeave
<1>9. Agree(F, F, T) /\ T \subseteq T
  BY DEF Agree
<1> HIDE DEF S2, d, p
<1>10. \A k \in 1 .. p : S2[k].suite # u
  <2>1. ASSUME NEW k \in 1 .. p, S2[k].suite = u PROVE FALSE
    <3>1. k \in 1 .. m /\ k # m
      BY <1>4
    <3>2. S[k].suite = S[m].suite
      BY <1>2, <1>3, <2>1
    <3> QED BY <1>2, <1>4, <3>1, <3>2
  <2> QED BY <2>1
<1>11. \A v \in Suites : v \in T /\ ~Open(S, v) => R2[v] = R[v] /\ C2[v] = C[v] /\ ~Open(S2, v)
  <2>1. ASSUME NEW v \in Suites, ~Open(S, v) PROVE R2[v] = R[v] /\ C2[v] = C[v] /\ ~Open(S2, v)
    <3>1. v # u /\ v # w
      BY <1>2, <1>4, <2>1 DEF Open
    <3>2. \A k \in 1 .. p : S2[k].suite # v
      BY <1>3, <1>4, <2>1 DEF Open
    <3>3. ~Open(S2, v)
      BY <1>3, <3>2 DEF Open
    <3> QED BY <1>7, <3>1, <3>3
  <2> QED BY <2>1
<1>12. \A k \in 1 .. m : Kept(L, S[k], R, C, R2, C2, S2)
  <2>1. ASSUME NEW k \in 1 .. m PROVE Kept(L, S[k], R, C, R2, C2, S2)
    <3>1. Running(T, B, L, F, R, C, n, S, S[k])
      BY <1>1
    <3> QED BY <1>11, <3>1, KeptIf
  <2> QED BY <2>1
<1>13. Within(B[u], T) /\ Tally(F, n, d, B[u])
  <2> DEFINE f == S[m]
  <2>1. Running(T, B, L, F, R, C, n, S, f)
    BY <1>1, <1>4
  <2>2. /\ f \in Frames /\ f.entry \in 1 .. Len(L[f.suite]) + 1 /\ f.suite = u
        /\ f.entry > Len(L[f.suite])
    BY <1>2, <1>4
  <2> HIDE DEF f
  <2>3. Front(B, L, f) = B[u]
    BY <2>2, FrontIs
  <2> QED BY <2>1, <2>2, <2>3, Zenon DEF Running, d
<1>14. Reported(T, B, F, R2, C2, n, S2, u)
  <2>1. R2[u] = r /\ C2[u] = d
    BY <1>6, <1>7 DEF d
  <2>2. \A k \in 1 .. Len(S2) : S2[k].suite # u
    BY <1>3, <1>10
  <2> QED BY <1>6, <1>13, <2>1, <2>2, Zenon DEF Reported
<1> DEFINE fr == S[p]
<1>15. Running(T, B, L, F, R2, C2, n, S2, Onward(fr))
  <2>1. Piece(B)[u] = B[u]
    BY <1>6, PieceType DEF Unfolds
  <2>2. Within(Piece(B)[u], T) /\ Tally(F, n, d, Piece(B)[u])
    BY <1>13, <2>1, Zenon
  <2>3. /\ fr \in Frames /\ fr.entry \in 1 .. Len(L[fr.suite]) /\ u = L[fr.suite][fr.entry]
        /\ C2[fr.suite] = C[fr.suite] + d
        /\ Running(T, B, L, F, R, C, n, S, fr) /\ Kept(L, fr, R, C, R2, C2, S2)
    BY <1>1, <1>2, <1>3, <1>4, <1>7, <1>12
  <2>4. u \in Suites => Reported(T, B, F, R2, C2, n, S2, u)
    BY <1>14
  <2> HIDE DEF fr, m, w
  <2>5. Behind(L, B, fr, T, F, R, C, n, S, S2, R2, C2, u, d)
    BY <2>2, <2>3, <2>4, Zenon DEF Behind
  <2> QED BY <2>5, RunningBehind, Zenon
<1>16. ASSUME NEW k \in 1 .. p, k # p PROVE Running(T, B, L, F, R2, C2, n, S2, S[k])
  <2> DEFINE f == S[k]
  <2>0. k \in 1 .. m /\ f.suite # w
    BY <1>2, <1>4, <1>16
  <2>1. /\ f \in Frames /\ f.entry \in 1 .. Len(L[f.suite]) + 1 /\ C2[f.suite] = C[f.suite]
        /\ Running(T, B, L, F, R, C, n, S, f) /\ Kept(L, f, R, C, R2, C2, S2)
    BY <1>1, <1>2, <1>7, <1>12, <2>0
  <2> HIDE DEF f
  <2>3. Running(T, B, L, F, R2, C2, n, S2, f)
    BY <1>9, <2>1, RunningStays
  <2> QED BY <2>3 DEF f
<1>17. \A k \in 1 .. Len(S2) : Running(T, B, L, F, R2, C2, n, S2, S2[k])
  <2>1. ASSUME NEW k \in 1 .. p PROVE Running(T, B, L, F, R2, C2, n, S2, S2[k])
    <3>1. CASE k = p
      BY <1>3, <1>15, <3>1, Zenon
    <3>2. CASE k # p
      BY <1>3, <1>16, <3>2, Zenon
    <3> QED BY <3>1, <3>2
  <2> QED BY <1>3, <2>1
<1>18. n = 1 => \A v \in Suites : v \notin T => C2[v] = 0
  BY <1>1, <1>6, <1>7
<1>19. InRun(T, B, L, F, R2, C2, n, S2)
  BY <1>3, <1>8, <1>17, <1>18, Zenon DEF InRun
<1> QED BY <1>19 DEF S2

\* What the report of a suite that has come to its end says.
Summaries(R, F) == [e \in Items |-> IF e \in Suites THEN R[e].summary
                                    ELSE IF e \in F THEN <<"F">> ELSE <<".">>]
Messages(R, C, F) == [e \in Items |-> IF e \in Suites
                                      THEN IF C[e] > 0 THEN R[e].lines ELSE <<>>
                                      ELSE IF e \in F THEN <<e>> ELSE <<>>]

LEMMA ReportsAre ==
  ASSUME NEW L, Nested(L), NEW B, Unfolds(B, L), NEW F, NEW R, NEW C \in [Suites -> Nat],
         NEW n, NEW T, NEW S, NEW f \in Frames, Running(T, B, L, F, R, C, n, S, f),
         f.entry = Len(L[f.suite]) + 1
  PROVE  /\ FlatMap(Summaries(R, F), L[f.suite]) = FlatMap(Marks(F), B[f.suite])
         /\ FlatMap(Messages(R, C, F), L[f.suite]) = FlatMap(Faults(F), B[f.suite])
<1> DEFINE u == f.suite
           P == Piece(B)
<1>1. u \in Suites /\ B \in [Suites -> Seq(Tests)] /\ B[u] = FlatMap(P, L[u])
  BY DEF Unfolds, Frames
<1>2. L[u] \in Seq(Items) /\ Len(L[u]) \in Nat /\ f.entry - 1 = Len(L[u])
  <2>1. L[u] \in Seq(Items)
    BY <1>1 DEF Nested
  <2>2. Len(L[u]) \in Nat
    BY <2>1
  <2> QED BY <2>1, <2>2
<1>3. P \in [Items -> Seq(Tests)] /\ (\A v \in Suites : P[v] = B[v])
      /\ \A t \in Tests : P[t] = <<t>> /\ t \notin Suites
  BY <1>1, PieceType
<1>4. \A i \in 1 .. Len(L[u]) : L[u][i] \in Suites => Reported(T, B, F, R, C, n, S, L[u][i])
  BY <1>2 DEF Running
<1>5. Marks(F) \in [Tests -> Seq({"F", "."})] /\ Faults(F) \in [Tests -> Seq(Tests)]
  <2>1. <<>> \in Seq(Tests)
    OBVIOUS
  <2> QED BY <2>1, FaultsType
<1> HIDE DEF u, P
<1>6. FlatMap(Marks(F), B[u]) = FlatMap([e \in Items |-> FlatMap(Marks(F), P[e])], L[u])
  <2> DEFINE h == [e \in Items |-> FlatMap(Marks(F), P[e])]
  <2>1. h \in [Items -> Seq({"F", "."})] /\ \A e \in Items : h[e] = FlatMap(Marks(F), P[e])
    <3>1. ASSUME NEW e \in Items PROVE FlatMap(Marks(F), P[e]) \in Seq({"F", "."})
      BY <1>3, <1>5, FlatMapType
    <3> QED BY <3>1, Zenon
  <2> HIDE DEF h
  <2>2. Twice(Marks(F), P, h, L[u])
    BY <1>2, <1>3, <1>5, <2>1, FlatMapTwice
  <2> QED BY <1>1, <2>2, Zenon DEF h, Twice
<1>7. FlatMap(Faults(F), B[u]) = FlatMap([e \in Items |-> FlatMap(Faults(F), P[e])], L[u])
  <2> DEFINE h == [e \in Items |-> FlatMap(Faults(F), P[e])]
  <2>1. h \in [Items -> Seq(Tests)] /\ \A e \in Items : h[e] = FlatMap(Faults(F), P[e])
    <3>1. ASSUME NEW e \in Items PROVE FlatMap(Faults(F), P[e]) \in Seq(Tests)
      BY <1>3, <1>5, FlatMapType
    <3> QED BY <3>1, Zenon
  <2> HIDE DEF h
  <2>2. Twice(Faults(F), P, h, L[u])
    BY <1>2, <1>3, <1>5, <2>1, FlatMapTwice
  <2> QED BY <1>1, <2>2, Zenon DEF h, Twice
<1>8. ASSUME NEW e \in Items, e \in Suites => Reported(T, B, F, R, C, n, S, e)
      PROVE  /\ Summaries(R, F)[e] = FlatMap(Marks(F), P[e])
             /\ Messages(R, C, F)[e] = FlatMap(Faults(F), P[e])
  <2>1. CASE e \in Suites
    <3>1. /\ R[e].summary = FlatMap(Marks(F), B[e]) /\ R[e].lines = FlatMap(Faults(F), B[e])
          /\ Tally(F, n, C[e], B[e])
      BY <1>8, <2>1, Zenon DEF Reported
    <3>2. Summaries(R, F)[e] = R[e].summary
          /\ Messages(R, C, F)[e] = IF C[e] > 0 THEN R[e].lines ELSE <<>>
      BY <2>1, Zenon DEF Summaries, Messages
    <3>3. CASE C[e] > 0
      BY <1>3, <2>1, <3>1, <3>2, <3>3
    <3>4. CASE ~(C[e] > 0)
      <4>1. FlatMap(Faults(F), B[e]) = <<>>
        <5> DEFINE q == FlatMap(Faults(F), B[e])
        <5>1. B[e] \in Seq(Tests)
          BY <1>1, <2>1
        <5>2. q \in Seq(Tests)
          BY <5>1, FaultsType
        <5>3. Len(q) <= C[e] /\ C[e] \in Nat
          BY <3>1, Zenon DEF Tally
        <5> HIDE DEF q
        <5>4. q = <<>>
          BY <3>4, <5>2, <5>3
        <5> QED BY <5>4 DEF q
      <4> QED BY <1>3, <2>1, <3>1, <3>2, <3>4, <4>1
    <3> QED BY <3>3, <3>4
  <2>2. CASE e \notin Suites
    <3>1. e \in Tests
      BY <2>2 DEF Items
    <3>2. P[e] = <<e>>
      BY <1>3, <3>1
    <3>3. FlatMap(Marks(F), <<e>>) = Marks(F)[e] /\ FlatMap(Faults(F), <<e>>) = Faults(F)[e]
      BY <1>5, <3>1, FlatMapOne
    <3>4. Marks(F)[e] = (IF e \in F THEN <<"F">> ELSE <<".">>)
          /\ Faults(F)[e] = (IF e \in F THEN <<e>> ELSE <<>>)
      BY <3>1, Zenon DEF Marks, Faults
    <3>5. Summaries(R, F)[e] = (IF e \in F THEN <<"F">> ELSE <<".">>)
          /\ Messages(R, C, F)[e] = (IF e \in F THEN <<e>> ELSE <<>>)
      BY <2>2, Zenon DEF Summaries, Messages
    <3> QED BY <3>2, <3>3, <3>4, <3>5, Zenon
  <2> QED BY <2>1, <2>2
<1>9. \A i \in 1 .. Len(L[u]) : L[u][i] \in Items
  BY <1>2
<1>10. FlatMap(Summaries(R, F), L[u]) = FlatMap([e \in Items |-> FlatMap(Marks(F), P[e])], L[u])
  <2> DEFINE g == [e \in Items |-> FlatMap(Marks(F), P[e])]
             h == Summaries(R, F)
  <2>1. \A i \in 1 .. Len(L[u]) : h[L[u][i]] = g[L[u][i]]
    BY <1>4, <1>8, <1>9, Zenon
  <2> HIDE DEF g, h
  <2>2. FlatMap(h, L[u]) = FlatMap(g, L[u])
    BY <1>2, <2>1, FlatMapAgree
  <2> QED BY <2>2 DEF g, h
<1>11. FlatMap(Messages(R, C, F), L[u]) = FlatMap([e \in Items |-> FlatMap(Faults(F), P[e])], L[u])
  <2> DEFINE g == [e \in Items |-> FlatMap(Faults(F), P[e])]
             h == Messages(R, C, F)
  <2>1. \A i \in 1 .. Len(L[u]) : h[L[u][i]] = g[L[u][i]]
    BY <1>4, <1>8, <1>9, Zenon
  <2> HIDE DEF g, h
  <2>2. FlatMap(h, L[u]) = FlatMap(g, L[u])
    BY <1>2, <2>1, FlatMapAgree
  <2> QED BY <2>2 DEF g, h
<1> QED BY <1>6, <1>7, <1>10, <1>11 DEF u

LEMMA BelowUnfolds == ASSUME NEW L, Nested(L) PROVE Unfolds(BelowOf(L), L)
  BY BelowIs DEF Unfolds

LEMMA UnlistedIs ==
  ASSUME Nested(list), NEW e, e \notin Suite!Listed
  PROVE  Unlisted(list, e)
<1>1. ASSUME NEW r \in Suites, NEW i \in 1 .. Len(list[r]), list[r][i] = e PROVE FALSE
  <2>1. list[r] \in Seq(Items)
    BY DEF Nested
  <2>2. i \in DOMAIN list[r]
    BY <2>1
  <2>3. e \in Suite!ToSet(list[r])
    BY <1>1, <2>2 DEF Suite!ToSet
  <2> QED BY <2>3 DEF Suite!Listed
<1> QED BY <1>1 DEF Unlisted

LEMMA SuiteInitial == Suite!Init => SuiteInv
<1> SUFFICES ASSUME Suite!Init PROVE SuiteInv
  OBVIOUS
<1>1. /\ list = [s \in Suites |-> <<>>] /\ count = [s \in Suites |-> 0]
      /\ failCount = [s \in Suites |-> 0] /\ reports = [s \in Suites |-> <<>>]
      /\ running = <<>> /\ runs = 0
  BY Zenon DEF Suite!Init
<1>2. \A s \in Suites : list[s] = <<>> /\ list[s] \in Seq(Items) /\ Len(list[s]) = 0
  BY <1>1
<1>3. Nested(list) /\ OnePlace(list)
  <2>1. list \in [Suites -> Seq(Items)]
    BY <1>1
  <2>2. \A i : i \notin 1 .. 0
    OBVIOUS
  <2> QED BY <1>2, <2>1, <2>2 DEF Nested, OnePlace
<1>4. Counts(BelowOf(list), count)
  <2>1. ASSUME NEW s \in Suites PROVE count[s] = Len(BelowOf(list)[s])
    <3>1. BelowOf(list)[s] = FlatMap(Piece(BelowOf(list)), <<>>)
      BY <1>2, <1>3, BelowIs
    <3>2. BelowOf(list)[s] = <<>>
      BY <3>1, FlatMapEmpty
    <3> QED BY <1>1, <3>2
  <2> QED BY <2>1 DEF Counts
<1>5. count \in [Suites -> Nat] /\ failCount \in [Suites -> Nat] /\ runs \in Nat
      /\ reports = [s \in Suites |-> reports[s]] /\ \A s \in Suites : failCount[s] = 0
  BY <1>1
<1> QED BY <1>1, <1>3, <1>4, <1>5, Zenon DEF SuiteInv

\* What is left to show of a step that leaves the lists alone.
LEMMA SuiteRuns ==
  ASSUME SuiteInv, list' = list, count' = count, late' = late,
         failCount' \in [Suites -> Nat], reports' = [s \in Suites |-> reports'[s]],
         runs' \in Nat, runs' # 0,
         running' # <<>> =>
           /\ Ran(BelowOf(list), list, running', ran')
           /\ \E T \in SUBSET Items :
                InRun(T, BelowOf(list), list, failed', reports', failCount', runs', running')
  PROVE  SuiteInv'
<1>1. /\ Nested(list) /\ OnePlace(list) /\ count \in [Suites -> Nat]
      /\ ~late => Counts(BelowOf(list), count)
  BY Zenon DEF SuiteInv
<1>2. Nested(list') /\ OnePlace(list') /\ count' \in [Suites -> Nat]
      /\ (~late' => Counts(BelowOf(list'), count'))
  BY <1>1, Zenon
<1>3. running' # <<>> =>
           /\ Ran(BelowOf(list'), list', running', ran')
           /\ \E T \in SUBSET Items :
                InRun(T, BelowOf(list'), list', failed', reports', failCount', runs', running')
  BY Zenon
<1> QED BY <1>2, <1>3, Zenon DEF SuiteInv

\* Something is put into a suite, which stands in no other unless late is set.
LEMMA SuitePuts ==
  ASSUME SuiteInv, running = <<>>, NEW s \in Suites, NEW e \in Items, e \notin Suite!Listed,
         e \in Suites => e > s, list' = [list EXCEPT ![s] = Append(@, e)],
         NEW d \in Nat, count' = [count EXCEPT ![s] = @ + d],
         ~late => d = Len(Piece(BelowOf(list))[e]),
         late' = (late \/ s \in Suite!Listed),
         UNCHANGED <<failCount, reports, running, runs>>
  PROVE  SuiteInv'
<1>1. /\ Nested(list) /\ OnePlace(list) /\ count \in [Suites -> Nat] /\ failCount \in [Suites -> Nat]
      /\ ~late => Counts(BelowOf(list), count)
      /\ reports = [r \in Suites |-> reports[r]] /\ runs \in Nat
      /\ runs = 0 => \A r \in Suites : failCount[r] = 0
  BY Zenon DEF SuiteInv
<1>2. Unlisted(list, e)
  BY <1>1, UnlistedIs
<1>3. list' = Put(list, s, e)
  BY DEF Put
<1>4. Nested(list') /\ OnePlace(list')
  <2>1. Nested(Put(list, s, e)) /\ OnePlace(Put(list, s, e))
    BY <1>1, <1>2, PutNested
  <2> QED BY <1>3, <2>1
<1>5. count' \in [Suites -> Nat]
  BY <1>1
<1>6. ASSUME ~late' PROVE Counts(BelowOf(list'), count')
  <2>1. ~late /\ s \notin Suite!Listed
    BY <1>6
  <2>2. Unlisted(list, s)
    BY <1>1, <2>1, UnlistedIs
  <2>3. Counts(BelowOf(Put(list, s, e)), [count EXCEPT ![s] = @ + Len(Piece(BelowOf(list))[e])])
    BY <1>1, <1>2, <2>1, <2>2, PutCounts
  <2>4. count' = [count EXCEPT ![s] = @ + Len(Piece(BelowOf(list))[e])]
    BY <2>1
  <2> QED BY <1>3, <2>3, <2>4, Zenon
<1>7. /\ running' = <<>> /\ failCount' \in [Suites -> Nat] /\ runs' \in Nat
      /\ reports' = [r \in Suites |-> reports'[r]]
      /\ runs' = 0 => \A r \in Suites : failCount'[r] = 0
  BY <1>1
<1> QED BY <1>4, <1>5, <1>6, <1>7, Zenon DEF SuiteInv

LEMMA RanType == ASSUME NEW B, NEW L, NEW S, NEW q, Ran(B, L, S, q), Len(S) \in Nat
                 PROVE  q \in Seq(Tests)
<1>1. PICK g \in [0 .. Len(S) -> Seq(Tests)] : q = g[Len(S)]
  BY Zenon DEF Ran
<1>2. Len(S) \in 0 .. Len(S)
  OBVIOUS
<1> QED BY <1>1, <1>2, Zenon

\* What holds while a suite runs.
LEMMA SuiteRunning ==
  ASSUME SuiteInv, running # <<>>
  PROVE  /\ Nested(list) /\ OnePlace(list) /\ Unfolds(BelowOf(list), list)
         /\ failCount \in [Suites -> Nat] /\ reports = [s \in Suites |-> reports[s]]
         /\ runs \in Nat /\ runs # 0
         /\ Ran(BelowOf(list), list, running, ran)
         /\ \E T \in SUBSET Items :
              InRun(T, BelowOf(list), list, failed, reports, failCount, runs, running)
         /\ Chain(list, running)
<1>1. /\ Nested(list) /\ OnePlace(list)
      /\ failCount \in [Suites -> Nat] /\ reports = [s \in Suites |-> reports[s]]
      /\ runs \in Nat /\ runs # 0
      /\ Ran(BelowOf(list), list, running, ran)
      /\ \E T \in SUBSET Items :
              InRun(T, BelowOf(list), list, failed, reports, failCount, runs, running)
  BY Zenon DEF SuiteInv
<1>2. Unfolds(BelowOf(list), list)
  BY <1>1, BelowUnfolds
<1>3. Chain(list, running)
  BY <1>1, Zenon DEF InRun
<1> QED BY <1>1, <1>2, <1>3, Zenon

LEMMA TopIs ==
  ASSUME SuiteInv, running # <<>>
  PROVE  /\ Suite!Top = Inner(running)
         /\ Suite!Top.suite \in Suites
         /\ list[Inner(running).suite] \in Seq(Items) /\ Len(list[Inner(running).suite]) \in Nat
         /\ Inner(running).entry \in 1 .. Len(list[Inner(running).suite]) + 1
         /\ Suite!Over <=> Inner(running).entry > Len(list[Inner(running).suite])
         /\ Suite!Entry = list[Inner(running).suite][Inner(running).entry]
         /\ Len(running) \in Nat /\ Len(running) \in 1 .. Len(running)
<1>1. Nested(list) /\ Chain(list, running)
  BY SuiteRunning
<1>2. Suite!Top = Inner(running)
  BY DEF Suite!Top, Inner
<1>3. /\ Len(running) \in Nat /\ Len(running) \in 1 .. Len(running)
  BY <1>1, ChainIs
<1>4. /\ Inner(running).suite \in Suites
      /\ list[Inner(running).suite] \in Seq(Items) /\ Len(list[Inner(running).suite]) \in Nat
      /\ Inner(running).entry \in 1 .. Len(list[Inner(running).suite]) + 1
  BY <1>1, <1>3, ChainIs, Zenon DEF Inner
<1>5. Suite!Over <=> Inner(running).entry > Len(list[Inner(running).suite])
  BY <1>2, Zenon DEF Suite!Over
<1>6. Suite!Entry = list[Inner(running).suite][Inner(running).entry]
  BY <1>2, Zenon DEF Suite!Entry
<1> QED BY <1>2, <1>3, <1>4, <1>5, <1>6, Zenon

LEMMA AdvanceIs == \A S : Suite!Advance(S) = Advanced(S)
  BY Zenon DEF Suite!Advance, Advanced

LEMMA TestEnds == ASSUME SuiteInv, NEW fails, Suite!EndTest(fails) PROVE SuiteInv'
<1> DEFINE x == Suite!Entry
           B == BelowOf(list)
<1>1. /\ running # <<>> /\ ~Suite!Over /\ x \in Tests
      /\ failed' = Suite!Marks(x, fails)
      /\ failCount' = IF x \in failed' THEN [failCount EXCEPT ![Suite!Top.suite] = @ + 1]
                      ELSE failCount
      /\ ran' = Append(ran, x)
      /\ running' = Suite!Advance(running)
      /\ list' = list /\ count' = count /\ reports' = reports /\ runs' = runs /\ late' = late
  BY Zenon DEF Suite!EndTest, Suite!InTest
<1>2. /\ Nested(list) /\ OnePlace(list) /\ Unfolds(B, list)
      /\ failCount \in [Suites -> Nat] /\ reports = [s \in Suites |-> reports[s]]
      /\ runs \in Nat /\ runs # 0 /\ Ran(B, list, running, ran) /\ Chain(list, running)
  BY <1>1, SuiteRunning
<1>3. PICK T \in SUBSET Items : InRun(T, B, list, failed, reports, failCount, runs, running)
  BY <1>1, SuiteRunning
<1>4. /\ Suite!Top = Inner(running) /\ Inner(running).suite \in Suites
      /\ x = list[Inner(running).suite][Inner(running).entry]
      /\ Inner(running).entry <= Len(list[Inner(running).suite])
      /\ Len(running) \in Nat
  <2>1. /\ Suite!Top = Inner(running) /\ Inner(running).suite \in Suites
        /\ x = list[Inner(running).suite][Inner(running).entry]
        /\ Len(running) \in Nat /\ Len(list[Inner(running).suite]) \in Nat
        /\ Inner(running).entry \in 1 .. Len(list[Inner(running).suite]) + 1
        /\ ~(Inner(running).entry > Len(list[Inner(running).suite]))
    BY <1>1, TopIs
  <2> QED BY <2>1
<1>5. failed' = failed \/ failed' = failed \cup {x}
  BY <1>1, Zenon DEF Suite!Marks
<1> HIDE DEF x, B
<1>6. failCount' = IF x \in failed' THEN [failCount EXCEPT ![Inner(running).suite] = @ + 1]
                   ELSE failCount
  BY <1>1, <1>4, Zenon
<1>7. failCount' \in [Suites -> Nat]
  BY <1>2, <1>4, <1>6
<1>8. InRun(T \cup {x}, B, list, failed', reports, failCount', runs, Advanced(running))
  <2>1. running # <<>> /\ x \in Tests
    BY <1>1, Zenon
  <2> QED BY <1>2, <1>3, <1>4, <1>5, <1>6, <2>1, TestStep, Zenon
<1>9. Ran(B, list, Advanced(running), ran')
  <2>1. Ran(B, list, Advanced(running), ran \o Piece(B)[x])
    BY <1>1, <1>2, <1>4, RanOn
  <2>2. Piece(B)[x] = <<x>>
    BY <1>1, <1>2, PieceType DEF Unfolds
  <2>3. ran \in Seq(Tests)
    BY <1>2, <1>4, RanType
  <2>4. ran \o <<x>> = Append(ran, x)
    BY <2>3
  <2> QED BY <1>1, <2>1, <2>2, <2>4, Zenon
<1>10. T \cup {x} \in SUBSET Items
  BY <1>1, <1>3 DEF Items
<1>11. running' = Advanced(running)
  BY <1>1, AdvanceIs, Zenon
<1>12. /\ Ran(BelowOf(list), list, running', ran')
       /\ \E T2 \in SUBSET Items :
            InRun(T2, BelowOf(list), list, failed', reports', failCount', runs', running')
  BY <1>1, <1>8, <1>9, <1>10, <1>11, Zenon DEF B
<1>13. reports' = [s \in Suites |-> reports'[s]] /\ runs' \in Nat /\ runs' # 0
  BY <1>1, <1>2, Zenon
<1> QED BY <1>1, <1>7, <1>12, <1>13, SuiteRuns, Zenon

LEMMA SuiteEnters == ASSUME SuiteInv, Suite!Enter PROVE SuiteInv'
<1> DEFINE u == Suite!Entry
           B == BelowOf(list)
<1>1. /\ running # <<>> /\ ~Suite!Over /\ u \in Suites
      /\ running' = Append(running, [suite |-> u, entry |-> 1])
      /\ failed' = failed /\ failCount' = failCount /\ ran' = ran
      /\ list' = list /\ count' = count /\ reports' = reports /\ runs' = runs /\ late' = late
  BY Zenon DEF Suite!Enter
<1>2. /\ Nested(list) /\ OnePlace(list) /\ Unfolds(B, list)
      /\ failCount \in [Suites -> Nat] /\ reports = [s \in Suites |-> reports[s]]
      /\ runs \in Nat /\ runs # 0 /\ Ran(B, list, running, ran) /\ Chain(list, running)
  BY <1>1, SuiteRunning
<1>3. PICK T \in SUBSET Items : InRun(T, B, list, failed, reports, failCount, runs, running)
  BY <1>1, SuiteRunning
<1>4. /\ u = list[Inner(running).suite][Inner(running).entry]
      /\ Inner(running).entry <= Len(list[Inner(running).suite])
  <2>1. /\ u = list[Inner(running).suite][Inner(running).entry]
        /\ Len(list[Inner(running).suite]) \in Nat
        /\ Inner(running).entry \in 1 .. Len(list[Inner(running).suite]) + 1
        /\ ~(Inner(running).entry > Len(list[Inner(running).suite]))
    BY <1>1, TopIs
  <2> QED BY <2>1
<1> HIDE DEF u, B
<1>5. InRun(T \cup {u}, B, list, failed, reports, failCount, runs, Entered(running, u))
  BY <1>1, <1>2, <1>3, <1>4, EnterStep
<1>6. Ran(B, list, Entered(running, u), ran)
  BY <1>1, <1>2, <1>4, RanEnter
<1>7. T \cup {u} \in SUBSET Items
  BY <1>1, <1>3 DEF Items
<1>8. running' = Entered(running, u)
  BY <1>1, Zenon DEF Entered
<1>9. /\ Ran(BelowOf(list), list, running', ran')
      /\ \E T2 \in SUBSET Items :
            InRun(T2, BelowOf(list), list, failed', reports', failCount', runs', running')
  BY <1>1, <1>5, <1>6, <1>7, <1>8, Zenon DEF B
<1>10. reports' = [s \in Suites |-> reports'[s]] /\ runs' \in Nat /\ runs' # 0
       /\ failCount' \in [Suites -> Nat]
  BY <1>1, <1>2, Zenon
<1> QED BY <1>1, <1>9, <1>10, SuiteRuns, Zenon

LEMMA SuiteBegins == ASSUME SuiteInv, NEW s \in Suites, Suite!Run(s) PROVE SuiteInv'
<1> DEFINE B == BelowOf(list)
<1>1. /\ running = <<>> /\ s \notin Suite!Listed
      /\ running' = <<[suite |-> s, entry |-> 1]>> /\ ran' = <<>> /\ runs' = runs + 1
      /\ failed' = failed /\ failCount' = failCount
      /\ list' = list /\ count' = count /\ reports' = reports /\ late' = late
  BY Zenon DEF Suite!Run
<1>2. /\ Nested(list) /\ OnePlace(list)
      /\ failCount \in [Suites -> Nat] /\ reports = [r \in Suites |-> reports[r]]
      /\ runs \in Nat /\ (runs = 0 => \A r \in Suites : failCount[r] = 0)
  BY Zenon DEF SuiteInv
<1>3. Unfolds(B, list) /\ Unlisted(list, s)
  BY <1>1, <1>2, BelowUnfolds, UnlistedIs
<1>4. runs' \in Nat /\ runs' # 0 /\ (runs' = 1 => \A r \in Suites : failCount[r] = 0)
  BY <1>1, <1>2
<1> HIDE DEF B
<1>5. InRun({s}, B, list, failed, reports, failCount, runs', First(s))
  BY <1>2, <1>3, <1>4, RunStep
<1>6. Ran(B, list, First(s), <<>>)
  BY <1>2, <1>3, RanFirst
<1>7. {s} \in SUBSET Items
  BY DEF Items
<1>8. running' = First(s)
  BY <1>1, Zenon DEF First
<1>9. /\ Ran(BelowOf(list), list, running', ran')
      /\ \E T2 \in SUBSET Items :
            InRun(T2, BelowOf(list), list, failed', reports', failCount', runs', running')
  BY <1>1, <1>5, <1>6, <1>7, <1>8, Zenon DEF B
<1>10. reports' = [r \in Suites |-> reports'[r]] /\ failCount' \in [Suites -> Nat]
  BY <1>1, <1>2, Zenon
<1> QED BY <1>1, <1>4, <1>9, <1>10, SuiteRuns, Zenon

\* The report that is written when a suite is left.
LEMMA ReportIs ==
  ASSUME SuiteInv, running # <<>>, Suite!Over, NEW u, u = Inner(running).suite
  PROVE  /\ Suite!Report(u).summary = FlatMap(Marks(failed), BelowOf(list)[u])
         /\ Suite!Report(u).lines = FlatMap(Faults(failed), BelowOf(list)[u])
         /\ Suite!Report(u).runs = count[u] /\ Suite!Report(u).fails = failCount[u]
<1> DEFINE B == BelowOf(list)
           f == Inner(running)
<1>1. /\ Nested(list) /\ Unfolds(B, list) /\ failCount \in [Suites -> Nat]
      /\ Chain(list, running)
  BY SuiteRunning
<1>2. PICK T : InRun(T, B, list, failed, reports, failCount, runs, running)
  BY SuiteRunning
<1>3. Len(running) \in 1 .. Len(running) /\ list[u] \in Seq(Items) /\ f \in Frames
      /\ f.suite = u
  BY <1>1, TopIs, ChainIs
<1>4. f.entry = Len(list[f.suite]) + 1
  <2>1. /\ f.entry \in 1 .. Len(list[f.suite]) + 1 /\ f.entry > Len(list[f.suite])
        /\ Len(list[f.suite]) \in Nat
    BY TopIs
  <2> HIDE DEF f
  <2> QED BY <2>1
<1>5. Running(T, B, list, failed, reports, failCount, runs, running, f)
  BY <1>2, <1>3, Zenon DEF InRun, Inner
<1> HIDE DEF B, f
<1>6. /\ FlatMap(Summaries(reports, failed), list[u]) = FlatMap(Marks(failed), B[u])
      /\ FlatMap(Messages(reports, failCount, failed), list[u]) = FlatMap(Faults(failed), B[u])
  <2>1. /\ FlatMap(Summaries(reports, failed), list[f.suite]) = FlatMap(Marks(failed), B[f.suite])
        /\ FlatMap(Messages(reports, failCount, failed), list[f.suite])
             = FlatMap(Faults(failed), B[f.suite])
    BY <1>1, <1>3, <1>4, <1>5, ReportsAre
  <2> QED BY <1>3, <2>1, Zenon
<1>7. \A i \in DOMAIN list[u] : list[u][i] \in Items
  BY <1>3
<1>8. [i \in DOMAIN list[u] |-> IF list[u][i] \in Suites THEN reports[list[u][i]].summary
                               ELSE IF list[u][i] \in failed THEN <<"F">> ELSE <<".">>]
        = Map(Summaries(reports, failed), list[u])
  BY <1>7 DEF Map, Summaries
<1>9. [i \in DOMAIN list[u] |-> IF list[u][i] \in Suites
                                THEN IF failCount[list[u][i]] > 0
                                     THEN reports[list[u][i]].lines ELSE <<>>
                                ELSE IF list[u][i] \in failed THEN <<list[u][i]>> ELSE <<>>]
        = Map(Messages(reports, failCount, failed), list[u])
  BY <1>7 DEF Map, Messages
<1>10. \A s : Suite!FlattenSeq(s) = Ext!FlattenSeq(s)
  BY Zenon DEF Suite!FlattenSeq, Ext!FlattenSeq
<1>11. /\ Suite!Report(u).summary =
            Suite!FlattenSeq(
              [i \in DOMAIN list[u] |-> IF list[u][i] \in Suites THEN reports[list[u][i]].summary
                               ELSE IF list[u][i] \in failed THEN <<"F">> ELSE <<".">>])
       /\ Suite!Report(u).lines =
            Suite!FlattenSeq(
              [i \in DOMAIN list[u] |-> IF list[u][i] \in Suites
                                THEN IF failCount[list[u][i]] > 0
                                     THEN reports[list[u][i]].lines ELSE <<>>
                                ELSE IF list[u][i] \in failed THEN <<list[u][i]>> ELSE <<>>])
       /\ Suite!Report(u).runs = count[u] /\ Suite!Report(u).fails = failCount[u]
  BY DEF Suite!Report
<1>12. Suite!Report(u).summary = FlatMap(Summaries(reports, failed), list[u])
  BY <1>8, <1>10, <1>11, Zenon DEF FlatMap
<1>13. Suite!Report(u).lines = FlatMap(Messages(reports, failCount, failed), list[u])
  BY <1>9, <1>10, <1>11, Zenon DEF FlatMap
<1> QED BY <1>6, <1>11, <1>12, <1>13, Zenon DEF B

LEMMA LeaveIs ==
  ASSUME SuiteInv, Suite!Leave
  PROVE  /\ running # <<>> /\ Suite!Over
         /\ reports' = [reports EXCEPT ![Inner(running).suite] = Suite!Report(Inner(running).suite)]
         /\ \/ Outer(running) = <<>> /\ running' = <<>> /\ failCount' = failCount
            \/ /\ Outer(running) # <<>> /\ running' = Advanced(Outer(running))
               /\ failCount' = [failCount EXCEPT ![Inner(Outer(running)).suite] =
                                  @ + failCount[Inner(running).suite]]
         /\ list' = list /\ count' = count /\ failed' = failed /\ ran' = ran /\ runs' = runs
         /\ late' = late
<1>1. \A s : Suite!Front(s) = Outer(s)
  BY Zenon DEF Suite!Front, Outer
<1>2. \A s : Suite!Last(s) = Inner(s)
  BY Zenon DEF Suite!Last, Inner
<1>3. running # <<>>
  BY Zenon DEF Suite!Leave
<1>4. Suite!Top = Inner(running)
  BY <1>3, TopIs
<1>5. /\ Suite!Over
      /\ reports' = [reports EXCEPT ![Inner(running).suite] = Suite!Report(Inner(running).suite)]
      /\ IF Outer(running) = <<>> THEN running' = <<>> /\ failCount' = failCount
         ELSE /\ running' = Suite!Advance(Outer(running))
              /\ failCount' = [failCount EXCEPT ![Inner(Outer(running)).suite] =
                    Suite!Counted(Inner(running).suite, Inner(Outer(running)).suite)]
      /\ list' = list /\ count' = count /\ failed' = failed /\ ran' = ran /\ runs' = runs
      /\ late' = late
  BY <1>1, <1>2, <1>4, Zenon DEF Suite!Leave
<1>6. \A s, r : Suite!Counted(s, r) = failCount[r] + failCount[s]
  BY Zenon DEF Suite!Counted
<1> QED BY <1>3, <1>5, <1>6, AdvanceIs, Zenon

LEMMA SuiteLeaves == ASSUME SuiteInv, Suite!Leave PROVE SuiteInv'
<1> DEFINE B == BelowOf(list)
           S == running
           u == Inner(S).suite
<1>1. /\ S # <<>> /\ Suite!Over
      /\ reports' = [reports EXCEPT ![u] = Suite!Report(u)]
      /\ \/ Outer(S) = <<>> /\ S' = <<>> /\ failCount' = failCount
         \/ /\ Outer(S) # <<>> /\ S' = Advanced(Outer(S))
            /\ failCount' = [failCount EXCEPT ![Inner(Outer(S)).suite] = @ + failCount[u]]
      /\ list' = list /\ count' = count /\ failed' = failed /\ ran' = ran /\ runs' = runs
      /\ late' = late
  BY LeaveIs, Zenon
<1>2. /\ Nested(list) /\ OnePlace(list) /\ Unfolds(B, list)
      /\ failCount \in [Suites -> Nat] /\ reports = [s \in Suites |-> reports[s]]
      /\ runs \in Nat /\ runs # 0 /\ Ran(B, list, S, ran) /\ Chain(list, S)
  BY <1>1, SuiteRunning
<1>3. PICK T \in SUBSET Items : InRun(T, B, list, failed, reports, failCount, runs, S)
  BY <1>1, SuiteRunning
<1>4. /\ Inner(S).entry > Len(list[u]) /\ u \in Suites
      /\ list[u] \in Seq(Items) /\ Len(list[u]) \in Nat
      /\ Inner(S).entry \in 1 .. Len(list[u]) + 1
      /\ Len(S) \in Nat /\ Len(S) \in 1 .. Len(S) /\ Inner(S) \in Frames
  BY <1>1, <1>2, TopIs, ChainIs
<1> DEFINE r == Suite!Report(u)
<1>5. r.summary = FlatMap(Marks(failed), B[u]) /\ r.lines = FlatMap(Faults(failed), B[u])
  BY <1>1, ReportIs
<1> HIDE DEF B, r
<1>6. reports' = [s \in Suites |-> reports'[s]]
      /\ \A v \in Suites : reports'[v] = IF v = u THEN r ELSE reports[v]
  BY <1>1, <1>2, <1>4 DEF r
<1>7. CASE Outer(S) = <<>> /\ S' = <<>> /\ failCount' = failCount
  BY <1>1, <1>2, <1>6, <1>7, SuiteRuns, Zenon
<1>8. CASE /\ Outer(S) # <<>> /\ S' = Advanced(Outer(S))
           /\ failCount' = [failCount EXCEPT ![Inner(Outer(S)).suite] = @ + failCount[u]]
  <2>1. Len(S) > 1
    <3>1. Len(S) # 1
      <4>1. ASSUME Len(S) = 1 PROVE FALSE
        <5>1. Len(S) - 1 = 0
          BY <4>1
        <5>2. Outer(S) = SubSeq(S, 1, 0)
          BY <5>1, Zenon DEF Outer
        <5>3. S \in Seq(Frames)
          BY <1>1, <1>2, ChainIs
        <5>4. SubSeq(S, 1, 0) = <<>>
          BY <5>3
        <5> QED BY <1>8, <5>2, <5>4
      <4> QED BY <4>1
    <3>2. Len(S) \in Nat /\ Len(S) \in 1 .. Len(S)
      BY <1>4, Zenon
    <3> QED BY <3>1, <3>2
  <2>2. InRun(T, B, list, failed, reports', failCount', runs, Advanced(Outer(S)))
    <3>1. failCount' = [failCount EXCEPT ![Inner(Outer(S)).suite] = @ + failCount[u]]
      BY <1>8, Zenon
    <3>2. u = Inner(S).suite /\ Inner(S).entry > Len(list[Inner(S).suite])
      BY <1>4, Zenon
    <3> HIDE DEF u
    <3>3. LeavesTo(B, list, failed, reports, failCount, S, u, r, reports', failCount')
      BY <1>5, <1>6, <2>1, <3>1, <3>2, Zenon DEF LeavesTo
    <3> QED BY <1>2, <1>3, <3>3, LeaveStep, Zenon
  <2>3. Ran(B, list, Advanced(Outer(S)), ran)
    <3>1. PICK p : Ran(B, list, Outer(S), p) /\ ran = p \o Front(B, list, Inner(S))
      BY <1>2, <2>1, RanOuter
    <3>2. Front(B, list, Inner(S)) = B[u]
      BY <1>2, <1>4, FrontIs
    <3>3. /\ Chain(list, Outer(S)) /\ Inner(Outer(S)) = S[Len(S) - 1] /\ Outer(S) # <<>>
      BY <1>2, <2>1, ChainOuter
    <3>4. /\ Inner(Outer(S)).entry <= Len(list[Inner(Outer(S)).suite])
          /\ list[Inner(Outer(S)).suite][Inner(Outer(S)).entry] = u
      <4>1. /\ S[Len(S) - 1].entry \in 1 .. Len(list[S[Len(S) - 1].suite])
            /\ list[S[Len(S) - 1].suite][S[Len(S) - 1].entry] = S[Len(S)].suite
        BY <1>2, <2>1, LeftIs
      <4> QED BY <3>3, <4>1 DEF Inner
    <3>5. Ran(B, list, Advanced(Outer(S)), p \o Piece(B)[u])
      BY <1>2, <3>1, <3>3, <3>4, RanOn
    <3>6. Piece(B)[u] = B[u]
      BY <1>2, <1>4, PieceType DEF Unfolds
    <3> QED BY <3>1, <3>2, <3>5, <3>6, Zenon
  <2>4. failCount' \in [Suites -> Nat]
    <3>1. Inner(Outer(S)).suite \in Suites
      <4>1. Inner(Outer(S)) = S[Len(S) - 1] /\ Len(S) - 1 \in 1 .. Len(S)
        BY <1>2, <1>4, <2>1, ChainOuter
      <4> QED BY <1>1, <1>2, <4>1, ChainIs
    <3> QED BY <1>2, <1>4, <1>8, <3>1
  <2>5. /\ Ran(BelowOf(list), list, running', ran')
        /\ \E T2 \in SUBSET Items :
             InRun(T2, BelowOf(list), list, failed', reports', failCount', runs', running')
    BY <1>1, <1>3, <1>8, <2>2, <2>3, Zenon DEF B
  <2>6. runs' \in Nat /\ runs' # 0
    BY <1>1, <1>2, Zenon
  <2> QED BY <1>1, <1>6, <2>4, <2>5, <2>6, SuiteRuns, Zenon
<1> QED BY <1>1, <1>7, <1>8

LEMMA SuiteStep == SuiteInv /\ [Suite!Next]_(Suite!vars) => SuiteInv'
<1> SUFFICES ASSUME SuiteInv, [Suite!Next]_(Suite!vars) PROVE SuiteInv'
  OBVIOUS
<1>1. CASE Suite!Pass \/ UNCHANGED Suite!vars
  <2>1. UNCHANGED <<list, count, failCount, failed, reports, running, ran, runs, late>>
    BY <1>1 DEF Suite!Pass, Suite!vars
  <2> QED BY <2>1, Zenon DEF SuiteInv
<1>2. CASE Suite!Enter
  BY <1>2, SuiteEnters
<1>3. CASE Suite!Leave
  BY <1>3, SuiteLeaves
<1>4. ASSUME NEW fails \in BOOLEAN, Suite!EndTest(fails) PROVE SuiteInv'
  BY <1>4, TestEnds
<1>5. ASSUME NEW s \in Suites, Suite!Run(s) PROVE SuiteInv'
  BY <1>5, SuiteBegins
<1>6. ASSUME NEW s \in Suites, NEW t \in Tests, Suite!AddTest(s, t) PROVE SuiteInv'
  <2>1. /\ running = <<>> /\ t \notin Suite!Listed /\ list' = [list EXCEPT ![s] = Append(@, t)]
        /\ count' = [count EXCEPT ![s] = @ + 1]
        /\ late' = (late \/ s \in Suite!Listed)
        /\ UNCHANGED <<failCount, reports, running, runs>>
    BY <1>6 DEF Suite!AddTest
  <2>2. t \in Items /\ t \notin Suites
    BY SuiteAssumption DEF Items
  <2>3. 1 = Len(Piece(BelowOf(list))[t])
    BY <2>2, Zenon DEF Piece, Items
  <2> QED BY <2>1, <2>2, <2>3, SuitePuts
<1>7. ASSUME NEW s \in Suites, NEW u \in Suites, Suite!AddSuite(s, u) PROVE SuiteInv'
  <2>1. /\ running = <<>> /\ u \notin Suite!Listed /\ u > s
        /\ list' = [list EXCEPT ![s] = Append(@, u)]
        /\ count' = [count EXCEPT ![s] = @ + count[u]]
        /\ late' = (late \/ s \in Suite!Listed)
        /\ UNCHANGED <<failCount, reports, running, runs>>
    BY <1>7 DEF Suite!AddSuite
  <2>2. u \in Items
    BY DEF Items
  <2>3. count \in [Suites -> Nat] /\ (~late => Counts(BelowOf(list), count))
    BY Zenon DEF SuiteInv
  <2>4. ~late => count[u] = Len(Piece(BelowOf(list))[u])
    BY <2>2, <2>3, Zenon DEF Piece, Counts
  <2>5. count[u] \in Nat
    BY <2>3
  <2> QED BY <2>1, <2>2, <2>4, <2>5, SuitePuts
<1> QED BY <1>1, <1>2, <1>3, <1>4, <1>5, <1>6, <1>7 DEF Suite!Next

\* What a report of q shows: the marks, one for each test, and the tests that failed.
Shown(F, q) == [i \in DOMAIN q |-> IF q[i] \in F THEN "F" ELSE "."]
Listing(F, q) == Ext!FlattenSeq([i \in DOMAIN q |-> IF q[i] \in F THEN <<q[i]>> ELSE <<>>])

LEMMA MarksAre ==
  ASSUME NEW F, NEW q \in Seq(Tests)
  PROVE  FlatMap(Marks(F), q) = Shown(F, q) /\ FlatMap(Faults(F), q) = Listing(F, q)
<1> DEFINE f == [t \in Tests |-> IF t \in F THEN "F" ELSE "."]
<1>1. f \in [Tests -> {"F", "."}] /\ \A t \in Tests : f[t] = IF t \in F THEN "F" ELSE "."
  OBVIOUS
<1>2. Marks(F) = [t \in Tests |-> <<f[t]>>]
  BY DEF Marks
<1>3. \A i \in DOMAIN q : q[i] \in Tests
  OBVIOUS
<1> HIDE DEF f
<1>4. FlatMap(Marks(F), q) = [i \in DOMAIN q |-> f[q[i]]]
  <2>1. \A t \in Tests : Marks(F)[t] = <<f[t]>>
    BY <1>2
  <2>2. Singles(f, Marks(F), q)
    <3>1. Marks(F) \in [Tests -> Seq({"F", "."})]
      BY FaultsType
    <3> QED BY <1>1, <2>1, <3>1, FlatMapSingle, Zenon
  <2> QED BY <2>2, Zenon DEF Singles
<1>5. [i \in DOMAIN q |-> f[q[i]]] = [i \in DOMAIN q |-> IF q[i] \in F THEN "F" ELSE "."]
  BY <1>1, <1>3
<1>6. Map(Faults(F), q) = [i \in DOMAIN q |-> IF q[i] \in F THEN <<q[i]>> ELSE <<>>]
  BY <1>3 DEF Map, Faults
<1>7. FlatMap(Faults(F), q) = Listing(F, q)
  BY <1>6, Zenon DEF FlatMap, Listing
<1>8. FlatMap(Marks(F), q) = Shown(F, q)
  BY <1>4, <1>5, Zenon DEF Shown
<1> QED BY <1>7, <1>8, Zenon

\* The outer suite ends.
LEMMA LastLeave ==
  ASSUME SuiteInv, Suite!Leave, running' = <<>>
  PROVE  Suite!RunEndsWell
<1> DEFINE B == BelowOf(list)
           S == running
           u == Inner(S).suite
           r == Suite!Report(u)
<1>1. /\ S # <<>> /\ Suite!Over
      /\ reports' = [reports EXCEPT ![u] = Suite!Report(u)]
      /\ \/ Outer(S) = <<>>
         \/ Outer(S) # <<>> /\ S' = Advanced(Outer(S))
      /\ count' = count /\ failed' = failed /\ late' = late
  BY LeaveIs, Zenon
<1>2. /\ Nested(list) /\ Unfolds(B, list)
      /\ failCount \in [Suites -> Nat] /\ reports = [s \in Suites |-> reports[s]]
      /\ Ran(B, list, S, ran) /\ Chain(list, S)
  BY <1>1, SuiteRunning
<1>3. PICK T : InRun(T, B, list, failed, reports, failCount, runs, S)
  BY <1>1, SuiteRunning
<1>4. /\ Inner(S).entry > Len(list[u]) /\ u \in Suites
      /\ Inner(S).entry \in 1 .. Len(list[u]) + 1 /\ Len(list[u]) \in Nat
      /\ Len(S) \in Nat /\ Len(S) \in 1 .. Len(S) /\ Inner(S) \in Frames
  BY <1>1, <1>2, TopIs, ChainIs
<1>5. Len(S) = 1
  <2>1. ASSUME Len(S) > 1 PROVE FALSE
    <3>1. Outer(S) # <<>> /\ Len(Advanced(Outer(S))) = Len(S) - 1
      BY <1>2, <2>1, ChainOuter, LeftIs
    <3>2. S' = Advanced(Outer(S))
      BY <1>1, <3>1, Zenon
    <3>3. Len(<<>>) = 0
      OBVIOUS
    <3>4. Len(S) - 1 = 0
      BY <3>1, <3>2, <3>3, Zenon
    <3>5. Len(S) \in Nat
      BY <1>4, Zenon
    <3> DEFINE n == Len(S)
    <3>6. n \in Nat /\ n > 1 /\ n - 1 = 0
      BY <2>1, <3>4, <3>5, Zenon
    <3> HIDE DEF n
    <3> QED BY <3>6
  <2>2. Len(S) \in Nat /\ Len(S) \in 1 .. Len(S)
    BY <1>4, Zenon
  <2> QED BY <2>1, <2>2
<1>6. S[1] = Inner(S) /\ S[1].suite = u
  BY <1>5, Zenon DEF Inner
<1>7. ran = B[u] /\ ran \in Seq(Tests)
  <2>1. ran = Front(B, list, S[1])
    BY <1>2, <1>5, RanLast
  <2>2. Front(B, list, Inner(S)) = B[u]
    BY <1>2, <1>4, FrontIs
  <2>3. B[u] \in Seq(Tests)
    BY <1>2, <1>4 DEF Unfolds
  <2> QED BY <1>6, <2>1, <2>2, <2>3, Zenon
<1>8. /\ r.summary = FlatMap(Marks(failed), B[u]) /\ r.lines = FlatMap(Faults(failed), B[u])
      /\ r.runs = count[u] /\ r.fails = failCount[u]
  BY <1>1, ReportIs
<1>9. Tally(failed, runs, failCount[u], B[u])
  <2>1. Running(T, B, list, failed, reports, failCount, runs, S, Inner(S))
    BY <1>3, <1>4, Zenon DEF InRun, Inner
  <2>2. Front(B, list, Inner(S)) = B[u]
    BY <1>2, <1>4, FrontIs
  <2> QED BY <2>1, <2>2, Zenon DEF Running
<1>10. reports'[u] = r
  BY <1>1, <1>2, <1>4
<1> HIDE DEF B, r, u
<1>11. r.summary = Shown(failed, ran) /\ r.lines = Listing(failed, ran)
  <2>1. /\ FlatMap(Marks(failed), B[u]) = Shown(failed, B[u])
        /\ FlatMap(Faults(failed), B[u]) = Listing(failed, B[u])
    <3>1. B[u] \in Seq(Tests)
      BY <1>7, Zenon
    <3> QED BY <3>1, MarksAre, Zenon
  <2> QED BY <1>7, <1>8, <2>1, Zenon
<1>12. /\ runs = 1 => r.fails = Len(r.lines)
       /\ Len(r.lines) <= r.fails
  BY <1>8, <1>9, Zenon DEF Tally
<1>13. r.fails >= Len(r.lines)
  <2>1. r.fails \in Nat
    BY <1>8, <1>9, Zenon DEF Tally
  <2>2. Len(FlatMap(Faults(failed), B[u])) \in Nat
    BY <1>7, FaultsType
  <2>3. Len(r.lines) \in Nat
    BY <1>8, <2>2, Zenon
  <2> QED BY <1>12, <2>1, <2>3
<1>14. ~late => r.runs = Len(ran)
  <2>1. ~late => Counts(B, count)
    BY Zenon DEF SuiteInv, B
  <2> QED BY <1>4, <1>7, <1>8, <2>1, Zenon DEF Counts
<1>15. ran = Suite!Below[u]
  BY <1>7, SuiteBelow, Zenon DEF B
<1>16. \A s : Suite!FlattenSeq(s) = Ext!FlattenSeq(s)
  BY Zenon DEF Suite!FlattenSeq, Ext!FlattenSeq
<1>17. reports'[running[1].suite] = r /\ running[1].suite = u
  BY <1>6, <1>10, Zenon
<1> QED BY <1>11, <1>12, <1>13, <1>14, <1>15, <1>16, <1>17, Zenon
   DEF Suite!RunEndsWell, Shown, Listing

\* Whichever tests fail, and however suites are nested: what a run of a suite reports
\* when it ends is what ran, every test below it once and in order, and which of them
\* failed (cf_test.c:73-171).
THEOREM SuitesReportWhatRan == Suite!Spec => SuiteReports
<1>1. SuiteInv /\ [Suite!Next]_(Suite!vars) => [Suite!RunEndsWell]_(Suite!vars)
  <2> SUFFICES ASSUME SuiteInv, Suite!Next, running # <<>>, running' = <<>>
               PROVE  Suite!RunEndsWell
    BY DEF Suite!RunEndsWell
  <2>1. CASE Suite!Leave
    BY <2>1, LastLeave
  <2>2. ASSUME NEW fails \in BOOLEAN, Suite!EndTest(fails) PROVE FALSE
    <3>1. running' = Advanced(running)
      BY <2>2, AdvanceIs, Zenon DEF Suite!EndTest
    <3>2. running \in Seq(Frames) /\ Len(running) \in Nat /\ Len(running) \in 1 .. Len(running)
      BY SuiteRunning, TopIs, ChainIs
    <3>3. Len(Advanced(running)) = Len(running)
      BY <3>2, AdvancedIs
    <3>4. Len(<<>>) = 0
      OBVIOUS
    <3>5. Len(running) = 0
      BY <3>1, <3>3, <3>4, Zenon
    <3> QED BY <3>2, <3>5
  <2>3. CASE Suite!Enter
    <3>1. running' = Entered(running, Suite!Entry) /\ Suite!Entry \in Suites
      BY <2>3, Zenon DEF Suite!Enter, Entered
    <3>2. running \in Seq(Frames)
      BY SuiteRunning, ChainIs
    <3>3. Entered(running, Suite!Entry) # <<>>
      BY <3>1, <3>2 DEF Entered, Frames
    <3> QED BY <3>1, <3>3, Zenon
  <2>4. CASE Suite!Pass
    BY <2>4 DEF Suite!Pass
  <2>5. ASSUME NEW s \in Suites,
               \/ Suite!Run(s)
               \/ \E t \in Tests : Suite!AddTest(s, t)
               \/ \E u \in Suites : Suite!AddSuite(s, u)
        PROVE  FALSE
    BY <2>5 DEF Suite!Run, Suite!AddTest, Suite!AddSuite
  <2> QED BY <2>1, <2>2, <2>3, <2>4, <2>5 DEF Suite!Next
<1> QED BY <1>1, SuiteInitial, SuiteStep, PTL DEF Suite!Spec, SuiteReports, Suite!ReportsWhatRan
=============================================================================
