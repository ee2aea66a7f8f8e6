--------------------------- MODULE ServicesProofs ---------------------------
(***************************************************************************)
(* What the announcer, the pipeline, the module loader and the websocket   *)
(* server in Services promise, for every number of elements, modules and   *)
(* clients, and any times; and PopDeadline, which is checked beside them.  *)
(***************************************************************************)
EXTENDS Services, PopDeadline, FlatSequences, FiniteSetTheorems, TLAPS

-----------------------------------------------------------------------------
(***************************************************************************)
(* Announcer.  The wall clock has gone on, since the last announcement, by *)
(* the time that passed and by what it was set; before the first one no    *)
(* pass has been made, and none is waited for.                             *)
(***************************************************************************)
UdpTypes ==
    /\ pc \in {"setup", "loop", "select", "serve"}
    /\ wall \in Nat /\ last \in Nat \cup {-1} /\ timer \in Nat
    /\ spent \in Nat /\ shift \in Int /\ seen \in Int

UdpTimes ==
    IF last = -1 THEN pc \in {"setup", "loop"} /\ spent = 0 /\ shift = 0
                 ELSE wall - last = spent + shift

UdpInv == UdpTypes /\ UdpTimes /\ msg \notin dropped /\ Udp!InTime

LEMMA UdpInit == Udp!Init => UdpInv
  BY AnnouncerAssumption
     DEF Udp!Init, UdpInv, UdpTypes, UdpTimes, Udp!InTime

LEMMA UdpStep == UdpInv /\ [Udp!Next]_(Udp!vars) => UdpInv'
  <1> SUFFICES ASSUME UdpInv, [Udp!Next]_(Udp!vars) PROVE UdpInv'
    OBVIOUS
  <1> USE AnnouncerAssumption DEF UdpInv, UdpTypes, UdpTimes, Udp!InTime
  <1>1. CASE Udp!Start
    BY <1>1 DEF Udp!Start
  <1>2. CASE Udp!Arm
    BY <1>2 DEF Udp!Arm, Udp!Remain
  <1>3. CASE Udp!Tick
    BY <1>3 DEF Udp!Tick
  <1>4. CASE Udp!Wake
    BY <1>4 DEF Udp!Wake
  <1>5. CASE Udp!Work
    BY <1>5 DEF Udp!Work
  <1>6. CASE Udp!Served
    BY <1>6 DEF Udp!Served
  <1>7. CASE Udp!Announce
    BY <1>7 DEF Udp!Announce
  <1>8. ASSUME NEW m \in Notices, Udp!SetMessage(m) PROVE UdpInv'
    BY <1>8 DEF Udp!SetMessage
  <1>9. ASSUME NEW j \in Jumps, Udp!SetClock(j) PROVE UdpInv'
    BY <1>9 DEF Udp!SetClock
  <1>10. CASE UNCHANGED Udp!vars
    BY <1>10 DEF Udp!vars
  <1> QED
    BY <1>1, <1>2, <1>3, <1>4, <1>5, <1>6, <1>7, <1>8, <1>9, <1>10 DEF Udp!Next

\* However often clients interrupt the wait of the select loop, and however the wall
\* clock is set, the timer is what is left of the period, and what is announced is
\* the message that was set last (cf_stp.c:407-441).
THEOREM AnnouncesInTime == Udp!Spec => []AnnouncedInTime
  <1>1. UdpInv => AnnouncedInTime
    BY DEF UdpInv, AnnouncedInTime
  <1> QED
    BY <1>1, UdpInit, UdpStep, PTL DEF Udp!Spec

-----------------------------------------------------------------------------
(***************************************************************************)
(* Pipeline.  The elements of the calls, and so those that make data,      *)
(* increase.  A datum that is not released yet is held by the call that    *)
(* made it and by none before it; afterwards no call holds it.             *)
(***************************************************************************)
Data == 0 .. Len(made) \cup {NoElement}

PipeTypes ==
    /\ class \in [Elements -> Classes \cup {NoElement}]
    /\ pad \in [Elements -> Elements \cup {NoElement}]
    /\ made \in Seq(Elements)
    /\ released \in [0 .. Cardinality(Elements) -> Nat]
    /\ pushes \in Seq([element : Elements, data : Data, next : Data, done : BOOLEAN])

PipeLinks ==
    \A e \in Elements : pad[e] # NoElement => e < pad[e] /\ class[pad[e]] # NoElement

PipeCalls ==
    /\ \A i \in 1 .. Len(pushes) : class[pushes[i].element] # NoElement
    /\ \A i, j \in 1 .. Len(pushes) :
          i < j => pushes[i].done /\ pushes[i].element < pushes[j].element

\* The call at i has made a datum, and which.
Makes(i) == pushes[i].done /\ class[pushes[i].element].processer = "makes"

PipeNexts ==
    \A i \in 1 .. Len(pushes) :
        /\ ~ pushes[i].done => pushes[i].next = NoElement
        /\ Makes(i) => /\ pushes[i].next \in 1 .. Len(made)
                       /\ made[pushes[i].next] = pushes[i].element
        /\ class[pushes[i].element].releases /\ ~ Makes(i) => pushes[i].next = NoElement

PipeMade ==
    /\ \A c, d \in 1 .. Len(made) : c < d => made[c] < made[d]
    /\ \A d \in 1 .. Len(made) : class[made[d]] # NoElement
    /\ pushes # << >> /\ ~ pushes[Len(pushes)].done =>
         \A d \in 1 .. Len(made) : made[d] < pushes[Len(pushes)].element

\* Datum d is held by the call at i.
Holds(i, d) == d \in {pushes[i].data, pushes[i].next}

\* Datum d is held by the call that made it, and by none before.
HeldFrom(i, d) ==
    /\ Makes(i) /\ pushes[i].next = d /\ pushes[i].data # d
    /\ \A j \in 1 .. i - 1 : ~ Holds(j, d)

PipeOwned ==
    /\ released[0] = 0
    /\ \A d \in Len(made) + 1 .. Cardinality(Elements) : released[d] = 0
    /\ \A d \in 1 .. Len(made) :
         \/ released[d] = 0 /\ \E i \in 1 .. Len(pushes) : HeldFrom(i, d)
         \/ /\ released[d] = IF class[made[d]].releases THEN 1 ELSE 0
            /\ \A i \in 1 .. Len(pushes) : ~ Holds(i, d)

PipeInv == PipeTypes /\ PipeLinks /\ PipeCalls /\ PipeNexts /\ PipeMade /\ PipeOwned

LEMMA Increasing ==
  ASSUME NEW s \in Seq(Elements), \A i, j \in 1 .. Len(s) : i < j => s[i] < s[j]
  PROVE  Len(s) <= Cardinality(Elements)
  <1> DEFINE n == Len(s)
  <1>1. n \in Nat /\ s \in [1 .. n -> Elements]
    OBVIOUS
  <1>2. IsFiniteSet(1 .. n) /\ Cardinality(1 .. n) = n
    BY <1>1, FS_Interval
  <1>3. IsFiniteSet(Elements) /\ Cardinality(Elements) \in Nat
    BY PipelineAssumption, FS_CardinalityType
  <1>4. \A i, j \in 1 .. n : i # j => s[i] # s[j]
    <2> SUFFICES ASSUME NEW i \in 1 .. n, NEW j \in 1 .. n, i < j PROVE s[i] # s[j]
      BY <1>1
    <2>1. s[i] < s[j] /\ s[i] \in Nat /\ s[j] \in Nat
      BY <1>1, PipelineAssumption
    <2> QED
      BY <2>1
  <1> HIDE DEF n
  <1>5. ~ Cardinality(Elements) < n
    BY <1>1, <1>2, <1>3, <1>4, FS_PigeonHole
  <1> QED
    BY <1>1, <1>3, <1>5 DEF n

LEMMA SameCardinality == \A S : Pipe!Cardinality(S) = Cardinality(S)
  BY DEF Pipe!Cardinality, Cardinality

LEMMA PipeInit == Pipe!Init => PipeInv
  <1> SUFFICES ASSUME Pipe!Init PROVE PipeInv
    OBVIOUS
  <1>1. pushes = << >> /\ made = << >>
    BY DEF Pipe!Init
  <1>2. Cardinality(Elements) \in Nat
    BY PipelineAssumption, FS_CardinalityType
  <1>3. PipeTypes
    BY <1>1, <1>2, SameCardinality DEF Pipe!Init, PipeTypes
  <1> QED
    BY <1>1, <1>2, <1>3, PipelineAssumption, SameCardinality
       DEF Pipe!Init, PipeInv, PipeTypes, PipeLinks, PipeCalls, PipeNexts, PipeMade, PipeOwned

LEMMA PipeCreate ==
  ASSUME PipeInv, NEW e \in Elements, NEW c \in Classes, Pipe!Create(e, c)
  PROVE  PipeInv'
  <1> USE DEF PipeInv
  <1>1. /\ pushes = << >> /\ class[e] = NoElement /\ class' = [class EXCEPT ![e] = c]
        /\ UNCHANGED << pad, pushes, made, released >>
    BY DEF Pipe!Create, Pipe!Quiet
  <1>2. \A f \in Elements : class[f] # NoElement => class'[f] = class[f]
    BY <1>1 DEF PipeTypes
  <1>3. PipeTypes'
    BY <1>1 DEF PipeTypes, Data
  <1>4. PipeLinks'
    BY <1>1, <1>2, PipelineAssumption DEF PipeLinks, PipeTypes
  <1>5. PipeMade' /\ PipeOwned'
    BY <1>1, <1>2 DEF PipeMade, PipeOwned, PipeTypes
  <1> QED
    BY <1>1, <1>3, <1>4, <1>5 DEF PipeCalls, PipeNexts

LEMMA PipeLink ==
  ASSUME PipeInv, NEW e \in Elements, NEW f \in Elements, Pipe!Link(e, f)
  PROVE  PipeInv'
  BY DEF PipeInv, Pipe!Link, Pipe!Quiet, PipeTypes, Data, PipeLinks, PipeCalls, PipeNexts,
         PipeMade, PipeOwned, Makes, Holds, HeldFrom

LEMMA PipePush ==
  ASSUME PipeInv, NEW e \in Elements, Pipe!Push(e)
  PROVE  PipeInv'
  <1> USE DEF PipeInv
  <1>1. /\ pushes' = << [element |-> e, data |-> 0, next |-> NoElement, done |-> FALSE] >>
        /\ made' = << >> /\ released' = [d \in 0 .. Cardinality(Elements) |-> 0]
        /\ class[e] # NoElement /\ UNCHANGED << class, pad >>
    BY DEF Pipe!Push, Pipe!Call, PipeTypes
  <1>2. Cardinality(Elements) \in Nat
    BY PipelineAssumption, FS_CardinalityType
  <1> QED
    BY <1>1, <1>2 DEF PipeTypes, Data, PipeLinks, PipeCalls, PipeNexts, PipeMade, PipeOwned, Makes

\* A call returns and is taken from the stack: what is to be shown of the data.
LEMMA PipeReturn ==
  ASSUME PipeInv, pushes # << >>, pushes' = Pipe!Front(pushes),
         UNCHANGED << class, pad, made >>,
         released' \in [0 .. Cardinality(Elements) -> Nat], PipeOwned'
  PROVE  PipeInv'
  <1> USE DEF PipeInv
  <1> DEFINE n == Len(pushes)
  <1> DEFINE Calls == [element : Elements, data : Data, next : Data, done : BOOLEAN]
  <1>0. pushes \in Seq(Calls)
    BY DEF PipeTypes
  <1>1. /\ n \in Nat \ {0} /\ Len(pushes') = n - 1 /\ pushes' \in Seq(Calls)
        /\ \A i \in 1 .. n - 1 : pushes'[i] = pushes[i]
    <2> HIDE DEF Calls
    <2> QED
      BY <1>0, AllButLast DEF Pipe!Front
  <1>2. PipeTypes'
    BY <1>1 DEF PipeTypes, Data
  <1>3. PipeLinks' /\ PipeCalls'
    BY <1>1 DEF PipeLinks, PipeCalls
  <1>4. PipeNexts'
    <2>1. Len(pushes') = n - 1 /\ \A i \in 1 .. n - 1 : i \in 1 .. n /\ pushes'[i] = pushes[i]
      BY <1>1
    <2>2. PipeNexts /\ made' = made /\ class' = class
      OBVIOUS
    <2> HIDE DEF PipeInv, Calls, n
    <2>3. \A i \in 1 .. n - 1 : Makes(i)' <=> Makes(i)
      BY <2>1, <2>2 DEF Makes
    <2> QED
      BY <2>1, <2>2, <2>3 DEF PipeNexts, n
  <1>5. n - 1 \in 1 .. n => pushes[n - 1].done
    BY <1>1 DEF PipeCalls
  <1>6. PipeMade'
    <2>1. pushes' # << >> => n - 1 \in 1 .. n
      BY <1>1, EmptySeq
    <2>2. pushes' # << >> => pushes'[Len(pushes')].done
      BY <1>1, <1>5, <2>1
    <2> QED
      BY <2>2 DEF PipeMade
  <1> QED
    BY <1>2, <1>3, <1>4, <1>6

LEMMA CallTypes ==
  ASSUME PipeInv, NEW i \in 1 .. Len(pushes)
  PROVE  /\ pushes[i].element \in Elements /\ pushes[i].element \in Nat
         /\ pushes[i].data \in Data /\ pushes[i].next \in Data
         /\ pushes[i].done \in BOOLEAN
         /\ class[pushes[i].element] \in Classes
  <1> DEFINE Calls == [element : Elements, data : Data, next : Data, done : BOOLEAN]
  <1>1. pushes \in Seq(Calls)
    BY DEF PipeInv, PipeTypes
  <1>2. pushes[i] \in Calls
    <2> HIDE DEF Calls
    <2> QED
      BY <1>1, ElementOfSeq
  <1>3. class[pushes[i].element] # NoElement
    BY DEF PipeInv, PipeCalls
  <1> QED
    BY <1>2, <1>3, PipelineAssumption DEF PipeInv, PipeTypes

LEMMA PipeIgnore ==
  ASSUME PipeInv, Pipe!Ignore
  PROVE  PipeInv'
  <1> USE DEF PipeInv
  <1> DEFINE n == Len(pushes)
  <1>1. /\ pushes # << >> /\ class[pushes[n].element].processer = "none"
        /\ pushes' = Pipe!Front(pushes)
        /\ UNCHANGED << class, pad, made, released >>
    BY DEF Pipe!Ignore, Pipe!Quiet, Pipe!TopClass, Pipe!Top
  <1>2. /\ n \in Nat \ {0} /\ Len(pushes') = n - 1
        /\ \A i \in 1 .. n - 1 : pushes'[i] = pushes[i]
    BY <1>1, AllButLast DEF PipeTypes, Pipe!Front
  <1>3. ~ Makes(n)
    BY <1>1 DEF Makes
  <1>4. ASSUME NEW i \in 1 .. n, NEW d, HeldFrom(i, d)
        PROVE  i \in 1 .. Len(pushes') /\ HeldFrom(i, d)'
    <2>1. i \in 1 .. n - 1
      BY <1>2, <1>3, <1>4 DEF HeldFrom
    <2> QED
      BY <1>1, <1>2, <1>4, <2>1 DEF HeldFrom, Makes, Holds
  <1>5. \A i \in 1 .. Len(pushes') : \A d : ~ Holds(i, d) => ~ Holds(i, d)'
    BY <1>2 DEF Holds
  <1>6. PipeOwned'
    <2> HIDE DEF n
    <2> SUFFICES ASSUME NEW d \in 1 .. Len(made)
                 PROVE  \/ released[d] = 0 /\ \E i \in 1 .. Len(pushes') : HeldFrom(i, d)'
                        \/ /\ released[d] = IF class[made[d]].releases THEN 1 ELSE 0
                           /\ \A i \in 1 .. Len(pushes') : ~ Holds(i, d)'
      BY <1>1 DEF PipeOwned
    <2>1. CASE released[d] = 0 /\ \E i \in 1 .. Len(pushes) : HeldFrom(i, d)
      BY <2>1, <1>4 DEF n
    <2>2. CASE /\ released[d] = IF class[made[d]].releases THEN 1 ELSE 0
               /\ \A i \in 1 .. Len(pushes) : ~ Holds(i, d)
      BY <2>2, <1>2, <1>5 DEF n
    <2> QED
      BY <2>1, <2>2 DEF PipeOwned
  <1>7. released' \in [0 .. Cardinality(Elements) -> Nat]
    BY <1>1 DEF PipeTypes
  <1> QED
    BY <1>1, <1>6, <1>7, PipeReturn

LEMMA PipeRelease ==
  ASSUME PipeInv, Pipe!Release
  PROVE  PipeInv'
  <1> USE DEF PipeInv
  <1> DEFINE n == Len(pushes)
             e == pushes[n].element
             r == pushes[n].next
             gone == class[e].releases /\ r # NoElement
  <1>1. /\ pushes # << >> /\ pushes[n].done
        /\ released' = IF gone THEN [released EXCEPT ![r] = @ + 1] ELSE released
        /\ pushes' = Pipe!Front(pushes)
        /\ UNCHANGED << class, pad, made >>
    BY DEF Pipe!Release, Pipe!Quiet, Pipe!TopClass, Pipe!Top, Pipe!Returned
  <1>2. /\ n \in Nat \ {0} /\ Len(pushes') = n - 1
        /\ \A i \in 1 .. n - 1 : pushes'[i] = pushes[i]
    BY <1>1, AllButLast DEF PipeTypes, Pipe!Front
  <1>3. Len(made) \in Nat /\ Len(made) <= Cardinality(Elements) /\ Cardinality(Elements) \in Nat
    BY Increasing, PipelineAssumption, FS_CardinalityType DEF PipeTypes, PipeMade
  <1>11. \A i \in 1 .. n : /\ pushes[i].element \in Elements /\ pushes[i].element \in Nat
                          /\ class[pushes[i].element] \in Classes
    BY CallTypes
  <1>4. gone => Makes(n)
    BY <1>1, <1>2 DEF PipeNexts
  <1>5. Makes(n) => r \in 1 .. Len(made) /\ made[r] = e
    BY <1>2 DEF PipeNexts
  <1>6. released' \in [0 .. Cardinality(Elements) -> Nat]
    BY <1>1, <1>3, <1>4, <1>5 DEF PipeTypes
  <1>7. /\ released'[0] = 0
        /\ \A d \in Len(made) + 1 .. Cardinality(Elements) : released'[d] = 0
    BY <1>1, <1>3, <1>4, <1>5 DEF PipeTypes, PipeOwned
  \* What a call that made it holds is its own datum, and no other call made it.
  <1>8. ASSUME NEW i \in 1 .. n, NEW d, HeldFrom(i, d), Makes(n), r = d
        PROVE  i = n
    <2>1. pushes[i].element = made[d] /\ made[d] = e
      BY <1>5, <1>8 DEF HeldFrom, PipeNexts
    <2>2. e \in Nat
      BY <1>2, <1>11
    <2>3. i < n => pushes[i].element < e
      BY <1>2 DEF PipeCalls
    <2> QED
      BY <1>2, <2>1, <2>2, <2>3
  <1>9. ASSUME NEW d \in 1 .. Len(made)
        PROVE  \/ released'[d] = 0 /\ \E i \in 1 .. Len(pushes') : HeldFrom(i, d)'
               \/ /\ released'[d] = IF class[made[d]].releases THEN 1 ELSE 0
                  /\ \A i \in 1 .. Len(pushes') : ~ Holds(i, d)'
    <2>1. CASE released[d] = 0 /\ HeldFrom(n, d)
      <3>1. Makes(n) /\ r = d /\ made[d] = e
        BY <2>1, <1>5 DEF HeldFrom
      <3>2. released'[d] = IF class[made[d]].releases THEN 1 ELSE 0
        <4>1. class[e] \in Classes /\ r # NoElement
          BY <1>2, <1>3, <1>11, <3>1, <1>5, PipelineAssumption
        <4>2. class[e].releases \in BOOLEAN
          BY <4>1, PipelineAssumption
        <4> QED
          BY <1>1, <1>3, <2>1, <3>1, <4>1, <4>2 DEF PipeTypes
      <3>3. \A i \in 1 .. n - 1 : ~ Holds(i, d)
        BY <2>1 DEF HeldFrom
      <3> QED
        BY <1>2, <3>2, <3>3 DEF Holds
    <2>2. CASE /\ released[d] = 0
               /\ \E i \in 1 .. n - 1 : HeldFrom(i, d)
      <3> PICK i \in 1 .. n - 1 : HeldFrom(i, d)
        BY <2>2
      <3>1. i \in 1 .. n /\ i # n
        BY <1>2
      <3>2. ~ (gone /\ r = d)
        BY <1>4, <1>8, <3>1
      <3>3. released'[d] = 0
        BY <1>1, <1>3, <2>2, <3>2 DEF PipeTypes
      <3>4. HeldFrom(i, d)'
        <4>1. \A j \in 1 .. i : pushes'[j] = pushes[j]
          BY <1>2
        <4> QED
          BY <1>1, <4>1 DEF HeldFrom, Makes, Holds
      <3> QED
        BY <1>2, <3>3, <3>4
    <2>3. CASE /\ released[d] = IF class[made[d]].releases THEN 1 ELSE 0
               /\ \A i \in 1 .. n : ~ Holds(i, d)
      <3>1. r # d
        BY <1>2, <2>3 DEF Holds
      <3>2. released'[d] = released[d]
        BY <1>1, <1>3, <3>1 DEF PipeTypes
      <3> QED
        BY <1>2, <2>3, <3>2 DEF Holds
    <2> QED
      BY <1>2, <2>1, <2>2, <2>3 DEF PipeOwned
  <1>10. PipeOwned'
    BY <1>1, <1>7, <1>9 DEF PipeOwned
  <1> QED
    BY <1>1, <1>6, <1>10, PipeReturn

LEMMA Rewritten ==
  ASSUME NEW E, NEW D, NEW r \in D, NEW s, s # << >>, NEW n, n = Len(s),
         s \in Seq([element : E, data : D, next : D, done : BOOLEAN])
  PROVE  LET t == [s EXCEPT ![n].next = r, ![n].done = TRUE]
         IN  /\ Len(t) = n
             /\ \A i \in 1 .. n - 1 : t[i] = s[i]
             /\ t[n] = [element |-> s[n].element, data |-> s[n].data,
                        next |-> r, done |-> TRUE]
             /\ t \in Seq([element : E, data : D, next : D, done : BOOLEAN])
  <1> DEFINE C == [element : E, data : D, next : D, done : BOOLEAN]
             c == [element |-> s[n].element, data |-> s[n].data, next |-> r, done |-> TRUE]
             t == [s EXCEPT ![n].next = r, ![n].done = TRUE]
  <1>0. s \in Seq(C)
    OBVIOUS
  <1>1. n \in Nat \ {0} /\ s \in [1 .. n -> C] /\ n \in 1 .. n
    <2> HIDE DEF C
    <2> QED
      BY <1>0, EmptySeq
  <1>2. s[n] \in C
    BY <1>1
  <1>3. c \in C
    BY <1>2
  <1>4. [[s[n] EXCEPT !.next = r] EXCEPT !.done = TRUE] = c
    <2>1. \A x \in C : [[x EXCEPT !.next = r] EXCEPT !.done = TRUE]
            = [element |-> x.element, data |-> x.data, next |-> r, done |-> TRUE]
      <3> SUFFICES ASSUME NEW x \in C
                   PROVE  [[x EXCEPT !.next = r] EXCEPT !.done = TRUE]
                     = [element |-> x.element, data |-> x.data, next |-> r, done |-> TRUE]
        OBVIOUS
      <3>1. x = [element |-> x.element, data |-> x.data, next |-> x.next, done |-> x.done]
        OBVIOUS
      <3>2. [x EXCEPT !.next = r]
              = [element |-> x.element, data |-> x.data, next |-> r, done |-> x.done]
        BY <3>1
      <3>3. [x EXCEPT !.next = r] \in C
        BY <3>2
      <3>4. \A y \in C, b \in BOOLEAN :
              [y EXCEPT !.done = b]
                = [element |-> y.element, data |-> y.data, next |-> y.next, done |-> b]
        OBVIOUS
      <3> DEFINE y == [x EXCEPT !.next = r]
      <3>5. y \in C /\ y.element = x.element /\ y.data = x.data /\ y.next = r
        BY <3>2, <3>3
      <3> HIDE DEF y
      <3>6. [y EXCEPT !.done = TRUE]
              = [element |-> x.element, data |-> x.data, next |-> r, done |-> TRUE]
        BY <3>4, <3>5, Zenon
      <3> QED
        BY <3>6 DEF y
    <2> QED
      BY <1>2, <2>1
  <1>5. t = [s EXCEPT ![n] = [[s[n] EXCEPT !.next = r] EXCEPT !.done = TRUE]]
    BY <1>1
  <1>6. t = [s EXCEPT ![n] = c]
    BY <1>4, <1>5
  <1> HIDE DEF C, c, t
  <1>8. /\ [s EXCEPT ![n] = c] \in Seq(C) /\ Len([s EXCEPT ![n] = c]) = n
        /\ \A i \in 1 .. n : [s EXCEPT ![n] = c][i] = IF i = n THEN c ELSE s[i]
    BY <1>0, <1>1, <1>3, ExceptSeq
  <1>9. /\ t \in Seq(C) /\ Len(t) = n /\ t[n] = c
        /\ \A i \in 1 .. n - 1 : t[i] = s[i]
    BY <1>1, <1>6, <1>8
  <1> QED
    BY <1>9 DEF C, c, t

\* Process writes what the processor returned into its call; perhaps another call
\* follows.
LEMMA PipeProcess ==
  ASSUME PipeInv, Pipe!Process, NEW n \in Nat, n = Len(pushes)
  PROVE  PipeInv'
  <1> USE DEF PipeInv
  <1> DEFINE e == pushes[n].element
             kind == class[e].processer
             r == CASE kind = "makes" -> Len(made) + 1
                    [] kind = "passes" -> pushes[n].data
                    [] OTHER -> NoElement
             behind == pad[e]
             m == Len(pushes')
             old == [element : Elements, data : Data, next : Data, done : BOOLEAN]
             new == [element : Elements, data : Data', next : Data', done : BOOLEAN]
             written == [pushes EXCEPT ![n].next = r, ![n].done = TRUE]
             call == [element |-> behind, data |-> r, next |-> NoElement, done |-> FALSE]
  <1>1. /\ pushes # << >> /\ ~ pushes[n].done /\ kind # "none"
        /\ made' = IF kind = "makes" THEN Append(made, e) ELSE made
        /\ pushes' = IF behind = NoElement THEN written ELSE Append(written, call)
        /\ UNCHANGED << class, pad, released >>
    BY DEF Pipe!Process, Pipe!Processed, Pipe!Quiet, Pipe!TopClass, Pipe!Top, Pipe!Call
  <1>2. n \in Nat \ {0} /\ n \in 1 .. n
    BY <1>1, AllButLast DEF PipeTypes
  <1>3. /\ e \in Elements /\ e \in Nat /\ class[e] \in Classes
        /\ pushes[n].data \in Data /\ pushes[n].next = NoElement
    BY <1>1, <1>2, CallTypes DEF PipeNexts
  <1>4. Len(made) \in Nat /\ \A d \in 1 .. Len(made) : made[d] \in Elements /\ made[d] < e
    BY <1>1 DEF PipeTypes, PipeMade
  <1>5. /\ kind = "makes" => /\ Len(made') = Len(made) + 1 /\ made'[Len(made) + 1] = e
                             /\ \A d \in 1 .. Len(made) : made'[d] = made[d]
        /\ kind # "makes" => made' = made
        /\ made' \in Seq(Elements)
    BY <1>1, <1>3, <1>4 DEF PipeTypes
  <1>6. Len(made') \in Nat /\ Data \subseteq Data' /\ r \in Data'
    BY <1>3, <1>4, <1>5 DEF Data
  <1>7. /\ behind # NoElement => behind \in Elements /\ behind \in Nat /\ e < behind
                                 /\ class[behind] # NoElement
    BY <1>3, PipelineAssumption DEF PipeTypes, PipeLinks
  <1>8. /\ Len(written) = n
        /\ \A i \in 1 .. n - 1 : written[i] = pushes[i]
        /\ written[n] = [element |-> e, data |-> pushes[n].data, next |-> r, done |-> TRUE]
        /\ written \in Seq(new)
    <2>1. pushes \in Seq(new)
      <3>1. pushes \in Seq(old) /\ old \subseteq new
        BY <1>6 DEF PipeTypes
      <3> HIDE DEF old, new
      <3> QED
        BY <3>1
    <2> HIDE DEF r, kind
    <2>2. ASSUME NEW D, r \in D,
                 pushes \in Seq([element : Elements, data : D, next : D, done : BOOLEAN])
          PROVE  /\ Len(written) = n
                 /\ \A i \in 1 .. n - 1 : written[i] = pushes[i]
                 /\ written[n] = [element |-> e, data |-> pushes[n].data,
                                  next |-> r, done |-> TRUE]
                 /\ written \in Seq([element : Elements, data : D, next : D,
                                     done : BOOLEAN])
      <3>1. pushes # << >> /\ n = Len(pushes)
        BY <1>1
      <3> HIDE DEF PipeInv
      <3> QED
        BY <2>2, <3>1, Rewritten, ZenonT(30)
    <2> QED
      BY <1>6, <2>1, <2>2
  <1>9. /\ m \in {n, n + 1} /\ (m = n <=> behind = NoElement)
        /\ \A i \in 1 .. n - 1 : pushes'[i] = pushes[i]
        /\ pushes'[n] = [element |-> e, data |-> pushes[n].data, next |-> r, done |-> TRUE]
        /\ m = n + 1 => pushes'[m] = call
        /\ pushes' \in Seq(new)
    <2>1. behind # NoElement => call \in new
      BY <1>6, <1>7 DEF Data
    <2>2. pushes' = IF behind = NoElement THEN written ELSE Append(written, call)
      BY <1>1
    <2>3. m = Len(pushes')
      OBVIOUS
    <2> HIDE DEF m, written, call, new, behind, r, e, kind
    <2>4. CASE behind = NoElement
      BY <1>2, <1>8, <2>2, <2>3, <2>4
    <2>5. CASE behind # NoElement
      <3>1. /\ m = n + 1 /\ pushes' \in Seq(new) /\ pushes'[n + 1] = call
            /\ \A i \in 1 .. n : pushes'[i] = written[i]
        BY <1>2, <1>8, <2>1, <2>2, <2>3, <2>5, AppendProperties
      <3>2. pushes'[n] = [element |-> e, data |-> pushes[n].data, next |-> r, done |-> TRUE]
        BY <1>2, <1>8, <3>1
      <3>3. \A i \in 1 .. n - 1 : pushes'[i] = pushes[i]
        BY <1>2, <1>8, <3>1
      <3>4. m # n
        BY <1>2, <3>1
      <3> QED
        BY <2>5, <3>1, <3>2, <3>3, <3>4
    <2> QED
      BY <2>4, <2>5
  <1>10. PipeTypes'
    BY <1>1, <1>5, <1>9 DEF PipeTypes
  <1>11. m = n + 1 => /\ pushes'[m].element = behind /\ ~ pushes'[m].done
                      /\ pushes'[m].data = r /\ pushes'[m].next = NoElement
    BY <1>9
  <1>12. pushes'[n].element = e /\ pushes'[n].done /\ pushes'[n].next = r
         /\ pushes'[n].data = pushes[n].data
    BY <1>9
  <1>13. PipeLinks'
    BY <1>1 DEF PipeLinks
  <1>14. /\ kind = "makes" => r = Len(made) + 1
         /\ kind = "passes" => r = pushes[n].data
         /\ kind # "makes" /\ kind # "passes" => r = NoElement
    OBVIOUS
  <1>15. \A i \in 1 .. n - 1 :
            /\ pushes'[i] = pushes[i] /\ pushes[i].done /\ pushes[i].element < e
            /\ pushes[i].element \in Nat
    BY <1>2, <1>9, CallTypes DEF PipeCalls
  <1>16. \A i \in 1 .. m : i \in 1 .. n - 1 \/ i = n \/ (i = n + 1 /\ i = m)
    BY <1>2, <1>9
  <1>17. n \in 1 .. m /\ m \in Nat
    BY <1>2, <1>9
  <1>18. kind = class[e].processer /\ m = Len(pushes')
    OBVIOUS
  <1> HIDE DEF m, r, behind, e, kind
  <1>19. PipeCalls'
    <2>1. ASSUME NEW i \in 1 .. m PROVE class'[pushes'[i].element] # NoElement
      BY <1>1, <1>2, <1>3, <1>7, <1>9, <1>11, <1>12, <1>15, <1>16, CallTypes,
         PipelineAssumption, <1>18
    <2>2. ASSUME NEW i \in 1 .. m, NEW j \in 1 .. m, i < j
          PROVE  pushes'[i].done /\ pushes'[i].element < pushes'[j].element
      <3>1. CASE j \in 1 .. n - 1
        <4>1. i \in 1 .. n - 1
          BY <1>2, <2>2, <3>1
        <4>2. n = Len(pushes) /\ i \in 1 .. n /\ j \in 1 .. n
          BY <1>2, <3>1, <4>1
        <4>3. PipeCalls
          BY <1>1
        <4>4. pushes[i].done /\ pushes[i].element < pushes[j].element
          <5> HIDE DEF PipeInv
          <5> QED
            BY <2>2, <4>2, <4>3, Zenon DEF PipeCalls
        <4> QED
          BY <1>15, <3>1, <4>1, <4>4, Zenon
      <3>2. CASE j = n
        BY <1>2, <1>12, <1>15, <2>2, <3>2
      <3>3. CASE j = n + 1
        <4>1. e < behind /\ e \in Nat /\ behind \in Nat
          BY <1>2, <1>3, <1>7, <1>9, <1>17, <3>3
        <4>2. pushes'[j].element = behind
          BY <1>11, <1>16, <1>17, <3>3, <1>2
        <4>3. i \in 1 .. n - 1 \/ i = n
          BY <1>2, <2>2, <3>3
        <4> QED
          BY <1>12, <1>15, <4>1, <4>2, <4>3
      <3> QED
        BY <1>16, <3>1, <3>2, <3>3
    <2> QED
      BY <1>18, <2>1, <2>2 DEF PipeCalls
  <1>20. PipeNexts'
    <2> SUFFICES ASSUME NEW i \in 1 .. m
                 PROVE  /\ ~ pushes'[i].done => pushes'[i].next = NoElement
                        /\ Makes(i)' => /\ pushes'[i].next \in 1 .. Len(made')
                                        /\ made'[pushes'[i].next] = pushes'[i].element
                        /\ class[pushes'[i].element].releases /\ ~ Makes(i)' =>
                             pushes'[i].next = NoElement
      BY <1>1, <1>18 DEF PipeNexts
    <2>1. CASE i \in 1 .. n - 1
      <3>1. i \in 1 .. n /\ pushes'[i] = pushes[i]
        BY <1>2, <1>9, <2>1
      <3>2. Makes(i)' <=> Makes(i)
        BY <1>1, <3>1 DEF Makes
      <3>3. \A d \in 1 .. Len(made) : d \in 1 .. Len(made') /\ made'[d] = made[d]
        BY <1>4, <1>5
      <3> QED
        BY <1>18, <3>1, <3>2, <3>3 DEF PipeNexts
    <2>2. CASE i = n
      <3>1. Makes(i)' <=> kind = "makes"
        BY <1>1, <1>12, <1>18, <2>2 DEF Makes
      <3>2. class[e].releases => kind # "passes"
        BY <1>3, <1>18, PipelineAssumption
      <3> QED
        BY <1>4, <1>5, <1>12, <1>14, <2>2, <3>1, <3>2
    <2>3. CASE i = n + 1 /\ i = m
      BY <1>11, <2>3 DEF Makes
    <2> QED
      BY <1>16, <2>1, <2>2, <2>3
  <1>21. PipeMade'
    <2>1. \A d \in 1 .. Len(made') :
            \/ d \in 1 .. Len(made) /\ made'[d] = made[d]
            \/ d = Len(made) + 1 /\ kind = "makes" /\ made'[d] = e
      BY <1>4, <1>5
    <2>2. ASSUME NEW c \in 1 .. Len(made'), NEW d \in 1 .. Len(made'), c < d
          PROVE  made'[c] < made'[d]
      <3>1. CASE d \in 1 .. Len(made) /\ made'[d] = made[d]
        BY <1>4, <2>1, <2>2, <3>1 DEF PipeMade
      <3>2. CASE d = Len(made) + 1 /\ made'[d] = e
        BY <1>4, <2>1, <2>2, <3>2
      <3> QED
        BY <2>1, <3>1, <3>2
    <2>3. ASSUME NEW d \in 1 .. Len(made')
          PROVE  class'[made'[d]] # NoElement
      BY <1>1, <1>3, <2>1, PipelineAssumption DEF PipeMade
    <2>4. ASSUME ~ pushes'[m].done, NEW d \in 1 .. Len(made')
          PROVE  made'[d] < pushes'[m].element
      <3>1. m = n + 1
        BY <1>9, <1>12, <2>4
      <3>2. pushes'[m].element = behind /\ e < behind /\ behind \in Nat
        BY <1>2, <1>7, <1>9, <1>11, <3>1
      <3>3. \A f \in Elements : f \in Nat
        BY PipelineAssumption
      <3> QED
        <4>1. e \in Nat /\ behind \in Nat /\ e < behind
          BY <1>3, <3>2
        <4>2. CASE made'[d] = e
          BY <3>2, <4>1, <4>2
        <4>3. CASE d \in 1 .. Len(made) /\ made'[d] = made[d]
          <5>1. made[d] \in Nat /\ made[d] < e
            BY <1>4, <3>3, <4>3
          <5> QED
            BY <3>2, <4>1, <4>3, <5>1
        <4> QED
          BY <2>1, <4>2, <4>3
    <2> QED
      BY <1>18, <2>2, <2>3, <2>4 DEF PipeMade
  <1>22. PipeOwned'
    <2>1. Len(made') <= Cardinality(Elements) /\ Cardinality(Elements) \in Nat
      BY <1>5, <1>21, Increasing, PipelineAssumption, FS_CardinalityType DEF PipeMade
    <2>2. /\ released'[0] = 0
          /\ \A d \in Len(made') + 1 .. Cardinality(Elements) : released'[d] = 0
      BY <1>1, <1>4, <1>5, <2>1 DEF PipeOwned
    <2>3. ASSUME NEW i \in 1 .. n, NEW d, HeldFrom(i, d)
          PROVE  i \in 1 .. m /\ HeldFrom(i, d)'
      <3>1. i \in 1 .. n - 1
        BY <1>1, <1>2, <1>18, <2>3 DEF HeldFrom, Makes
      <3>2. \A j \in 1 .. i : pushes'[j] = pushes[j]
        BY <1>2, <1>9, <3>1
      <3>3. i \in 1 .. m
        BY <1>2, <1>17, <3>1
      <3> QED
        BY <1>1, <2>3, <3>1, <3>2, <3>3 DEF HeldFrom, Makes, Holds
    <2>4. ASSUME NEW d \in 1 .. Len(made), \A i \in 1 .. n : ~ Holds(i, d)
          PROVE  \A i \in 1 .. m : ~ Holds(i, d)'
      <3>1. d # NoElement /\ d # Len(made) + 1 /\ d # pushes[n].data
        BY <1>2, <1>4, <2>4, PipelineAssumption DEF Holds
      <3>2. r # d
        BY <1>14, <3>1
      <3>3. \A i \in 1 .. n - 1 : ~ Holds(i, d)'
        BY <1>2, <1>9, <2>4 DEF Holds
      <3>4. ~ Holds(n, d)'
        BY <1>12, <3>1, <3>2 DEF Holds
      <3>5. m = n + 1 => ~ Holds(n + 1, d)'
        BY <1>11, <3>1, <3>2 DEF Holds
      <3> QED
        BY <1>16, <3>3, <3>4, <3>5
    <2>5. ASSUME kind = "makes", NEW d \in Nat, d = Len(made) + 1
          PROVE  HeldFrom(n, d)'
      <3>1. Makes(n)'
        BY <1>1, <1>12, <1>18, <2>5 DEF Makes
      <3>2. d \notin Data
        BY <1>4, <2>5, PipelineAssumption DEF Data
      <3>3. \A j \in 1 .. n - 1 : pushes[j].data \in Data /\ pushes[j].next \in Data
        BY <1>2, <1>18, CallTypes
      <3> QED
        BY <1>3, <1>5, <1>9, <1>12, <1>14, <2>5, <3>1, <3>2, <3>3 DEF HeldFrom, Holds
    <2>6. ASSUME NEW d \in 1 .. Len(made')
          PROVE  \/ released[d] = 0 /\ \E i \in 1 .. m : HeldFrom(i, d)'
                 \/ /\ released[d] = IF class[made'[d]].releases THEN 1 ELSE 0
                    /\ \A i \in 1 .. m : ~ Holds(i, d)'
      <3>1. CASE d \in 1 .. Len(made) /\ made'[d] = made[d]
        BY <1>18, <2>3, <2>4, <3>1 DEF PipeOwned
      <3>2. CASE d = Len(made) + 1 /\ kind = "makes"
        <4>1. released[d] = 0
          BY <1>4, <1>5, <2>1, <3>2 DEF PipeOwned
        <4>2. HeldFrom(n, d)'
          BY <1>4, <2>5, <3>2
        <4> QED
          BY <1>17, <4>1, <4>2
      <3> QED
        BY <1>4, <1>5, <3>1, <3>2
    <2> QED
      BY <1>1, <1>18, <2>2, <2>6 DEF PipeOwned
  <1> QED
    BY <1>10, <1>13, <1>19, <1>20, <1>21, <1>22

LEMMA PipeStep == PipeInv /\ [Pipe!Next]_(Pipe!vars) => PipeInv'
  <1> SUFFICES ASSUME PipeInv, [Pipe!Next]_(Pipe!vars) PROVE PipeInv'
    OBVIOUS
  <1>1. CASE Pipe!Ignore
    BY <1>1, PipeIgnore
  <1>2. CASE Pipe!Process
    <2>1. Len(pushes) \in Nat
      BY DEF PipeInv, PipeTypes
    <2> PICK n \in Nat : n = Len(pushes)
      BY <2>1
    <2> QED
      BY <1>2, PipeProcess
  <1>3. CASE Pipe!Release
    BY <1>3, PipeRelease
  <1>4. ASSUME NEW e \in Elements, Pipe!Push(e) PROVE PipeInv'
    BY <1>4, PipePush
  <1>5. ASSUME NEW e \in Elements, NEW c \in Classes, Pipe!Create(e, c) PROVE PipeInv'
    BY <1>5, PipeCreate
  <1>6. ASSUME NEW e \in Elements, NEW f \in Elements, Pipe!Link(e, f) PROVE PipeInv'
    BY <1>6, PipeLink
  <1>7. CASE UNCHANGED Pipe!vars
    BY <1>7 DEF Pipe!vars, PipeInv, PipeTypes, Data, PipeLinks, PipeCalls, PipeNexts, PipeMade,
       PipeOwned, HeldFrom, Holds, Makes
  <1> QED
    BY <1>1, <1>2, <1>3, <1>4, <1>5, <1>6, <1>7 DEF Pipe!Next

\* Data are released once, by the class of the element that made them and behind the
\* last call that was given them, through however many elements they went; data from
\* outside stay with the caller (cf_element.c:83-97).
THEOREM ReleasesBehind == Pipe!Spec => []PipelineReleases
  <1>1. PipeInv => PipelineReleases
    <2> SUFFICES ASSUME PipeInv PROVE Pipe!ReleasedBehind
      BY DEF PipelineReleases
    <2>1. DOMAIN made = 1 .. Len(made) /\ DOMAIN pushes = 1 .. Len(pushes)
      BY DEF PipeInv, PipeTypes
    <2> QED
      BY <2>1 DEF PipeInv, PipeOwned, HeldFrom, Holds, Pipe!ReleasedBehind, Pipe!Quiet
  <1> QED
    BY <1>1, PipeInit, PipeStep, PTL DEF Pipe!Spec

-----------------------------------------------------------------------------
(***************************************************************************)
(* ModuleLoader.  What is loaded is, of the modules with a load function,  *)
(* those registered first; the walk stands behind them.  The exception is  *)
(* a first module with dependencies, which is called for the first of them *)
(* before it is called for itself.                                         *)
(***************************************************************************)
Mine == deps[mods[modAt]]
Busy == isLoad \cup loading

\* Those of the first k calls that are not for the dependency of the first module.
Called(k) == {calls[j] : j \in Len(Mod!First) + 1 .. k}

ModTypes ==
    /\ mods \in Seq(Mods) /\ calls \in Seq(Mods)
    /\ \A p, q \in 1 .. Len(mods) : p < q => mods[p] # mods[q]
    /\ deps \in [Mods -> Seq(Mods)]
    /\ modAt \in 0 .. Len(mods) /\ dep \in Nat

ModWalk ==
    /\ modAt = 0 => dep = 0 /\ loading = {}
    /\ dep > 0 => mods[modAt] \in Loads /\ dep <= Len(Mine) + 1
    /\ crashed => mods[1] \notin Loads /\ dep > 0 /\ loading = {}

\* Nothing is called yet, and the first call will be for a dependency of the first.
BeforeFirst ==
    /\ Mod!First # << >> /\ calls = << >> /\ Busy = {}
    /\ modAt = 0 \/ (modAt = 1 /\ dep = 1)

\* The first module is called for its dependency, and not yet for itself.
AtFirst ==
    /\ Mod!First # << >> /\ calls = Mod!First /\ modAt = 1
    /\ \/ dep = 1 /\ loading = {mods[1]} /\ isLoad = {}
       \/ dep > 1 /\ loading = {} /\ isLoad = {mods[1]}

Walking ==
    /\ Len(calls) >= Len(Mod!First)
    /\ Called(Len(calls)) = Busy
    /\ Mod!First # << >> => mods[1] \in Busy
    /\ Busy \subseteq Mod!Loadable(Len(mods))
    /\ \A p, q \in 1 .. Len(mods) :
          q < p /\ mods[p] \in Busy /\ mods[q] \in Loads => mods[q] \in Busy
    /\ modAt > 0 => Mod!Loadable(modAt - 1) \subseteq isLoad
    /\ modAt > 0 /\ dep = 0 => (mods[modAt] \in Loads => mods[modAt] \in isLoad)
    /\ dep > 0 /\ loading = {} => mods[modAt] \notin isLoad
    /\ loading # {} => loading = {mods[modAt]} /\ dep > Len(Mine)

ModInv ==
    /\ ModTypes /\ ModWalk /\ Mod!CallsInOrder
    /\ BeforeFirst \/ AtFirst \/ Walking

LEMMA FirstIs ==
  /\ Mod!First = << >> => Len(Mod!First) = 0
  /\ Mod!First # << >> => /\ Mod!First = << mods[1] >> /\ Len(Mod!First) = 1
                          /\ Mod!First[1] = mods[1]
                          /\ mods # << >> /\ mods[1] \in Loads /\ deps[mods[1]] # << >>
  /\ mods # << >> /\ mods[1] \in Loads /\ deps[mods[1]] # << >> => Mod!First # << >>
  BY DEF Mod!First

LEMMA FirstLength == Len(Mod!First) \in {0, 1}
  BY FirstIs

\* The first call for the dependency is in the way of nothing that follows.
LEMMA SameFirst ==
  ASSUME mods' = mods \/ (mods # << >> /\ mods' # << >> /\ mods'[1] = mods[1]),
         mods # << >> => deps'[mods[1]] = deps[mods[1]]
  PROVE  Mod!First' = Mod!First
  BY DEF Mod!First

\* Modules are only appended.
Appended ==
    /\ Len(mods) <= Len(mods')
    /\ \A p \in 1 .. Len(mods) : mods'[p] = mods[p]

LEMMA LoadableKept ==
  ASSUME mods \in Seq(Mods), Appended, NEW k \in 0 .. Len(mods)
  PROVE  Mod!Loadable(k)' = Mod!Loadable(k)
  <1>1. \A i \in 1 .. k : mods'[i] = mods[i]
    BY DEF Appended
  <1> QED
    BY <1>1 DEF Mod!Loadable

\* As long as no call is behind that for the dependency, none counts.
LEMMA CalledNone ==
  ASSUME Len(calls) <= Len(Mod!First), calls \in Seq(Mods)
  PROVE  Called(Len(calls)) = {}
  <1>1. Len(calls) \in Nat /\ Len(Mod!First) \in Nat
    BY FirstLength
  <1>2. Len(Mod!First) + 1 .. Len(calls) = {}
    BY <1>1
  <1> QED
    BY <1>2 DEF Called

LEMMA SameOrder ==
  ASSUME Mod!CallsInOrder, calls' = calls, Mod!First' = Mod!First,
         mods \in Seq(Mods), mods' \in Seq(Mods), Appended
  PROVE  Mod!CallsInOrder'
  <1>1. \A k : Called(k)' = Called(k)
    BY DEF Called
  <1>2. ASSUME NEW i \in DOMAIN calls, ~ i <= Len(Mod!First)
        PROVE  \E p \in DOMAIN mods' :
                 /\ mods'[p] = calls[i] /\ mods'[p] \in Loads
                 /\ Called(i - 1)' = Mod!Loadable(p - 1)'
    <2> PICK p \in DOMAIN mods :
               /\ mods[p] = calls[i] /\ mods[p] \in Loads
               /\ Called(i - 1) = Mod!Loadable(p - 1)
      BY <1>2 DEF Mod!CallsInOrder, Called
    <2>1. p \in DOMAIN mods' /\ mods'[p] = mods[p] /\ p - 1 \in 0 .. Len(mods)
      BY DEF Appended
    <2> QED
      BY <1>1, <2>1, LoadableKept
  <1>3. ASSUME NEW i \in DOMAIN calls, i <= Len(Mod!First)
        PROVE  calls[i] = Mod!First[i]
    BY <1>3 DEF Mod!CallsInOrder
  <1> QED
    BY <1>2, <1>3 DEF Mod!CallsInOrder, Called

LEMMA ModInit == Mod!Init => ModInv
  <1> SUFFICES ASSUME Mod!Init PROVE ModInv
    OBVIOUS
  <1>1. mods = << >> /\ calls = << >> /\ modAt = 0 /\ dep = 0 /\ Busy = {} /\ loading = {}
        /\ crashed = FALSE /\ deps = [m \in Mods |-> << >>]
    BY DEF Mod!Init, Busy
  <1>2. Mod!First = << >>
    BY <1>1 DEF Mod!First
  <1>3. ModTypes /\ ModWalk /\ Mod!CallsInOrder
    BY <1>1 DEF ModTypes, ModWalk, Mod!CallsInOrder
  <1>4. Len(calls) = 0 /\ Len(Mod!First) = 0 /\ calls \in Seq(Mods)
    BY <1>1, <1>2, <1>3 DEF ModTypes
  <1>5. Called(Len(calls)) = {}
    BY <1>4, CalledNone
  <1>6. Walking
    BY <1>1, <1>2, <1>4, <1>5 DEF Walking
  <1> QED
    BY <1>3, <1>6 DEF ModInv

\* Registering and naming dependencies disturb no walk.
LEMMA ModGrows ==
  ASSUME ModInv, ModTypes', Appended, UNCHANGED << isLoad, modAt, dep, loading, calls, crashed >>,
         \A p \in 1 .. Len(mods) : deps'[mods[p]] = deps[mods[p]],
         \A p \in Len(mods) + 1 .. Len(mods') : mods'[p] \notin Busy
  PROVE  ModInv'
  <1>1. ModTypes /\ mods \in Seq(Mods) /\ mods' \in Seq(Mods)
    BY DEF ModInv, ModTypes
  <1>2. Busy' = Busy
    BY DEF Busy
  <1>3. modAt > 0 => mods'[modAt] = mods[modAt] /\ Mine' = Mine
    BY <1>1 DEF ModTypes, Appended, Mine
  <1>4. CASE mods = << >>
    <2>1. modAt = 0 /\ Mod!First = << >> /\ ~ AtFirst /\ ~ BeforeFirst
      BY <1>1, <1>4, FirstIs DEF ModTypes, AtFirst, BeforeFirst
    <2>10. Len(mods) = 0 /\ 1 .. 0 = {}
      BY <1>4
    <2>2. Walking /\ Mod!Loadable(Len(mods)) = {}
      BY <2>1, <2>10 DEF ModInv, Mod!Loadable
    <2>3. Busy = {} /\ \A j \in 1 .. Len(calls) : FALSE
      BY <2>1, <2>2, FirstIs DEF Walking, Called
    <2>4. calls = << >>
      <3>1. calls \in Seq(Mods)
        BY <1>1 DEF ModTypes
      <3> QED
        BY <2>3, <3>1, EmptySeq
    <2>5. ~ crashed /\ dep = 0 /\ loading = {}
      BY <2>1 DEF ModInv, ModWalk
    <2>6. Mod!CallsInOrder'
      BY <2>4 DEF Mod!CallsInOrder
    <2>7. ModWalk'
      BY <2>1, <2>5 DEF ModWalk
    <2>8. CASE Mod!First' = << >>
      <3>1. Len(Mod!First') = 0 /\ Len(calls') = 0
        BY <2>4, <2>8
      <3>2. Len(Mod!First') + 1 .. Len(calls') = {}
        BY <3>1
      <3>3. Called(Len(calls))' = {}
        BY <3>2 DEF Called
      <3>4. Walking'
        BY <1>2, <2>1, <2>3, <2>5, <2>8, <3>1, <3>3 DEF Walking
      <3> QED
        BY <2>6, <2>7, <3>4 DEF ModInv
    <2>9. CASE Mod!First' # << >>
      <3>1. BeforeFirst'
        BY <1>2, <2>1, <2>3, <2>4, <2>9 DEF BeforeFirst
      <3> QED
        BY <2>6, <2>7, <3>1 DEF ModInv
    <2> QED
      BY <2>8, <2>9
  <1>5. CASE mods # << >>
    <2>1. 1 \in 1 .. Len(mods) /\ mods'[1] = mods[1] /\ mods' # << >>
      BY <1>1, <1>5, EmptySeq DEF Appended
    <2>2. Mod!First' = Mod!First
      BY <1>5, <2>1, SameFirst
    <2>3. Mod!CallsInOrder'
      BY <1>1, <2>2, SameOrder DEF ModInv
    <2>4. ModWalk'
      BY <1>1, <1>3, <2>1 DEF ModInv, ModWalk, ModTypes
    <2>5. BeforeFirst => BeforeFirst'
      BY <1>2, <2>2 DEF BeforeFirst
    <2>6. AtFirst => AtFirst'
      BY <2>1, <2>2 DEF AtFirst
    <2>7. ASSUME Walking PROVE Walking'
      <3>1. modAt \in Nat /\ modAt <= Len(mods) /\ Len(mods) \in Nat /\ Len(mods') \in Nat
            /\ Len(mods) <= Len(mods')
        BY <1>1 DEF ModTypes, Appended
      <3>2. modAt > 0 => Mod!Loadable(modAt - 1)' \subseteq isLoad
        <4> SUFFICES ASSUME modAt > 0 PROVE Mod!Loadable(modAt - 1)' \subseteq isLoad
          OBVIOUS
        <4>1. modAt - 1 \in 0 .. Len(mods)
          BY <3>1
        <4> PICK k \in 0 .. Len(mods) : k = modAt - 1
          BY <4>1
        <4>2. Mod!Loadable(k)' = Mod!Loadable(k)
          BY <1>1, LoadableKept
        <4>3. Mod!Loadable(modAt - 1)' = Mod!Loadable(k)'
          OBVIOUS
        <4> QED
          BY <2>7, <4>2, <4>3 DEF Walking
      <3>3. Called(Len(calls))' = Called(Len(calls))
        BY <2>2 DEF Called
      <3>4. Busy \subseteq Mod!Loadable(Len(mods))'
        <4> SUFFICES ASSUME NEW m \in Busy PROVE m \in Mod!Loadable(Len(mods))'
          OBVIOUS
        <4>1. \E p \in 1 .. Len(mods) : m = mods[p] /\ m \in Loads
          BY <2>7 DEF Walking, Mod!Loadable
        <4> QED
          BY <3>1, <4>1 DEF Appended, Mod!Loadable
      <3>5. ASSUME NEW p \in 1 .. Len(mods'), NEW q \in 1 .. Len(mods'),
                   q < p, mods'[p] \in Busy, mods'[q] \in Loads
            PROVE  mods'[q] \in Busy
        <4>1. p \in 1 .. Len(mods) /\ q \in 1 .. Len(mods)
          BY <3>1, <3>5
        <4> QED
          BY <2>7, <3>5, <4>1 DEF Walking, Appended
      <3>6. /\ Len(calls) >= Len(Mod!First)
            /\ Called(Len(calls)) = Busy
            /\ Mod!First # << >> => mods[1] \in Busy
            /\ modAt > 0 /\ dep = 0 => (mods[modAt] \in Loads => mods[modAt] \in isLoad)
            /\ dep > 0 /\ loading = {} => mods[modAt] \notin isLoad
            /\ loading # {} => loading = {mods[modAt]} /\ dep > Len(Mine)
        BY <2>7 DEF Walking
      <3>7. modAt = 0 => dep = 0 /\ loading = {}
        BY DEF ModInv, ModWalk
      <3> QED
        BY <1>2, <1>3, <2>1, <2>2, <3>1, <3>2, <3>3, <3>4, <3>5, <3>6, <3>7 DEF Walking
    <2> QED
      BY <2>3, <2>4, <2>5, <2>6, <2>7 DEF ModInv
  <1> QED
    BY <1>4, <1>5

\* What is busy is registered.
LEMMA BusyRegistered ==
  ASSUME ModInv
  PROVE  \A m \in Busy : m \in Mod!ToSet(mods)
  <1>1. mods \in Seq(Mods) /\ Len(mods) \in Nat
    BY DEF ModInv, ModTypes
  <1>2. BeforeFirst => Busy = {}
    BY DEF BeforeFirst
  <1>3. AtFirst => Busy = {mods[1]} /\ 1 \in 1 .. Len(mods)
    BY <1>1, FirstIs, EmptySeq DEF AtFirst, Busy
  <1>4. Walking => \A m \in Busy : \E p \in 1 .. Len(mods) : m = mods[p]
    BY DEF Walking, Mod!Loadable
  <1> QED
    BY <1>1, <1>2, <1>3, <1>4 DEF ModInv, Mod!ToSet

LEMMA ModRegister == ASSUME ModInv, NEW m \in Mods, Mod!Register(m) PROVE ModInv'
  <1>1. ModTypes /\ mods \in Seq(Mods) /\ Len(mods) \in Nat
    BY DEF ModInv, ModTypes
  <1>2. m \notin Mod!ToSet(mods) /\ mods' = Append(mods, m)
        /\ UNCHANGED << deps, isLoad, modAt, dep, loading, calls, crashed >>
    BY DEF Mod!Register
  <1>3. /\ mods' \in Seq(Mods) /\ Len(mods') = Len(mods) + 1
        /\ mods'[Len(mods) + 1] = m
        /\ \A p \in 1 .. Len(mods) : mods'[p] = mods[p]
    BY <1>1, <1>2
  <1>4. \A p \in 1 .. Len(mods) : mods[p] # m
    BY <1>1, <1>2 DEF Mod!ToSet
  <1>5. ModTypes'
    <2>1. ASSUME NEW p \in 1 .. Len(mods'), NEW q \in 1 .. Len(mods'), p < q
          PROVE  mods'[p] # mods'[q]
      <3>1. p \in 1 .. Len(mods) /\ mods'[p] = mods[p]
        BY <1>1, <1>3, <2>1
      <3>2. CASE q \in 1 .. Len(mods)
        BY <1>1, <1>3, <2>1, <3>1, <3>2 DEF ModTypes
      <3>3. CASE q = Len(mods) + 1
        BY <1>3, <1>4, <3>1, <3>3
      <3> QED
        BY <1>1, <1>3, <3>2, <3>3
    <2> QED
      BY <1>1, <1>2, <1>3, <2>1 DEF ModTypes
  <1>6. Appended
    BY <1>1, <1>3 DEF Appended
  <1>7. \A p \in Len(mods) + 1 .. Len(mods') : mods'[p] \notin Busy
    BY <1>1, <1>2, <1>3, BusyRegistered
  <1> QED
    BY <1>2, <1>5, <1>6, <1>7, ModGrows

LEMMA ModAddDep ==
  ASSUME ModInv, NEW m \in Mods, NEW name \in Mods, Mod!AddDep(m, name)
  PROVE  ModInv'
  <1>1. ModTypes /\ mods \in Seq(Mods) /\ Len(mods) \in Nat
    BY DEF ModInv, ModTypes
  <1>2. m \notin Mod!ToSet(mods)
        /\ UNCHANGED << mods, isLoad, modAt, dep, loading, calls, crashed >>
    BY DEF Mod!AddDep
  <1>3. deps' \in [Mods -> Seq(Mods)] /\ \A n \in Mods : n # m => deps'[n] = deps[n]
    BY <1>1 DEF ModTypes, Mod!AddDep
  <1>4. \A p \in 1 .. Len(mods) : mods[p] # m /\ mods[p] \in Mods
    BY <1>1, <1>2 DEF Mod!ToSet
  <1>5. ModTypes'
    BY <1>1, <1>2, <1>3 DEF ModTypes
  <1>6. Appended
    BY <1>1, <1>2 DEF Appended
  <1>7. \A p \in 1 .. Len(mods) : deps'[mods[p]] = deps[mods[p]]
    BY <1>3, <1>4
  <1>8. \A p \in Len(mods) + 1 .. Len(mods') : mods'[p] \notin Busy
    BY <1>1, <1>2
  <1> QED
    BY <1>2, <1>5, <1>6, <1>7, <1>8, ModGrows

\* The walk of the list goes on behind modules that are loaded.
LEMMA VisitNext ==
  ASSUME ModInv, Walking, NEW k \in 1 .. Len(mods) + 1, Mod!Visit(k),
         Mod!Loadable(k - 1) \subseteq isLoad', ~ crashed,
         k <= Len(mods) => mods[k] \notin loading, Busy' = Busy, loading' = {}, UNCHANGED << mods, deps, calls, crashed >>
  PROVE  ModInv'
  <1>1. ModTypes /\ mods \in Seq(Mods) /\ Len(mods) \in Nat
    BY DEF ModInv, ModTypes
  <1>2. Mod!First' = Mod!First /\ Appended
    BY <1>1 DEF Mod!First, Appended
  <1>3. Mod!CallsInOrder'
    BY <1>1, <1>2, SameOrder DEF ModInv
  <1>4. isLoad' = Busy
    BY DEF Busy
  <1>5. /\ k <= Len(mods) => modAt' = k /\ dep' = IF mods[k] \in Loads \ isLoad THEN 1 ELSE 0
        /\ k = Len(mods) + 1 => modAt' = 0 /\ dep' = 0
    BY <1>1 DEF Mod!Visit
  <1>6. k \in Nat /\ k >= 1 /\ k <= Len(mods) + 1
    BY <1>1
  <1>7. ModTypes'
    <2>1. modAt' \in 0 .. Len(mods) /\ dep' \in Nat
      BY <1>1, <1>5, <1>6
    <2> QED
      BY <1>1, <2>1 DEF ModTypes
  <1>8. k <= Len(mods) => (mods[k] \in isLoad' <=> mods[k] \in isLoad)
    BY <1>4, <1>6 DEF Busy
  <1>9. ModWalk'
    BY <1>1, <1>5, <1>6, <1>7 DEF ModWalk, ModTypes, Mine
  <1>10. Called(Len(calls))' = Called(Len(calls))
    BY <1>2 DEF Called
  <1>11. /\ Mod!Loadable(Len(mods))' = Mod!Loadable(Len(mods))
         /\ modAt' > 0 => Mod!Loadable(modAt - 1)' = Mod!Loadable(k - 1)
    BY <1>5, <1>6 DEF Mod!Loadable
  <1>12. Walking'
    BY <1>2, <1>5, <1>6, <1>8, <1>10, <1>11 DEF Walking
  <1> QED
    BY <1>3, <1>7, <1>9, <1>12 DEF ModInv

\* Where the walk is, in each of the three phases.
LEMMA Phases ==
  ASSUME ModInv
  PROVE  /\ mods \in Seq(Mods) /\ Len(mods) \in Nat
         /\ modAt \in Nat /\ modAt <= Len(mods) /\ dep \in Nat
         /\ BeforeFirst \/ AtFirst => 1 <= Len(mods) /\ mods[1] \in Loads
                                      /\ (modAt > 0 => modAt = 1 /\ dep > 0 /\ Len(Mine) >= 1)
  <1>1. /\ mods \in Seq(Mods) /\ Len(mods) \in Nat
        /\ modAt \in Nat /\ modAt <= Len(mods) /\ dep \in Nat
        /\ deps \in [Mods -> Seq(Mods)]
    BY DEF ModInv, ModTypes
  <1>2. ASSUME BeforeFirst \/ AtFirst
        PROVE  /\ 1 <= Len(mods) /\ mods[1] \in Loads
               /\ (modAt > 0 => modAt = 1 /\ dep > 0 /\ Len(Mine) >= 1)
    <2>1. mods # << >> /\ mods[1] \in Loads /\ deps[mods[1]] # << >>
      BY <1>2, FirstIs DEF BeforeFirst, AtFirst
    <2>2. 1 <= Len(mods)
      BY <1>1, <2>1, EmptySeq
    <2>3. mods[1] \in Mods
      BY <1>1, <2>2
    <2>4. Len(deps[mods[1]]) >= 1
      BY <1>1, <2>1, <2>3, EmptySeq
    <2>5. modAt > 0 => modAt = 1 /\ dep > 0
      BY <1>1, <1>2 DEF BeforeFirst, AtFirst
    <2> QED
      BY <2>1, <2>2, <2>4, <2>5 DEF Mine
  <1> QED
    BY <1>1, <1>2

LEMMA LoadableNone == Mod!Loadable(0) = {}
  <1>1. 1 .. 0 = {}
    OBVIOUS
  <1> QED
    BY <1>1 DEF Mod!Loadable

LEMMA ModSetup == ASSUME ModInv, Mod!Setup PROVE ModInv'
  <1>1. /\ ~ crashed /\ modAt = 0 /\ mods # << >> /\ Mod!Visit(1)
        /\ UNCHANGED << mods, deps, isLoad, loading, calls, crashed >>
    BY DEF Mod!Setup
  <1>2. mods \in Seq(Mods) /\ 1 <= Len(mods) /\ Len(mods) \in Nat /\ loading = {} /\ ModTypes
    BY <1>1, EmptySeq DEF ModInv, ModWalk, ModTypes
  <1>3. CASE BeforeFirst
    <2>1. modAt' = 1 /\ dep' = 1 /\ Mod!First' = Mod!First /\ Busy' = Busy /\ mods[1] \in Loads
      BY <1>1, <1>2, <1>3, FirstIs DEF BeforeFirst, Busy, Mod!Visit, Mod!First
    <2>2. BeforeFirst'
      BY <1>1, <1>3, <2>1 DEF BeforeFirst
    <2>3. ModTypes'
      BY <1>1, <1>2, <2>1 DEF ModTypes
    <2>4. ModWalk'
      <3>1. mods[1] \in Mods /\ deps \in [Mods -> Seq(Mods)]
        BY <1>2 DEF ModTypes
      <3>2. Len(deps[mods[1]]) \in Nat
        BY <3>1
      <3> QED
        BY <1>1, <2>1, <3>2 DEF ModWalk, Mine
    <2>5. Appended
      BY <1>1, <1>2 DEF Appended
    <2>6. Mod!CallsInOrder'
      BY <1>1, <1>2, <2>1, <2>5, SameOrder DEF ModInv
    <2> QED
      BY <2>2, <2>3, <2>4, <2>6 DEF ModInv
  <1>4. CASE AtFirst
    BY <1>1, <1>4 DEF AtFirst
  <1>5. CASE Walking
    <2>1. Busy' = Busy
      BY <1>1 DEF Busy
    <2>2. 1 \in 1 .. Len(mods) + 1 /\ 1 - 1 = 0
      BY <1>2
    <2> QED
      BY <1>1, <1>2, <1>5, <2>1, <2>2, LoadableNone, VisitNext
  <1> QED
    BY <1>3, <1>4, <1>5 DEF ModInv

\* A module that is loaded or needs no loading belongs to what is loaded in front.
LEMMA LoadableNext ==
  ASSUME NEW n \in Nat, n > 0, NEW S, Mod!Loadable(n - 1) \subseteq S,
         mods[n] \in Loads => mods[n] \in S
  PROVE  Mod!Loadable(n) \subseteq S
  <1> SUFFICES ASSUME NEW i \in 1 .. n, mods[i] \in Loads PROVE mods[i] \in S
    BY DEF Mod!Loadable
  <1>1. CASE i = n
    BY <1>1
  <1>2. CASE i # n
    BY <1>2 DEF Mod!Loadable
  <1> QED
    BY <1>1, <1>2

LEMMA ModSkip == ASSUME ModInv, Mod!Skip PROVE ModInv'
  <1>1. /\ modAt > 0 /\ dep = 0 /\ Mod!Visit(modAt + 1)
        /\ UNCHANGED << mods, deps, isLoad, loading, calls, crashed >>
    BY DEF Mod!Skip
  <1>2. Walking /\ loading = {} /\ ~ crashed
    <2>1. ~ BeforeFirst /\ ~ AtFirst
      BY <1>1, Phases
    <2>2. Walking
      BY <2>1 DEF ModInv
    <2>3. loading = {}
      BY <1>1, <2>2, Phases DEF ModInv, ModTypes, Walking, Mine
    <2>4. ~ crashed
      BY <1>1 DEF ModInv, ModWalk
    <2> QED
      BY <2>2, <2>3, <2>4
  <1>3. modAt \in Nat /\ modAt + 1 \in 1 .. Len(mods) + 1 /\ (modAt + 1) - 1 = modAt
    BY <1>1, Phases
  <1>4. Mod!Loadable(modAt) \subseteq isLoad
    BY <1>1, <1>2, <1>3, LoadableNext DEF Walking
  <1>5. Busy' = Busy
    BY <1>1 DEF Busy
  <1> QED
    BY <1>1, <1>2, <1>3, <1>4, <1>5, VisitNext

LEMMA MineTypes ==
  ASSUME ModInv, modAt > 0
  PROVE  mods[modAt] \in Mods /\ modAt \in 1 .. Len(mods) /\ Mine \in Seq(Mods) /\ Len(Mine) \in Nat
  <1>1. /\ modAt \in 1 .. Len(mods) /\ mods \in Seq(Mods) /\ deps \in [Mods -> Seq(Mods)]
    BY Phases DEF ModInv, ModTypes
  <1>2. mods[modAt] \in Mods
    BY <1>1
  <1>3. Mine \in Seq(Mods)
    BY <1>1, <1>2 DEF Mine
  <1> QED
    BY <1>1, <1>2, <1>3

LEMMA ModNextDep == ASSUME ModInv, Mod!NextDep PROVE ModInv'
  <1>1. /\ dep > 0 /\ loading = {} /\ ~ crashed /\ dep <= Len(Mine) /\ mods[1] \in isLoad
        /\ UNCHANGED << mods, deps, isLoad, loading, calls, crashed >>
    BY DEF Mod!NextDep, Mod!Due, Mod!Find, Mine
  <1>2. modAt > 0
    BY <1>1, Phases DEF ModInv, ModWalk
  <1>3. Len(Mine) \in Nat /\ dep \in Nat
    BY <1>2, MineTypes, Phases
  <1>4. dep' = dep + 1 /\ modAt' = modAt
    BY <1>1, <1>3 DEF Mod!NextDep, Mod!Onward, Mine
  <1>5. Mod!First' = Mod!First /\ Busy' = Busy /\ Mine' = Mine /\ Appended
    BY <1>1, <1>4, Phases DEF Mod!First, Busy, Mine, Appended
  <1>6. Mod!CallsInOrder'
    BY <1>1, <1>5, Phases, SameOrder DEF ModInv
  <1>7. ModTypes'
    BY <1>1, <1>3, <1>4 DEF ModInv, ModTypes
  <1>8. ModWalk'
    <2>1. mods[modAt] \in Loads
      BY <1>1 DEF ModInv, ModWalk
    <2> QED
      BY <1>1, <1>2, <1>3, <1>4, <1>5, <2>1 DEF ModWalk
  <1>9. ~ BeforeFirst
    BY <1>1 DEF BeforeFirst, Busy
  <1>10. AtFirst => AtFirst'
    BY <1>1, <1>3, <1>4, <1>5 DEF AtFirst
  <1>11. ASSUME Walking PROVE Walking'
    <2>1. Called(Len(calls))' = Called(Len(calls))
      BY <1>1, <1>5 DEF Called
    <2>2. Mod!Loadable(Len(mods))' = Mod!Loadable(Len(mods))
          /\ Mod!Loadable(modAt - 1)' = Mod!Loadable(modAt - 1)
      BY <1>1, <1>4 DEF Mod!Loadable
    <2> QED
      BY <1>1, <1>2, <1>3, <1>4, <1>5, <1>11, <2>1, <2>2 DEF Walking
  <1> QED
    BY <1>6, <1>7, <1>8, <1>9, <1>10, <1>11 DEF ModInv

LEMMA ModLoaded == ASSUME ModInv, Mod!Loaded PROVE ModInv'
  <1>1. /\ loading # {} /\ isLoad' = isLoad \cup loading /\ loading' = {}
        /\ UNCHANGED << mods, deps, calls, crashed >>
    BY DEF Mod!Loaded
  <1>2. modAt > 0 /\ ~ crashed
    BY <1>1, Phases DEF ModInv, ModWalk
  <1>3. Busy' = Busy
    BY <1>1 DEF Busy
  <1>4. Len(Mine) \in Nat /\ dep \in Nat /\ ModTypes
    BY <1>2, MineTypes, Phases DEF ModInv
  <1>5. ~ BeforeFirst
    BY <1>1 DEF BeforeFirst, Busy
  <1>6. CASE AtFirst
    <2>1. modAt = 1 /\ dep = 1 /\ loading = {mods[1]} /\ isLoad = {} /\ Len(Mine) >= 1
      BY <1>1, <1>2, <1>6, Phases DEF AtFirst
    <2>2. modAt' = 1 /\ dep' = 2
      BY <1>4, <2>1 DEF Mod!Loaded, Mod!Onward, Mine
    <2>3. Mod!First' = Mod!First /\ Mine' = Mine /\ Appended
      BY <1>1, <2>1, <2>2, Phases DEF Mod!First, Mine, Appended
    <2>4. Mod!CallsInOrder'
      BY <1>1, <2>3, Phases, SameOrder DEF ModInv
    <2>5. ModTypes'
      BY <1>1, <1>4, <2>1, <2>2 DEF ModTypes
    <2>6. ModWalk'
      BY <1>1, <1>2, <1>4, <1>6, <2>1, <2>2, <2>3, Phases DEF ModWalk
    <2>7. AtFirst'
      BY <1>1, <1>6, <2>1, <2>2, <2>3 DEF AtFirst
    <2> QED
      BY <2>4, <2>5, <2>6, <2>7 DEF ModInv
  <1>7. CASE Walking
    <2>1. loading = {mods[modAt]} /\ dep > Len(Mine)
      BY <1>1, <1>7 DEF Walking
    <2>2. Mod!Visit(modAt + 1)
      BY <2>1 DEF Mod!Loaded, Mod!Onward, Mine
    <2>3. modAt \in Nat /\ modAt + 1 \in 1 .. Len(mods) + 1 /\ (modAt + 1) - 1 = modAt
          /\ Len(mods) \in Nat
      BY <1>2, Phases
    <2>4. Mod!Loadable(modAt - 1) \subseteq isLoad'
      BY <1>1, <1>2, <1>7 DEF Walking
    <2>5. Mod!Loadable(modAt) \subseteq isLoad'
      BY <1>1, <1>2, <2>1, <2>3, <2>4, LoadableNext
    <2>6. modAt + 1 <= Len(mods) => mods[modAt + 1] \notin loading
      <3>1. \A p, q \in 1 .. Len(mods) : p < q => mods[p] # mods[q]
        BY <1>4 DEF ModTypes
      <3>2. modAt + 1 <= Len(mods) =>
              modAt \in 1 .. Len(mods) /\ modAt + 1 \in 1 .. Len(mods) /\ modAt < modAt + 1
        BY <1>2, <2>3
      <3> QED
        BY <2>1, <3>1, <3>2
    <2> QED
      BY <1>1, <1>2, <1>3, <1>7, <2>2, <2>3, <2>5, <2>6, VisitNext
  <1> QED
    BY <1>5, <1>6, <1>7 DEF ModInv

\* A call behind those for all that was registered before it is in order.
LEMMA NextInOrder ==
  ASSUME ModInv, NEW m \in Mods, calls' = Append(calls, m), UNCHANGED << mods, deps >>,
         Len(calls) >= Len(Mod!First),
         NEW p \in 1 .. Len(mods), mods[p] = m, m \in Loads,
         Called(Len(calls)) = Mod!Loadable(p - 1)
  PROVE  Mod!CallsInOrder' /\ Called(Len(calls))' = Called(Len(calls)) \cup {m}
  <1>1. calls \in Seq(Mods) /\ mods \in Seq(Mods) /\ Len(calls) \in Nat
    BY DEF ModInv, ModTypes
  <1>2. Mod!First' = Mod!First
    BY DEF Mod!First
  <1>3. /\ Len(calls') = Len(calls) + 1 /\ DOMAIN calls' = 1 .. Len(calls) + 1
        /\ DOMAIN calls = 1 .. Len(calls)
        /\ calls'[Len(calls) + 1] = m /\ \A j \in 1 .. Len(calls) : calls'[j] = calls[j]
    BY <1>1
  <1>4. Len(Mod!First) \in Nat
    BY FirstLength
  <1>5. ASSUME NEW k \in 0 .. Len(calls)
        PROVE  {calls'[j] : j \in Len(Mod!First) + 1 .. k} = Called(k)
    <2>1. \A j \in Len(Mod!First) + 1 .. k : calls'[j] = calls[j]
      BY <1>1, <1>3, <1>4
    <2> QED
      BY <2>1 DEF Called
  <1>6. \A j : Mod!Loadable(j)' = Mod!Loadable(j)
    BY DEF Mod!Loadable
  <1>7. ASSUME NEW i \in 1 .. Len(calls), i <= Len(Mod!First)
        PROVE  calls'[i] = Mod!First[i]
    BY <1>3, <1>7 DEF ModInv, Mod!CallsInOrder
  <1>8. ASSUME NEW i \in 1 .. Len(calls), ~ i <= Len(Mod!First)
        PROVE  \E r \in DOMAIN mods :
                 /\ mods[r] = calls'[i] /\ mods[r] \in Loads
                 /\ {calls'[j] : j \in Len(Mod!First) + 1 .. i - 1} = Mod!Loadable(r - 1)
    <2>1. i - 1 \in 0 .. Len(calls)
      BY <1>1
    <2>2. {calls'[j] : j \in Len(Mod!First) + 1 .. i - 1} = Called(i - 1)
      BY <1>5, <2>1
    <2> PICK r \in DOMAIN mods : /\ mods[r] = calls[i] /\ mods[r] \in Loads
                                 /\ Called(i - 1) = Mod!Loadable(r - 1)
      BY <1>3, <1>8 DEF ModInv, Mod!CallsInOrder, Called
    <2> QED
      BY <1>3, <2>2
  <1>9. /\ mods[p] = calls'[Len(calls) + 1] /\ mods[p] \in Loads /\ p \in DOMAIN mods
        /\ {calls'[j] : j \in Len(Mod!First) + 1 .. (Len(calls) + 1) - 1} = Mod!Loadable(p - 1)
        /\ ~ Len(calls) + 1 <= Len(Mod!First)
    <2>1. (Len(calls) + 1) - 1 = Len(calls) /\ Len(calls) \in 0 .. Len(calls)
      BY <1>1
    <2> QED
      BY <1>1, <1>3, <1>4, <1>5, <2>1
  <1>10. Mod!CallsInOrder'
    <2> SUFFICES ASSUME NEW i \in DOMAIN calls'
                 PROVE  IF i <= Len(Mod!First) THEN calls'[i] = Mod!First[i]
                        ELSE \E r \in DOMAIN mods :
                               /\ mods[r] = calls'[i] /\ mods[r] \in Loads
                               /\ {calls'[j] : j \in Len(Mod!First) + 1 .. i - 1}
                                    = Mod!Loadable(r - 1)
      BY <1>2, <1>6 DEF Mod!CallsInOrder
    <2>1. i \in 1 .. Len(calls) \/ i = Len(calls) + 1
      BY <1>1, <1>3
    <2>2. CASE i \in 1 .. Len(calls)
      BY <1>7, <1>8, <2>2
    <2>3. CASE i = Len(calls) + 1
      BY <1>9, <2>3
    <2> QED
      BY <2>1, <2>2, <2>3
  <1>11. Called(Len(calls))' = Called(Len(calls)) \cup {m}
    <2>1. Called(Len(calls))' = {calls'[j] : j \in Len(Mod!First) + 1 .. Len(calls) + 1}
      BY <1>2, <1>3 DEF Called
    <2>2. Len(Mod!First) + 1 .. Len(calls) + 1
            = (Len(Mod!First) + 1 .. Len(calls)) \cup {Len(calls) + 1}
      BY <1>1, <1>4
    <2>3. {calls'[j] : j \in Len(Mod!First) + 1 .. Len(calls) + 1}
            = {calls'[j] : j \in Len(Mod!First) + 1 .. Len(calls)} \cup {m}
      BY <1>3, <2>2
    <2>4. Len(calls) \in 0 .. Len(calls)
      BY <1>1
    <2> QED
      BY <1>5, <2>1, <2>3, <2>4
  <1> QED
    BY <1>10, <1>11

LEMMA ModCall == ASSUME ModInv, Mod!Call PROVE ModInv'
  <1>1. /\ dep > 0 /\ loading = {} /\ ~ crashed
        /\ UNCHANGED << mods, deps, isLoad, modAt, dep >>
    BY DEF Mod!Call
  <1>2. modAt > 0 /\ mods[modAt] \in Loads /\ dep <= Len(Mine) + 1
    BY <1>1, Phases DEF ModInv, ModWalk
  <1>3. /\ modAt \in 1 .. Len(mods) /\ mods[modAt] \in Mods /\ Len(Mine) \in Nat /\ dep \in Nat
        /\ mods \in Seq(Mods) /\ Len(mods) \in Nat /\ ModTypes
        /\ calls \in Seq(Mods) /\ Len(calls) \in Nat
    BY <1>2, MineTypes, Phases DEF ModInv, ModTypes
  <1>4. mods[1] \in Mods
    BY <1>3
  <1>5. Mod!First' = Mod!First /\ Mine' = Mine /\ Appended
    BY <1>1, <1>3 DEF Mod!First, Mine, Appended
  <1>6. /\ dep <= Len(Mine) => Mod!Due = mods[1] /\ mods[1] \notin isLoad
        /\ dep > Len(Mine) => Mod!Due = mods[modAt]
    BY <1>3 DEF Mod!Call, Mod!Due, Mod!Find, Mine
  <1>7. /\ Mod!Due \in Loads => /\ loading' = {Mod!Due} /\ calls' = Append(calls, Mod!Due)
                               /\ crashed' = crashed
        /\ Mod!Due \notin Loads => crashed' /\ UNCHANGED << loading, calls >>
    BY DEF Mod!Call
  <1>8. mods' = mods /\ deps' = deps /\ isLoad' = isLoad /\ modAt' = modAt /\ dep' = dep
    BY <1>1
  <1>9. CASE BeforeFirst
    <2>1. /\ modAt = 1 /\ dep = 1 /\ dep <= Len(Mine) /\ mods[1] \in Loads
          /\ Mod!First # << >> /\ isLoad = {} /\ calls = << >>
      BY <1>2, <1>9, Phases DEF BeforeFirst, Busy
    <2>2. /\ loading' = {mods[1]} /\ calls' = << mods[1] >> /\ ~ crashed'
      BY <1>1, <1>6, <1>7, <2>1
    <2>3. Mod!First = << mods[1] >> /\ Len(Mod!First) = 1 /\ Mod!First[1] = mods[1]
      BY <2>1, FirstIs
    <2>4. AtFirst'
      BY <1>5, <1>8, <2>1, <2>2, <2>3 DEF AtFirst
    <2>5. ModTypes'
      BY <1>3, <1>4, <1>8, <2>2 DEF ModTypes
    <2>6. ModWalk'
      BY <1>2, <1>5, <1>8, <2>2 DEF ModWalk
    <2>7. Mod!CallsInOrder'
      <3>1. DOMAIN calls' = {1} /\ calls'[1] = mods[1]
        BY <2>2
      <3> QED
        BY <1>5, <2>3, <3>1 DEF Mod!CallsInOrder
    <2> QED
      BY <2>4, <2>5, <2>6, <2>7 DEF ModInv
  <1>10. ASSUME Mod!Due \in Loads, Mod!Due \in Mods PROVE ModTypes'
    <2>1. calls' \in Seq(Mods)
      BY <1>3, <1>7, <1>10
    <2> QED
      BY <1>3, <1>8, <2>1 DEF ModTypes
  <1>11. CASE AtFirst
    <2>1. /\ modAt = 1 /\ isLoad = {mods[1]} /\ mods[1] \in Loads
          /\ Mod!First # << >> /\ calls = Mod!First
      BY <1>1, <1>2, <1>11, Phases DEF AtFirst
    <2>2. dep > Len(Mine) /\ Mod!Due = mods[1]
      BY <1>3, <1>6, <2>1
    <2>3. loading' = {mods[1]} /\ calls' = Append(calls, mods[1]) /\ ~ crashed'
      BY <1>1, <1>7, <2>1, <2>2
    <2>4. Len(calls) = Len(Mod!First) /\ Called(Len(calls)) = {}
      BY <1>3, <2>1, FirstLength, CalledNone
    <2>5. 1 \in 1 .. Len(mods) /\ 1 - 1 = 0 /\ Called(Len(calls)) = Mod!Loadable(1 - 1)
      BY <1>3, <2>1, <2>4, LoadableNone
    <2>6. Mod!CallsInOrder' /\ Called(Len(calls))' = {mods[1]}
      BY <1>3, <1>4, <1>8, <2>1, <2>3, <2>4, <2>5, NextInOrder
    <2>7. ModTypes'
      BY <1>4, <1>10, <2>1, <2>2
    <2>8. ModWalk'
      BY <1>2, <1>5, <1>8, <2>3 DEF ModWalk
    <2>9. Walking'
      <3>1. Busy' = {mods[1]} /\ Len(calls') >= Len(Mod!First')
        BY <1>3, <1>5, <1>8, <2>1, <2>3, <2>4 DEF Busy
      <3>2. mods[1] \in Mod!Loadable(Len(mods))'
        BY <1>8, <2>1, <2>5 DEF Mod!Loadable
      <3>3. \A p, q \in 1 .. Len(mods) : q < p => mods[p] # mods[1]
        BY <1>3, <2>5 DEF ModTypes
      <3>4. Mod!Loadable(modAt - 1)' = {}
        <4>1. 1 .. modAt' - 1 = {}
          BY <1>8, <2>1
        <4> QED
          BY <4>1 DEF Mod!Loadable
      <3> QED
        BY <1>3, <1>5, <1>8, <2>1, <2>2, <2>3, <2>6, <3>1, <3>2, <3>3, <3>4 DEF Walking
    <2> QED
      BY <2>6, <2>7, <2>8, <2>9 DEF ModInv
  <1>12. CASE Walking /\ dep > Len(Mine)
    <2>1. Mod!Due = mods[modAt] /\ Mod!Due \in Loads /\ Mod!Due \in Mods
      BY <1>2, <1>3, <1>6, <1>12
    <2>2. loading' = {mods[modAt]} /\ calls' = Append(calls, mods[modAt]) /\ ~ crashed'
      BY <1>1, <1>7, <2>1
    <2>3. Busy = isLoad /\ Called(Len(calls)) = isLoad /\ mods[modAt] \notin isLoad
          /\ Len(calls) >= Len(Mod!First)
      BY <1>1, <1>12 DEF Walking, Busy
    <2>4. isLoad = Mod!Loadable(modAt - 1)
      <3>1. Mod!Loadable(modAt - 1) \subseteq isLoad
        BY <1>2, <1>12 DEF Walking
      <3>2. ASSUME NEW m \in isLoad PROVE m \in Mod!Loadable(modAt - 1)
        <4>1. \E p \in 1 .. Len(mods) : m = mods[p] /\ m \in Loads
          BY <1>12, <2>3 DEF Walking, Mod!Loadable
        <4> PICK p \in 1 .. Len(mods) : m = mods[p] /\ m \in Loads
          BY <4>1
        <4>2. p # modAt
          BY <2>3
        <4>3. ~ modAt < p
          BY <1>2, <1>3, <1>12, <2>3 DEF Walking
        <4>4. p \in 1 .. modAt - 1
          BY <1>3, <4>2, <4>3
        <4> QED
          BY <4>4 DEF Mod!Loadable
      <3> QED
        BY <3>1, <3>2
    <2>5. Mod!CallsInOrder' /\ Called(Len(calls))' = isLoad \cup {mods[modAt]}
      BY <1>2, <1>3, <1>8, <2>2, <2>3, <2>4, NextInOrder
    <2>6. ModTypes'
      BY <1>10, <2>1
    <2>7. ModWalk'
      BY <1>2, <1>5, <1>8, <2>2 DEF ModWalk
    <2>8. Walking'
      <3>1. Busy' = isLoad \cup {mods[modAt]} /\ Len(calls') >= Len(Mod!First')
        BY <1>3, <1>5, <1>8, <2>2, <2>3 DEF Busy
      <3>2. isLoad \cup {mods[modAt]} \subseteq Mod!Loadable(Len(mods))'
        <4>1. isLoad \subseteq Mod!Loadable(Len(mods))
          BY <1>12, <2>3 DEF Walking
        <4>2. mods[modAt] \in Mod!Loadable(Len(mods))
          BY <1>2, <1>3 DEF Mod!Loadable
        <4>3. Mod!Loadable(Len(mods))' = Mod!Loadable(Len(mods))
          BY <1>8 DEF Mod!Loadable
        <4> QED
          BY <4>1, <4>2, <4>3
      <3>3. Mod!Loadable(modAt - 1)' = isLoad
        BY <1>8, <2>4 DEF Mod!Loadable
      <3>4. ASSUME NEW p \in 1 .. Len(mods), NEW q \in 1 .. Len(mods), q < p,
                   mods[p] \in isLoad \cup {mods[modAt]}, mods[q] \in Loads
            PROVE  mods[q] \in isLoad \cup {mods[modAt]}
        <4>1. CASE mods[p] \in isLoad
          BY <1>12, <2>3, <3>4, <4>1 DEF Walking
        <4>2. CASE mods[p] = mods[modAt]
          <5>1. p = modAt
            BY <1>3, <4>2 DEF ModTypes
          <5>2. q \in 1 .. modAt - 1
            BY <1>3, <3>4, <5>1
          <5> QED
            BY <2>4, <3>4, <5>2 DEF Mod!Loadable
        <4> QED
          BY <3>4, <4>1, <4>2
      <3>5. Mod!First # << >> => mods[1] \in isLoad
        BY <1>12, <2>3 DEF Walking
      <3> QED
        BY <1>2, <1>3, <1>5, <1>8, <1>12, <2>2, <2>5, <3>1, <3>2, <3>3, <3>4, <3>5 DEF Walking
    <2> QED
      BY <2>5, <2>6, <2>7, <2>8 DEF ModInv
  <1>13. CASE Walking /\ ~ dep > Len(Mine)
    <2>1. dep <= Len(Mine) /\ Mod!Due = mods[1] /\ mods[1] \notin isLoad
      BY <1>3, <1>6, <1>13
    <2>2. mods[1] \notin Loads
      <3> SUFFICES ASSUME mods[1] \in Loads PROVE FALSE
        OBVIOUS
      <3>1. CASE modAt = 1
        <4>1. Mine # << >> /\ mods # << >>
          BY <1>1, <1>3, <2>1
        <4>2. Mod!First # << >>
          BY <3>1, <4>1, FirstIs DEF Mine
        <4> QED
          BY <1>1, <1>13, <2>1, <4>2 DEF Walking, Busy
      <3>2. CASE modAt # 1
        <4>1. 1 \in 1 .. modAt - 1
          BY <1>3, <3>2
        <4> QED
          BY <1>2, <1>13, <2>1, <4>1 DEF Walking, Mod!Loadable
      <3> QED
        BY <3>1, <3>2
    <2>3. crashed' /\ loading' = loading /\ calls' = calls
      BY <1>7, <2>1, <2>2
    <2>4. Mod!CallsInOrder'
      BY <1>3, <1>5, <1>8, <2>3, SameOrder DEF ModInv
    <2>5. ModTypes'
      BY <1>3, <1>8, <2>3 DEF ModTypes
    <2>6. ModWalk'
      BY <1>1, <1>2, <1>5, <1>8, <2>2, <2>3 DEF ModWalk
    <2>7. Walking'
      <3>1. Busy' = Busy
        BY <1>8, <2>3 DEF Busy
      <3>2. Called(Len(calls))' = Called(Len(calls))
        BY <1>5, <2>3 DEF Called
      <3>3. \A k : Mod!Loadable(k)' = Mod!Loadable(k)
        BY <1>8 DEF Mod!Loadable
      <3>4. Mod!Loadable(Len(mods))' = Mod!Loadable(Len(mods))
            /\ Mod!Loadable(modAt - 1)' = Mod!Loadable(modAt - 1)
        BY <1>8 DEF Mod!Loadable
      <3> QED
        BY <1>5, <1>8, <1>13, <2>3, <3>1, <3>2, <3>4 DEF Walking
    <2> QED
      BY <2>4, <2>5, <2>6, <2>7 DEF ModInv
  <1> QED
    BY <1>9, <1>11, <1>12, <1>13 DEF ModInv

\* The walk does not end before the last module.
LEMMA WalkEnds ==
  ASSUME ModInv, Mod!Skip \/ Mod!Loaded, modAt > 0, modAt' = 0
  PROVE  Mod!ToSet(mods) \cap Loads \subseteq isLoad'
  <1>1. mods \in Seq(Mods) /\ Len(mods) \in Nat /\ modAt \in Nat /\ modAt <= Len(mods)
    BY Phases
  <1>2. Len(Mine) \in Nat /\ dep \in Nat
    BY MineTypes, Phases
  <1>3. Walking
    <2>1. BeforeFirst \/ AtFirst => modAt = 1 /\ dep > 0 /\ Len(Mine) >= 1
      BY Phases
    <2>2. CASE Mod!Skip
      BY <1>2, <2>1, <2>2 DEF Mod!Skip, ModInv
    <2>3. CASE Mod!Loaded
      <3>1. ~ BeforeFirst
        BY <2>3 DEF Mod!Loaded, BeforeFirst, Busy
      <3>2. ~ AtFirst
        <4> SUFFICES ASSUME AtFirst PROVE FALSE
          OBVIOUS
        <4>1. dep = 1 /\ dep <= Len(Mine)
          BY <1>2, <2>1, <2>3 DEF Mod!Loaded, AtFirst
        <4> QED
          BY <1>2, <2>3, <4>1 DEF Mod!Loaded, Mod!Onward, Mine
      <3> QED
        BY <3>1, <3>2 DEF ModInv
    <2> QED
      BY <2>2, <2>3
  <1>4. Mod!Visit(modAt + 1)
    BY <1>1, <1>2, <1>3 DEF Mod!Skip, Mod!Loaded, Mod!Onward, Mine, Walking
  <1>5. modAt = Len(mods)
    BY <1>1, <1>4 DEF Mod!Visit
  <1>6. Mod!Loadable(modAt - 1) \subseteq isLoad' /\ (mods[modAt] \in Loads => mods[modAt] \in isLoad')
    BY <1>3 DEF Walking, Mod!Skip, Mod!Loaded
  <1>7. Mod!Loadable(modAt) \subseteq isLoad'
    BY <1>1, <1>6, LoadableNext
  <1> QED
    BY <1>1, <1>5, <1>7 DEF Mod!ToSet, Mod!Loadable

LEMMA ModStep == ModInv /\ [Mod!Next]_(Mod!vars) => ModInv'
  <1> SUFFICES ASSUME ModInv, [Mod!Next]_(Mod!vars) PROVE ModInv'
    OBVIOUS
  <1>1. CASE Mod!Setup \/ Mod!Skip \/ Mod!Call \/ Mod!NextDep \/ Mod!Loaded
    BY <1>1, ModSetup, ModSkip, ModCall, ModNextDep, ModLoaded
  <1>2. ASSUME NEW m \in Mods, Mod!Register(m) PROVE ModInv'
    BY <1>2, ModRegister
  <1>3. ASSUME NEW m \in Mods, NEW name \in Mods, Mod!AddDep(m, name) PROVE ModInv'
    BY <1>3, ModAddDep
  <1>4. CASE UNCHANGED Mod!vars
    <2>1. Appended /\ ModTypes' /\ \A p \in Len(mods) + 1 .. Len(mods') : mods'[p] \notin Busy
      <3>1. mods' = mods /\ Len(mods) \in Nat
        BY <1>4, Phases DEF Mod!vars
      <3>2. ModTypes'
        BY <1>4 DEF Mod!vars, ModInv, ModTypes
      <3> QED
        BY <3>1, <3>2 DEF Appended
    <2> QED
      BY <1>4, <2>1, ModGrows DEF Mod!vars
  <1> QED
    BY <1>1, <1>2, <1>3, <1>4 DEF Mod!Next

\* Each module is loaded once and in the order of registration, but for a first one
\* with dependencies; only such a first module without a load function ends the
\* program; and the setup leaves nothing behind (cf_module.c:32-56).
THEOREM LoadsModulesInOrder == Mod!Spec => ModulesInOrder
  <1>1. ModInv => Mod!CallsInOrder /\ (crashed => mods[1] \notin Loads)
    BY DEF ModInv, ModWalk
  <1>2. ModInv /\ [Mod!Next]_(Mod!vars) =>
          [modAt > 0 /\ modAt' = 0 => Mod!ToSet(mods) \cap Loads \subseteq isLoad']_(Mod!vars)
    <2> SUFFICES ASSUME ModInv, Mod!Next, modAt > 0, modAt' = 0
                 PROVE  Mod!ToSet(mods) \cap Loads \subseteq isLoad'
      BY DEF Mod!vars
    <2>1. CASE Mod!Skip \/ Mod!Loaded
      BY <2>1, WalkEnds
    <2>2. ~ Mod!NextDep
      <3>1. Len(Mine) \in Nat /\ dep \in Nat
        BY MineTypes, Phases
      <3> QED
        BY <3>1 DEF Mod!NextDep, Mod!Onward, Mine
    <2> QED
      BY <2>1, <2>2 DEF Mod!Next, Mod!Setup, Mod!Call, Mod!Register, Mod!AddDep
  <1> QED
    BY <1>1, <1>2, ModInit, ModStep, PTL DEF Mod!Spec, ModulesInOrder, Mod!LoadsInOrder

-----------------------------------------------------------------------------
(***************************************************************************)
(* PopDeadline, for every time of day and every timeout.                   *)
(***************************************************************************)
InputInv ==
    /\ now.tv_sec \in Nat
    /\ now.tv_usec \in Nat /\ now.tv_usec * Microsecond < Second
    /\ timeout \in Nat
DeadlineInv == InputInv /\ DeadlineExact /\ RefusedOnTheSecond

\* The quotient and the remainder of the timeout make up the timeout.
LEMMA Milliseconds ==
    ASSUME NEW m \in Nat, NEW q \in Int, NEW r \in Int, q = m \div 1000, r = m % 1000
    PROVE  q >= 0 /\ r \in 0 .. 999 /\ m = 1000 * q + r
  OBVIOUS

\* Less than a thousand milliseconds are less than a second.
LEMMA UnderASecond ==
    ASSUME NEW r \in 0 .. 999
    PROVE  r * Millisecond \in Nat /\ r * Millisecond <= Second
  <1>1. ASSUME NEW k \in Nat PROVE r * k \in Nat /\ r * k <= 1000 * k
    OBVIOUS
  <1> QED
    BY <1>1, UnitsAssumption

\* A number of whole seconds, in milliseconds and in nanoseconds.
LEMMA Scale ==
    ASSUME NEW r \in Int, NEW c \in {0, 1}, NEW q \in Int, NEW d \in Int, d = q + c
    PROVE  r * Millisecond - c * Second
             = ((1000 * q + r) - 1000 * d) * Millisecond
  <1>1. ASSUME NEW k \in Nat
        PROVE  r * k - c * (1000 * k) = ((1000 * q + r) - 1000 * d) * k
    <2>1. (1000 * q + r) - 1000 * d = r - 1000 * c
      OBVIOUS
    <2>2. CASE c = 0
      BY <2>1, <2>2
    <2>3. CASE c = 1
      <3>1. (r - 1000) * k = r * k - 1000 * k
        OBVIOUS
      <3> QED
        BY <2>1, <2>3, <3>1
    <2> QED
      BY <2>2, <2>3
  <1> QED
    BY <1>1, UnitsAssumption

LEMMA DeadlineStep == DeadlineInv /\ [Next]_vars => DeadlineInv'
  <1> SUFFICES ASSUME DeadlineInv, [Next]_vars PROVE DeadlineInv'
    OBVIOUS
  <1>1. CASE Compute
    <2> DEFINE q == timeout \div 1000
               r == timeout % 1000
    <2>1. /\ now.tv_sec \in Nat /\ timeout \in Nat
          /\ now.tv_usec * Microsecond \in Nat
          /\ now.tv_usec * Microsecond < Second
      BY UnitsAssumption DEF DeadlineInv, InputInv
    <2>2. q \in Int /\ r \in Int
      BY <2>1
    <2>3. q \in Nat /\ r \in 0 .. 999 /\ timeout = 1000 * q + r
      BY <2>1, <2>2, Milliseconds
    <2>4. /\ UNCHANGED <<now, timeout>> /\ ret' = "computed"
          /\ time' = Normalise(now.tv_sec + q,
                               now.tv_usec * Microsecond + r * Millisecond)
      BY <1>1 DEF Compute
    <2> DEFINE sec == now.tv_sec
               x == now.tv_usec * Microsecond
    <2>5. /\ sec \in Nat /\ x \in Nat /\ x < Second
          /\ time' = Normalise(sec + q, x + r * Millisecond)
      BY <2>1, <2>4
    <2> HIDE DEF q, r, sec, x
    <2>6. /\ time'.tv_nsec - x
               = (timeout - 1000 * (time'.tv_sec - sec)) * Millisecond
          /\ time'.tv_nsec \in 0 .. Second
      <3> DEFINE s == time'.tv_sec
                 n == time'.tv_nsec
                 y == r * Millisecond
      <3>1. y \in Nat /\ y <= Second
        BY <2>3, UnderASecond
      <3> HIDE DEF y
      <3>2. CASE x + y > Second
        <4>1. s = sec + q + 1 /\ n = x + y - Second
          <5>1. Normalise(sec + q, x + y)
                  = [tv_sec |-> sec + q + 1, tv_nsec |-> x + y - Second]
            BY <2>5, <3>1, <3>2, UnitsAssumption DEF Normalise
          <5>2. time' = Normalise(sec + q, x + y)
            BY <2>5 DEF y
          <5> QED
            BY <5>1, <5>2
        <4>2. s - sec = q + 1 /\ n \in 0 .. Second /\ n - x = y - Second
          BY <3>1, <3>2, <2>3, <2>5, <4>1, UnitsAssumption
        <4>3. y - 1 * Second = ((1000 * q + r) - 1000 * (s - sec)) * Millisecond
          BY <2>3, <2>5, <4>1, <4>2, Scale DEF y
        <4> QED
          BY <2>3, <2>5, <3>1, <4>2, <4>3, UnitsAssumption
      <3>3. CASE ~(x + y > Second)
        <4>1. s = sec + q /\ n = x + y
          BY <2>5, <3>3 DEF Normalise, y
        <4>2. s - sec = q + 0 /\ n \in 0 .. Second /\ n - x = y
          BY <3>1, <3>3, <2>3, <2>5, <4>1, UnitsAssumption
        <4>3. y - 0 * Second = ((1000 * q + r) - 1000 * (s - sec)) * Millisecond
          BY <2>3, <2>5, <4>1, <4>2, Scale DEF y
        <4> QED
          BY <2>3, <2>5, <3>1, <4>2, <4>3, UnitsAssumption
      <3> QED
        BY <3>2, <3>3
    <2>7. InputInv'
      BY <2>4 DEF DeadlineInv, InputInv
    <2>8. DeadlineExact'
      BY <2>4, <2>6 DEF DeadlineExact, sec, x
    <2>9. RefusedOnTheSecond'
      BY <2>4, <2>6 DEF RefusedOnTheSecond
    <2> QED
      BY <2>7, <2>8, <2>9 DEF DeadlineInv
  <1>2. CASE TimedWait
    <2>1. Computed /\ UNCHANGED <<now, timeout, time>>
      BY <1>2 DEF TimedWait, Computed
    <2>2. time.tv_nsec \in 0 .. Second
      BY <2>1 DEF DeadlineInv, RefusedOnTheSecond
    <2>3. ret' = "EINVAL" => time.tv_nsec = Second
      <3>1. Second \in Int
        BY UnitsAssumption
      <3> QED
        BY <1>2, <2>2, <3>1 DEF TimedWait
    <2>4. InputInv'
      BY <2>1 DEF DeadlineInv, InputInv
    <2>5. DeadlineExact'
      BY <2>1 DEF DeadlineInv, DeadlineExact
    <2>6. RefusedOnTheSecond'
      BY <2>1, <2>2, <2>3 DEF RefusedOnTheSecond
    <2> QED
      BY <2>4, <2>5, <2>6 DEF DeadlineInv
  <1>3. CASE UNCHANGED vars
    BY <1>3
    DEF vars, DeadlineInv, InputInv, DeadlineExact, RefusedOnTheSecond, Computed
  <1> QED
    BY <1>1, <1>2, <1>3 DEF Next

LEMMA DeadlineInvariant == Spec => []DeadlineInv
  <1>1. Init => DeadlineInv
    <2>1. Init => InputInv
      BY ClockAssumption, TimeoutAssumption DEF Init, InputInv
    <2> QED
      BY <2>1 DEF Init, DeadlineInv, DeadlineExact, RefusedOnTheSecond, Computed
  <1> QED
    BY <1>1, DeadlineStep, PTL DEF Spec

\* Whatever the time of day and the timeout, the deadline is the timeout away.
THEOREM DeadlineIsExact == Spec => []DeadlineExact
  <1>1. DeadlineInv => DeadlineExact
    BY DEF DeadlineInv
  <1> QED
    BY <1>1, DeadlineInvariant, PTL

\* One subtraction is enough, and a refused deadline lies on a second.
THEOREM RefusedOnlyOnTheSecond == Spec => []RefusedOnTheSecond
  <1>1. DeadlineInv => RefusedOnTheSecond
    BY DEF DeadlineInv
  <1> QED
    BY <1>1, DeadlineInvariant, PTL

-----------------------------------------------------------------------------
(***************************************************************************)
(* Web.  The application gets the messages of its clients, for any number  *)
(* of clients, any frames and any cut of the streams.                      *)
(***************************************************************************)
LEMMA WebFlat == \A s : Web!FlattenSeq(s) = Ext!FlattenSeq(s)
  BY Zenon DEF Web!FlattenSeq, Ext!FlattenSeq

-----------------------------------------------------------------------------
(***************************************************************************)
(* The bytes of a frame.  The numbers are kept out of sight of what        *)
(* follows: the solver does not bring them together with sequences.        *)
(***************************************************************************)
Byte == 0 .. 255
Fin(x) == 128 + x
Low7(x) == x % 128
Low4(x) == x % 16
High(n) == n \div 256
Low(n) == n % 256
Two(h, l) == (256 * h) + l

LEMMA Bytes == /\ Byte \subseteq Nat /\ WebLengths \subseteq Nat
               /\ {0, 1} \subseteq Byte /\ WebMarks \subseteq Byte
               /\ Medium \in WebMarks /\ Long \in WebMarks /\ Medium # Long
               /\ {1001, 1002, 1003, 1004} \cap Byte = {}
  BY WebAssumption DEF Byte, WebLengths, WebMarks

LEMMA MarksDiffer == Medium # Long
  BY Bytes

LEMMA Bounds == \E m \in Nat, n \in Nat : WebMarks = 0 .. m /\ WebLengths = 0 .. n
<1> DEFINE m == 127
           n == 65535
<1>1. m \in Nat /\ n \in Nat
  OBVIOUS
<1>2. WebMarks = 0 .. m
  BY DEF WebMarks
<1>3. WebLengths = 0 .. n
  BY DEF WebLengths
<1> HIDE DEF m, n
<1> QED BY <1>1, <1>2, <1>3

LEMMA ByteOps ==
  /\ \A x \in WebMarks : Fin(x) \in Byte /\ Low7(Fin(x)) = x
  /\ \A x \in WebCodes : Fin(x) \in Byte /\ Low4(Fin(x)) = x
  /\ \A n \in WebLengths : /\ High(n) \in Byte /\ Low(n) \in Byte
                           /\ Two(High(n), Low(n)) = n
                           /\ n < Medium => n \in WebMarks /\ n # Medium /\ n # Long
<1>1. ASSUME NEW x \in WebMarks PROVE Fin(x) \in Byte /\ Low7(Fin(x)) = x
  BY DEF Byte, WebMarks, Fin, Low7
<1>2. ASSUME NEW x \in WebCodes PROVE Fin(x) \in Byte /\ Low4(Fin(x)) = x
  BY DEF Byte, WebCodes, Fin, Low4
<1>3. ASSUME NEW n \in WebLengths
      PROVE  High(n) \in Byte /\ Low(n) \in Byte /\ Two(High(n), Low(n)) = n
  BY DEF Byte, WebLengths, High, Low, Two
<1>4. ASSUME NEW n \in WebLengths, n < Medium PROVE n \in WebMarks /\ n # Medium /\ n # Long
  <2>1. Medium \in WebMarks /\ Long \in WebMarks /\ Medium < Long
    BY WebAssumption, Zenon
  <2>2. PICK largest \in Nat, limit \in Nat : WebMarks = 0 .. largest /\ WebLengths = 0 .. limit
    BY Bounds
  <2> QED BY <1>4, <2>1, <2>2
<1> QED BY <1>1, <1>2, <1>3, <1>4

Marks(n) == Web!LengthBytes(n)

LEMMA LengthIs ==
  ASSUME NEW n \in WebLengths
  PROVE  /\ Marks(n) \in Seq(Byte) /\ Marks(n)[1] \in WebMarks /\ Len(Marks(n)) \in {1, 3, 9}
         /\ Len(Marks(n)) = 1 => Marks(n)[1] = n /\ n # Medium /\ n # Long
         /\ Len(Marks(n)) = 3 => /\ Marks(n)[1] = Medium
                                 /\ Two(Marks(n)[2], Marks(n)[3]) = n
         /\ Len(Marks(n)) = 9 => /\ Marks(n)[1] = Long
                                 /\ Two(Marks(n)[8], Marks(n)[9]) = n
<1>1. CASE n < Medium
  <2>1. Marks(n) = <<n>>
    BY <1>1, Zenon DEF Marks, Web!LengthBytes
  <2>2. n \in WebMarks /\ n # Medium /\ n # Long /\ n \in Byte
    BY <1>1, ByteOps, Bytes
  <2> QED BY <2>1, <2>2
<1>2. CASE ~(n < Medium) /\ n <= TwoBytes
  <2>1. Marks(n) = <<Medium, High(n), Low(n)>>
    BY <1>2, Zenon DEF Marks, Web!LengthBytes, High, Low
  <2> QED BY <2>1, ByteOps, Bytes
<1>3. CASE ~(n < Medium) /\ ~(n <= TwoBytes)
  <2>1. Marks(n) = <<Long, 0, 0, 0, 0, 0, 0, High(n), Low(n)>>
    BY <1>3, Zenon DEF Marks, Web!LengthBytes, High, Low
  <2> QED BY <2>1, ByteOps, Bytes
<1> QED BY <1>1, <1>2, <1>3

Place(i) == 1 + ((i - 1) % 4)
MaskBit(f, i) == f.mask[Place(i)]

LEMMA PlaceRange == \A i \in Nat \ {0} : Place(i) \in 1 .. 4
  BY DEF Place

LEMMA XorTwice == \A a, b \in {0, 1} : Web!Xor(a, b) \in {0, 1} /\ Web!Xor(Web!Xor(a, b), b) = a
  BY DEF Web!Xor

LEMMA FrameParts ==
  ASSUME NEW f \in WebFrames
  PROVE  /\ Len(f.data) \in WebLengths /\ f.code \in WebCodes
         /\ f.data \in Seq({0, 1}) /\ DOMAIN f.data = 1 .. Len(f.data)
         /\ f.mask \in [1 .. 4 -> {0, 1}]
         /\ \A i \in 1 .. Len(f.data) : f.data[i] \in {0, 1} /\ MaskBit(f, i) \in {0, 1}
<1>1. f \in [code : WebCodes, data : Seq({0, 1}), mask : [1 .. 4 -> {0, 1}]]
      /\ Len(f.data) \in WebLengths
  BY DEF WebFrames
<1>2. f.code \in WebCodes /\ f.data \in Seq({0, 1}) /\ f.mask \in [1 .. 4 -> {0, 1}]
  BY <1>1
<1>3. Len(f.data) \in Nat /\ DOMAIN f.data = 1 .. Len(f.data)
      /\ \A i \in 1 .. Len(f.data) : f.data[i] \in {0, 1}
  BY <1>2
<1>4. ASSUME NEW i \in 1 .. Len(f.data) PROVE MaskBit(f, i) \in {0, 1}
  BY <1>2, PlaceRange DEF MaskBit
<1> QED BY <1>1, <1>2, <1>3, <1>4

LEMMA Joint ==
  ASSUME NEW S, NEW p \in Seq(S), NEW q \in Seq(S)
  PROVE  /\ p \o q \in Seq(S) /\ Len(p \o q) = Len(p) + Len(q)
         /\ \A i \in 1 .. Len(p) : (p \o q)[i] = p[i]
         /\ \A i \in 1 .. Len(q) : (p \o q)[Len(p) + i] = q[i]
  OBVIOUS

LEMMA FirstChanged ==
  ASSUME NEW S, NEW m \in Seq(S), Len(m) # 0, NEW x \in S
  PROVE  /\ [m EXCEPT ![1] = x] \in Seq(S) /\ Len([m EXCEPT ![1] = x]) = Len(m)
         /\ [m EXCEPT ![1] = x][1] = x
         /\ \A i \in 2 .. Len(m) : [m EXCEPT ![1] = x][i] = m[i]
  OBVIOUS

Masked(f) == [i \in DOMAIN f.data |-> Web!Xor(f.data[i], MaskBit(f, i))]
FirstByte(f) == <<Fin(f.code)>>
Lengths(f) == LET m == Marks(Len(f.data)) IN [m EXCEPT ![1] = Fin(m[1])]

LEMMA SentParts ==
  ASSUME NEW f \in WebFrames
  PROVE  /\ Web!Sent(f) = ((FirstByte(f) \o Lengths(f)) \o f.mask) \o Masked(f)
         /\ Masked(f) \in Seq(Byte) /\ Len(Masked(f)) = Len(f.data)
         /\ \A i \in 1 .. Len(f.data) : Masked(f)[i] = Web!Xor(f.data[i], MaskBit(f, i))
         /\ f.mask \in Seq(Byte) /\ Len(f.mask) = 4
         /\ FirstByte(f) \in Seq(Byte) /\ Len(FirstByte(f)) = 1
         /\ FirstByte(f)[1] = Fin(f.code)
<1>1. Web!Sent(f) = ((FirstByte(f) \o Lengths(f)) \o f.mask) \o Masked(f)
  BY Zenon DEF Web!Sent, Marks, FirstByte, Lengths, Masked, MaskBit, Place, Fin
<1>2. \A i \in 1 .. Len(f.data) : Web!Xor(f.data[i], MaskBit(f, i)) \in Byte
  <2> SUFFICES ASSUME NEW i \in 1 .. Len(f.data) PROVE Web!Xor(f.data[i], MaskBit(f, i)) \in Byte
    OBVIOUS
  <2>1. f.data[i] \in {0, 1} /\ MaskBit(f, i) \in {0, 1}
    BY FrameParts
  <2>2. Web!Xor(f.data[i], MaskBit(f, i)) \in {0, 1}
    BY <2>1, XorTwice
  <2> QED BY <2>2, Bytes
<1>3. Masked(f) \in Seq(Byte) /\ Len(Masked(f)) = Len(f.data)
      /\ \A i \in 1 .. Len(f.data) : Masked(f)[i] = Web!Xor(f.data[i], MaskBit(f, i))
  BY <1>2, FrameParts DEF Masked
<1>4. f.mask \in Seq(Byte) /\ Len(f.mask) = 4
  <2>1. f.mask \in [1 .. 4 -> Byte]
    BY FrameParts, Bytes
  <2>2. f.mask \in Seq(Byte)
    BY <2>1, SeqDef
  <2>3. DOMAIN f.mask = 1 .. 4
    BY <2>1
  <2>4. 1 .. 4 = 1 .. Len(f.mask) /\ Len(f.mask) \in Nat
    BY <2>2, <2>3, LenProperties
  <2>5. \A k \in Nat : 1 .. 4 = 1 .. k => k = 4
    <3> SUFFICES ASSUME NEW k \in Nat, 1 .. 4 = 1 .. k, k # 4 PROVE FALSE
      OBVIOUS
    <3>1. 4 \in 1 .. k /\ (k \in 1 .. 4 \/ k = 0)
      OBVIOUS
    <3> QED BY <3>1
  <2> QED BY <2>2, <2>4, <2>5
<1>5. Fin(f.code) \in Byte
  BY FrameParts, ByteOps
<1>6. FirstByte(f) \in Seq(Byte) /\ Len(FirstByte(f)) = 1 /\ FirstByte(f)[1] = Fin(f.code)
  BY <1>5 DEF FirstByte
<1> QED BY <1>1, <1>3, <1>4, <1>6

Size(f) == Len(f.data)
Span(f) == Len(Marks(Size(f)))

LEMMA LengthsAre ==
  ASSUME NEW f \in WebFrames
  PROVE  /\ Size(f) \in WebLengths /\ Lengths(f) \in Seq(Byte) /\ Len(Lengths(f)) = Span(f)
         /\ Low7(Lengths(f)[1]) = Marks(Size(f))[1]
         /\ \A i \in 2 .. Span(f) : Lengths(f)[i] = Marks(Size(f))[i]
<1> DEFINE m == Marks(Size(f))
           x == Fin(m[1])
<1>1. Size(f) \in WebLengths
  BY FrameParts DEF Size
<1>2. m \in Seq(Byte) /\ m[1] \in WebMarks /\ Len(m) # 0
  BY <1>1, LengthIs DEF Span
<1>3. x \in Byte /\ Low7(x) = m[1]
  BY <1>2, ByteOps
<1>4. Lengths(f) = [m EXCEPT ![1] = x]
  BY Zenon DEF Lengths, Size
<1> HIDE DEF m, x
<1>5. /\ [m EXCEPT ![1] = x] \in Seq(Byte) /\ Len([m EXCEPT ![1] = x]) = Len(m)
      /\ [m EXCEPT ![1] = x][1] = x
      /\ \A i \in 2 .. Len(m) : [m EXCEPT ![1] = x][i] = m[i]
  BY <1>2, <1>3, FirstChanged
<1> QED BY <1>1, <1>3, <1>4, <1>5, Zenon DEF m, Span

LEMMA SentIs ==
  ASSUME NEW f \in WebFrames
  PROVE  /\ Size(f) \in Nat /\ Span(f) \in {1, 3, 9}
         /\ Web!Sent(f) \in Seq(Byte) /\ Len(Web!Sent(f)) = 5 + Span(f) + Size(f)
         /\ Web!Sent(f)[1] = Fin(f.code)
         /\ Low7(Web!Sent(f)[2]) = Marks(Size(f))[1]
         /\ \A i \in 2 .. Span(f) : Web!Sent(f)[1 + i] = Marks(Size(f))[i]
         /\ \A i \in 1 .. 4 : Web!Sent(f)[1 + Span(f) + i] = f.mask[i]
         /\ \A i \in 1 .. Size(f) : Web!Sent(f)[5 + Span(f) + i] = Web!Xor(f.data[i], MaskBit(f, i))
<1> DEFINE p == FirstByte(f)
           q == Lengths(f)
           m == f.mask
           d == Masked(f)
<1>1. Size(f) \in WebLengths /\ Size(f) \in Nat
  BY FrameParts, Bytes DEF Size
<1>2. Span(f) \in {1, 3, 9} /\ Span(f) \in Nat /\ Span(f) # 0
  BY <1>1, LengthIs DEF Span
<1>3. q \in Seq(Byte) /\ Len(q) = Span(f) /\ Low7(q[1]) = Marks(Size(f))[1]
      /\ \A i \in 2 .. Span(f) : q[i] = Marks(Size(f))[i]
  BY LengthsAre
<1>4. p \in Seq(Byte) /\ Len(p) = 1 /\ p[1] = Fin(f.code) /\ m \in Seq(Byte) /\ Len(m) = 4
  BY SentParts DEF Size
<1>5. d \in Seq(Byte) /\ Len(d) = Size(f)
      /\ \A i \in 1 .. Size(f) : d[i] = Web!Xor(f.data[i], MaskBit(f, i))
  BY SentParts DEF Size
<1>6. Web!Sent(f) = ((p \o q) \o m) \o d
  BY SentParts DEF Size
<1> HIDE DEF p, q, d
<1> DEFINE u == p \o q
           v == u \o m
           w == v \o d
<1>7. u \in Seq(Byte) /\ Len(u) = 1 + Span(f) /\ u[1] = p[1] /\ u[2] = q[1]
      /\ \A i \in 2 .. Span(f) : u[1 + i] = q[i]
  <2>1. /\ u \in Seq(Byte) /\ Len(u) = Len(p) + Len(q)
        /\ \A i \in 1 .. Len(p) : u[i] = p[i]
        /\ \A i \in 1 .. Len(q) : u[Len(p) + i] = q[i]
    <3>1. p \in Seq(Byte) /\ q \in Seq(Byte)
      BY <1>3, <1>4, Zenon
    <3> QED BY <3>1, Joint
  <2> HIDE DEF u
  <2> QED BY <2>1, <1>2, <1>3, <1>4
<1>8. v \in Seq(Byte) /\ Len(v) = 5 + Span(f) /\ (\A i \in 1 .. 1 + Span(f) : v[i] = u[i])
      /\ \A i \in 1 .. 4 : v[1 + Span(f) + i] = m[i]
  <2> HIDE DEF u, m
  <2>1. /\ v \in Seq(Byte) /\ Len(v) = Len(u) + Len(m)
        /\ \A i \in 1 .. Len(u) : v[i] = u[i]
        /\ \A i \in 1 .. Len(m) : v[Len(u) + i] = m[i]
    <3>1. u \in Seq(Byte) /\ m \in Seq(Byte)
      BY <1>4, <1>7, Zenon
    <3> QED BY <3>1, Joint
  <2> HIDE DEF v
  <2> QED BY <2>1, <1>2, <1>4, <1>7
<1>9. w \in Seq(Byte) /\ Len(w) = 5 + Span(f) + Size(f) /\ (\A i \in 1 .. 5 + Span(f) : w[i] = v[i])
      /\ \A i \in 1 .. Size(f) : w[5 + Span(f) + i] = d[i]
  <2> HIDE DEF u, v, m
  <2>1. /\ w \in Seq(Byte) /\ Len(w) = Len(v) + Len(d)
        /\ \A i \in 1 .. Len(v) : w[i] = v[i]
        /\ \A i \in 1 .. Len(d) : w[Len(v) + i] = d[i]
    <3>1. v \in Seq(Byte) /\ d \in Seq(Byte)
      BY <1>5, <1>8, Zenon
    <3> QED BY <3>1, Joint
  <2> HIDE DEF w
  <2> QED BY <2>1, <1>1, <1>2, <1>5, <1>8
<1>10. Web!Sent(f) = w
  BY <1>6 DEF u, v
<1> HIDE DEF w, u, v, m
<1>11. w[1] = Fin(f.code) /\ w[2] = q[1]
  <2>1. 1 \in 1 .. 1 + Span(f) /\ 2 \in 1 .. 1 + Span(f) /\ 1 \in 1 .. 5 + Span(f) /\ 2 \in 1 .. 5 + Span(f)
    <3>1. \A l \in Nat \ {0} : /\ 1 \in 1 .. 1 + l /\ 2 \in 1 .. 1 + l
                                /\ 1 \in 1 .. 5 + l /\ 2 \in 1 .. 5 + l
      OBVIOUS
    <3> QED BY <1>2, <3>1, Zenon
  <2> QED BY <2>1, <1>4, <1>7, <1>8, <1>9, Zenon
<1>12. ASSUME NEW i \in 2 .. Span(f) PROVE w[1 + i] = Marks(Size(f))[i]
  <2>1. 1 + i \in 1 .. 1 + Span(f) /\ 1 + i \in 1 .. 5 + Span(f)
    BY <1>2
  <2> QED BY <2>1, <1>3, <1>7, <1>8, <1>9, Zenon
<1>13. ASSUME NEW i \in 1 .. 4 PROVE w[1 + Span(f) + i] = f.mask[i]
  <2>1. 1 + Span(f) + i \in 1 .. 5 + Span(f)
    BY <1>2
  <2> QED BY <2>1, <1>8, <1>9, Zenon DEF m
<1>14. \A i \in 1 .. Size(f) : w[5 + Span(f) + i] = Web!Xor(f.data[i], MaskBit(f, i))
  BY <1>5, <1>9, Zenon
<1> QED BY <1>1, <1>2, <1>3, <1>9, <1>10, <1>11, <1>12, <1>13, <1>14, Zenon

-----------------------------------------------------------------------------
(***************************************************************************)
(* What the server makes of a buffer that a stream of frames begins with.  *)
(***************************************************************************)
LEMMA Front ==
  ASSUME NEW b \in Seq(Nat), NEW x \in Seq(Nat), NEW s \in Seq(Nat), NEW r \in Seq(Nat),
         b \o x = s \o r
  PROVE  /\ \A i \in 1 .. Len(b) : i <= Len(s) => b[i] = s[i]
         /\ Len(b) >= Len(s) => /\ SubSeq(b, 1 + Len(s), Len(b)) \in Seq(Nat)
                                /\ SubSeq(b, 1 + Len(s), Len(b)) \o x = r
<1>1. ASSUME NEW i \in 1 .. Len(b), i <= Len(s) PROVE b[i] = s[i]
  <2>1. i \in 1 .. Len(s) /\ (b \o x)[i] = b[i] /\ (s \o r)[i] = s[i]
    BY <1>1
  <2> QED BY <2>1, Zenon
<1>2. ASSUME Len(b) >= Len(s) PROVE SubSeq(b, 1 + Len(s), Len(b)) \o x = r
  <2> DEFINE d == SubSeq(b, 1 + Len(s), Len(b))
  <2>1. d \in Seq(Nat) /\ Len(d) = Len(b) - Len(s)
        /\ \A i \in 1 .. Len(d) : d[i] = b[Len(s) + i]
    BY <1>2
  <2>2. Len(b) + Len(x) = Len(s) + Len(r)
    <3>1. Len(b \o x) = Len(b) + Len(x) /\ Len(s \o r) = Len(s) + Len(r)
      OBVIOUS
    <3> QED BY <3>1, Zenon
  <2> HIDE DEF d
  <2>3. d \o x \in Seq(Nat) /\ Len(d \o x) = Len(r)
    BY <2>1, <2>2
  <2>4. ASSUME NEW i \in 1 .. Len(r) PROVE (d \o x)[i] = r[i]
    <3>1. (s \o r)[Len(s) + i] = r[i]
      OBVIOUS
    <3>2. Len(d) \in Nat /\ Len(s) \in Nat /\ Len(b) \in Nat /\ Len(r) \in Nat /\ Len(x) \in Nat
      BY <2>1
    <3>3. CASE i \in 1 .. Len(d)
      <4>1. Len(s) + i \in 1 .. Len(b)
        BY <2>1, <3>2, <3>3
      <4>2. (d \o x)[i] = d[i] /\ (b \o x)[Len(s) + i] = b[Len(s) + i]
        BY <2>1, <3>3, <4>1, Joint
      <4> QED BY <2>1, <3>1, <3>3, <4>2, Zenon
    <3>4. CASE i \notin 1 .. Len(d)
      <4> DEFINE j == i - Len(d)
      <4>1. j \in 1 .. Len(x) /\ Len(d) + j = i /\ Len(b) + j = Len(s) + i
        BY <2>1, <2>2, <3>2, <3>4
      <4> HIDE DEF j
      <4>2. \A p \in Seq(Nat) : \A m \in 1 .. Len(x) : (p \o x)[Len(p) + m] = x[m]
        BY Joint
      <4>3. (d \o x)[Len(d) + j] = x[j] /\ (b \o x)[Len(b) + j] = x[j]
        BY <2>1, <4>1, <4>2, Zenon
      <4> QED BY <3>1, <4>1, <4>3, Zenon
    <3> QED BY <3>3, <3>4
  <2>5. d \o x = r
    BY <2>3, <2>4, SeqEqual
  <2> QED BY <2>5 DEF d
<1>3. SubSeq(b, 1 + Len(s), Len(b)) \in Seq(Nat)
  OBVIOUS
<1> QED BY <1>1, <1>2, <1>3

Extra(h) == CASE h = Medium -> 2 [] h = Long -> 8 [] OTHER -> 0

LEMMA HeadIs == \A b : /\ Web!Head7(b) = Low7(b[2])
                       /\ Web!HeadLength(b) = 6 + Extra(Low7(b[2]))
  BY Zenon DEF Web!HeadLength, Web!Head7, Extra, Low7

LEMMA DataLengthIs ==
  \A b : /\ Low7(b[2]) = Medium => Web!DataLength(b) = Two(b[3], b[4])
         /\ Low7(b[2]) = Long => Web!DataLength(b) = Two(b[9], b[10])
         /\ Low7(b[2]) \notin {Medium, Long} => Web!DataLength(b) = Low7(b[2])
<1> DEFINE D(h, b) == CASE h = Medium -> Two(b[3], b[4])
                        [] h = Long -> Two(b[9], b[10]) [] OTHER -> h
<1>1. ASSUME NEW b PROVE Web!DataLength(b) = D(Low7(b[2]), b)
  <2>1. Web!Head7(b) = Low7(b[2])
    BY HeadIs, Zenon
  <2> QED BY <2>1, Zenon DEF Web!DataLength, Two
<1>2. Medium # Long
  BY MarksDiffer
<1>3. \A h, b : /\ h = Medium => D(h, b) = Two(b[3], b[4])
                /\ h = Long => D(h, b) = Two(b[9], b[10])
                /\ h \notin {Medium, Long} => D(h, b) = h
  BY <1>2
<1> HIDE DEF D
<1> QED BY <1>1, <1>3, Zenon

LEMMA Extras == /\ \A h : h \notin {Medium, Long} => 6 + Extra(h) = 5 + 1
                /\ 6 + Extra(Medium) = 5 + 3
                /\ 6 + Extra(Long) = 5 + 9
<1>1. Medium # Long
  BY MarksDiffer
<1> QED BY <1>1 DEF Extra

LEMMA Spans ==
  \A k \in {1, 3, 9} : k \in Nat /\ (k = 1 \/ k = 3 \/ k = 9) /\ 5 + k \in Nat
  OBVIOUS

LEMMA Slots ==
  ASSUME NEW n \in Nat, NEW k \in {1, 3, 9}, NEW l \in Nat
  PROVE  /\ l >= 6 => 2 \in 1 .. l /\ 2 <= 5 + k + n
         /\ l >= 5 + k => l >= 6
         /\ l >= 5 + k + n => l >= 5 + k
         /\ k = 3 /\ l >= 5 + k => /\ 3 \in 1 .. l /\ 4 \in 1 .. l
                                   /\ 3 <= 5 + k + n /\ 4 <= 5 + k + n
         /\ k = 9 /\ l >= 5 + k => /\ 9 \in 1 .. l /\ 10 \in 1 .. l
                                   /\ 9 <= 5 + k + n /\ 10 <= 5 + k + n
  OBVIOUS

LEMMA DataSlots ==
  ASSUME NEW n \in Nat, NEW k \in Nat, NEW i \in 1 .. n
  PROVE  /\ (5 + k) + i \in 1 .. 5 + k + n /\ (5 + k) + i = 5 + k + i
         /\ 1 \in 1 .. 5 + k + n
         /\ 1 + k + Place(i) \in 1 .. 5 + k + n
         /\ ((5 + k) - 3) + ((i - 1) % 4) = 1 + k + Place(i)
<1>1. (i - 1) % 4 \in 0 .. 3
  OBVIOUS
<1> QED BY <1>1 DEF Place

LEMMA FirstLengths ==
  ASSUME NEW f \in WebFrames
  PROVE  /\ Span(f) = 1 => /\ Low7(Web!Sent(f)[2]) = Size(f)
                           /\ Size(f) \notin {Medium, Long}
         /\ Span(f) = 3 => /\ Low7(Web!Sent(f)[2]) = Medium
                           /\ Two(Web!Sent(f)[3], Web!Sent(f)[4]) = Size(f)
         /\ Span(f) = 9 => /\ Low7(Web!Sent(f)[2]) = Long
                           /\ Two(Web!Sent(f)[9], Web!Sent(f)[10]) = Size(f)
<1> DEFINE m == Marks(Size(f))
<1>1. /\ Span(f) = 1 => m[1] = Size(f) /\ Size(f) # Medium /\ Size(f) # Long
      /\ Span(f) = 3 => m[1] = Medium /\ Two(m[2], m[3]) = Size(f)
      /\ Span(f) = 9 => m[1] = Long /\ Two(m[8], m[9]) = Size(f)
  BY FrameParts, LengthIs DEF Size, Span
<1>2. Low7(Web!Sent(f)[2]) = m[1]
      /\ \A i \in 2 .. Span(f) : Web!Sent(f)[1 + i] = m[i]
  BY SentIs
<1> HIDE DEF m
<1>3. ASSUME Span(f) = 3 PROVE Web!Sent(f)[3] = m[2] /\ Web!Sent(f)[4] = m[3]
  <2>1. 2 \in 2 .. 3 /\ 3 \in 2 .. 3 /\ 1 + 2 = 3 /\ 1 + 3 = 4
    OBVIOUS
  <2> QED BY <1>2, <1>3, <2>1, Zenon
<1>4. ASSUME Span(f) = 9 PROVE Web!Sent(f)[9] = m[8] /\ Web!Sent(f)[10] = m[9]
  <2>1. 8 \in 2 .. 9 /\ 9 \in 2 .. 9 /\ 1 + 8 = 9 /\ 1 + 9 = 10
    OBVIOUS
  <2> QED BY <1>2, <1>4, <2>1, Zenon
<1> QED BY <1>1, <1>2, <1>3, <1>4, Zenon

\* b agrees with what the frame is sent as.
Begins(b, f) == \A i \in 1 .. Len(b) : i <= Len(Web!Sent(f)) => b[i] = Web!Sent(f)[i]

LEMMA HeadOfFirst ==
  ASSUME NEW f \in WebFrames, NEW b \in Seq(Nat), Begins(b, f)
  PROVE  /\ Len(b) >= 6 => Web!HeadLength(b) = 5 + Span(f)
         /\ Len(b) >= 5 + Span(f) => Web!DataLength(b) = Size(f)
<1> DEFINE s == Web!Sent(f)
           n == Size(f)
           k == Span(f)
<1>1. n \in Nat /\ k \in {1, 3, 9} /\ Len(s) = 5 + k + n /\ Len(b) \in Nat
  BY SentIs
<1>2. \A i : i \in 1 .. Len(b) /\ i <= 5 + k + n => b[i] = s[i]
  BY <1>1, Zenon DEF Begins
<1>3. k = 1 \/ k = 3 \/ k = 9
  BY <1>1, Spans, Zenon
<1>4. /\ k = 1 => Low7(s[2]) = n /\ n \notin {Medium, Long}
      /\ k = 3 => Low7(s[2]) = Medium /\ Two(s[3], s[4]) = n
      /\ k = 9 => Low7(s[2]) = Long /\ Two(s[9], s[10]) = n
  BY FirstLengths
<1> HIDE DEF s, n, k
<1>5. ASSUME Len(b) >= 6 PROVE Low7(b[2]) = Low7(s[2])
  <2>1. 2 \in 1 .. Len(b) /\ 2 <= 5 + k + n
    BY <1>1, <1>5, Slots, Zenon
  <2> QED BY <1>2, <2>1, Zenon
<1>6. ASSUME Len(b) >= 6 PROVE Web!HeadLength(b) = 5 + k
  <2>1. Web!HeadLength(b) = 6 + Extra(Low7(s[2]))
    BY <1>5, <1>6, HeadIs, Zenon
  <2>2. /\ \A h : h \notin {Medium, Long} => 6 + Extra(h) = 5 + 1
        /\ 6 + Extra(Medium) = 5 + 3
        /\ 6 + Extra(Long) = 5 + 9
    BY Extras
  <2> QED BY <1>3, <1>4, <2>1, <2>2, Zenon
<1>7. ASSUME Len(b) >= 5 + k PROVE Web!DataLength(b) = n
  <2>1. Len(b) >= 6
    BY <1>1, <1>7, Slots, Zenon
  <2>2. Low7(b[2]) = Low7(s[2])
    BY <1>5, <2>1
  <2>3. CASE k = 1
    BY <1>4, <2>2, <2>3, DataLengthIs, Zenon
  <2>4. CASE k = 3
    <3>1. 3 \in 1 .. Len(b) /\ 3 <= 5 + k + n /\ 4 \in 1 .. Len(b) /\ 4 <= 5 + k + n
      BY <1>1, <1>7, <2>4, Slots, Zenon
    <3>2. b[3] = s[3] /\ b[4] = s[4]
      BY <1>2, <3>1, Zenon
    <3> QED BY <1>4, <2>2, <2>4, <3>2, DataLengthIs, Zenon
  <2>5. CASE k = 9
    <3>1. 9 \in 1 .. Len(b) /\ 9 <= 5 + k + n /\ 10 \in 1 .. Len(b) /\ 10 <= 5 + k + n
      BY <1>1, <1>7, <2>5, Slots, Zenon
    <3>2. b[9] = s[9] /\ b[10] = s[10]
      BY <1>2, <3>1, Zenon
    <3> QED BY <1>4, <2>2, <2>5, <3>2, DataLengthIs, Zenon
  <2> QED BY <1>3, <2>3, <2>4, <2>5, Zenon
<1> QED BY <1>6, <1>7, Zenon DEF k, n

LEMMA FirstIsWhole ==
  ASSUME NEW f \in WebFrames, NEW b \in Seq(Nat), Begins(b, f)
  PROVE  /\ Web!Whole(b) <=> Len(b) >= Len(Web!Sent(f))
         /\ Web!Whole(b) => Web!HeadLength(b) + Web!DataLength(b) = Len(Web!Sent(f))
<1> DEFINE n == Size(f)
           k == Span(f)
           l == Len(b)
           h == Web!HeadLength(b)
           d == Web!DataLength(b)
<1>1. n \in Nat /\ k \in {1, 3, 9} /\ Len(Web!Sent(f)) = 5 + k + n /\ l \in Nat
  BY SentIs
<1>2. (l >= 6 => h = 5 + k) /\ (l >= 5 + k => d = n)
  BY HeadOfFirst
<1>3. Web!Whole(b) <=> (l >= 6 /\ l >= h) /\ l >= d + h
  BY Zenon DEF Web!Whole, Web!HasHead
<1> HIDE DEF k, n, l, h, d
<1>4. k \in Nat /\ (k = 1 \/ k = 3 \/ k = 9)
  BY <1>1, Spans, Zenon
<1>5. CASE l >= 5 + k
  <2>1. l >= 6 /\ h = 5 + k /\ d = n
    BY <1>1, <1>2, <1>5, Slots, Zenon
  <2>2. (l >= d + h <=> l >= 5 + k + n) /\ h + d = 5 + k + n
    BY <1>1, <1>4, <2>1
  <2> QED BY <1>1, <1>2, <1>3, <1>5, <2>1, <2>2, Zenon DEF l, h, d
<1>6. CASE ~(l >= 5 + k)
  <2>1. ~(l >= 5 + k + n)
    BY <1>1, <1>6, Slots, Zenon
  <2>2. ~(l >= 6 /\ l >= h)
    BY <1>2, <1>6, Zenon
  <2> QED BY <1>1, <1>3, <2>1, <2>2, Zenon DEF l
<1> QED BY <1>5, <1>6

LEMMA FirstIsUnmasked ==
  ASSUME NEW f \in WebFrames, NEW b \in Seq(Nat), Begins(b, f), Len(b) >= Len(Web!Sent(f))
  PROVE  Web!Calls(b) = Web!Expected(f)
<1> DEFINE n == Size(f)
           k == Span(f)
           s == Web!Sent(f)
<1>1. n \in Nat /\ k \in {1, 3, 9} /\ Len(s) = 5 + k + n /\ Len(b) \in Nat
      /\ s[1] = Fin(f.code)
      /\ (\A i \in 1 .. 4 : s[1 + k + i] = f.mask[i])
      /\ \A i \in 1 .. n : s[5 + k + i] = Web!Xor(f.data[i], MaskBit(f, i))
  BY SentIs
<1>2. k \in Nat /\ Len(b) >= 5 + k + n
  BY <1>1, Spans, Zenon
<1>3. Len(b) >= 6 /\ Len(b) >= 5 + k
  BY <1>1, <1>2, Slots, Zenon
<1>4. Web!HeadLength(b) = 5 + k /\ Web!DataLength(b) = n
  BY <1>3, HeadOfFirst
<1>5. \A i \in 1 .. 5 + k + n : b[i] = s[i]
  <2> SUFFICES ASSUME NEW i \in 1 .. Len(s) PROVE b[i] = s[i]
    BY <1>1, Zenon
  <2>1. Len(s) \in Nat
    BY SentIs
  <2>2. i \in 1 .. Len(b) /\ i <= Len(s)
    <3> DEFINE p == Len(s)
               q == Len(b)
    <3>1. i \in 1 .. p /\ p \in Nat /\ q \in Nat /\ q >= p
      BY <1>1, <2>1
    <3> HIDE DEF p, q
    <3>2. i \in 1 .. q /\ i <= p
      BY <3>1
    <3> QED BY <3>2 DEF p, q
  <2> QED BY <2>2, Zenon DEF Begins
<1> HIDE DEF k, s, n
<1>6. ASSUME NEW i \in 1 .. n
      PROVE  Web!Xor(b[(5 + k) + i], b[((5 + k) - 3) + ((i - 1) % 4)]) = f.data[i]
  <2>1. /\ (5 + k) + i \in 1 .. 5 + k + n /\ (5 + k) + i = 5 + k + i
        /\ 1 + k + Place(i) \in 1 .. 5 + k + n
        /\ ((5 + k) - 3) + ((i - 1) % 4) = 1 + k + Place(i)
    BY <1>1, <1>2, DataSlots, Zenon
  <2>2. Place(i) \in 1 .. 4
    BY <1>1, PlaceRange
  <2>3. b[(5 + k) + i] = Web!Xor(f.data[i], MaskBit(f, i)) /\ b[1 + k + Place(i)] = MaskBit(f, i)
    BY <1>1, <1>5, <2>1, <2>2, Zenon DEF MaskBit
  <2>4. f.data[i] \in {0, 1} /\ MaskBit(f, i) \in {0, 1}
    BY FrameParts, Zenon DEF n, Size
  <2> QED BY <2>1, <2>3, <2>4, XorTwice, Zenon
<1>7. Web!Unmasked(b) = f.data
  <2>1. Web!Unmasked(b) = [i \in 1 .. n |-> Web!Xor(b[(5 + k) + i], b[((5 + k) - 3) + ((i - 1) % 4)])]
    BY <1>4, Zenon DEF Web!Unmasked
  <2>2. f.data = [i \in 1 .. n |-> f.data[i]]
    BY FrameParts DEF n, Size
  <2>3. [i \in 1 .. n |-> Web!Xor(b[(5 + k) + i], b[((5 + k) - 3) + ((i - 1) % 4)])]
        = [i \in 1 .. n |-> f.data[i]]
    BY <1>6, Zenon
  <2> QED BY <2>1, <2>2, <2>3, Zenon
<1>8. Low4(b[1]) = f.code
  <2>1. 1 \in 1 .. 5 + k + n
    BY <1>1, <1>2
  <2>2. b[1] = Fin(f.code)
    BY <1>1, <1>5, <2>1, Zenon
  <2> QED BY <2>2, FrameParts, ByteOps, Zenon
<1> QED BY <1>7, <1>8, Zenon DEF Web!Calls, Web!Expected, Low4

-----------------------------------------------------------------------------
(***************************************************************************)
(* What on_client_read takes off a buffer.                                 *)
(***************************************************************************)
AppCalls == [what : {"text", "binary", "close"}, data : Seq(Nat)]

LEMMA Measures == /\ \A x \in Nat : Low7(x) \in Nat
                  /\ \A x, y \in Nat : Two(x, y) \in Nat /\ Web!Xor(x, y) \in Nat
                  /\ \A h : 6 + Extra(h) \in {6, 8, 14}
<1>1. \A x \in Nat : Low7(x) \in Nat
  BY DEF Low7
<1>2. \A x, y \in Nat : Two(x, y) \in Nat /\ Web!Xor(x, y) \in Nat
  BY DEF Two, Web!Xor
<1>3. \A h : 6 + Extra(h) \in {6, 8, 14}
  BY Bytes DEF Extra
<1> QED BY <1>1, <1>2, <1>3

LEMMA FirstSix ==
  ASSUME NEW b \in Seq(Nat), NEW i \in Nat, 1 <= i, i <= Len(b) PROVE b[i] \in Nat
  OBVIOUS

LEMMA WholeTypes ==
  ASSUME NEW b \in Seq(Nat), Web!Whole(b)
  PROVE  /\ Web!HeadLength(b) \in {6, 8, 14} /\ Web!DataLength(b) \in Nat
         /\ Len(b) \in Nat /\ Len(b) >= Web!DataLength(b) + Web!HeadLength(b)
<1> DEFINE h == Web!HeadLength(b)
           d == Web!DataLength(b)
           l == Len(b)
           e == Low7(b[2])
<1>1. l \in Nat /\ l >= 6 /\ l >= h /\ l >= d + h
  <2>1. l \in Nat
    OBVIOUS
  <2> QED BY <2>1, Zenon DEF Web!Whole, Web!HasHead
<1>2. h = 6 + Extra(e)
  BY HeadIs, Zenon
<1>3. h \in {6, 8, 14}
  BY <1>2, Measures, Zenon
<1>4. e \in Nat
  <2>1. 2 \in Nat /\ 1 <= 2 /\ 2 <= l
    BY <1>1
  <2>2. b[2] \in Nat
    BY <2>1, FirstSix
  <2> QED BY <2>2, Measures, Zenon
<1>5. d \in Nat
  <2>1. CASE e = Medium
    <3>1. \A m \in Nat : m >= 6 => 3 <= m /\ 4 <= m /\ 3 \in Nat /\ 4 \in Nat /\ 1 <= 3 /\ 1 <= 4
      OBVIOUS
    <3>2. 3 <= l /\ 4 <= l /\ 3 \in Nat /\ 4 \in Nat /\ 1 <= 3 /\ 1 <= 4
      BY <1>1, <3>1, Zenon
    <3>3. b[3] \in Nat /\ b[4] \in Nat
      BY <3>2, FirstSix
    <3>4. d = Two(b[3], b[4])
      BY <2>1, DataLengthIs, Zenon
    <3> QED BY <3>3, <3>4, Measures, Zenon
  <2>2. CASE e = Long
    <3>1. \A m \in Nat : m >= 5 + 9 => 9 <= m /\ 10 <= m /\ 9 \in Nat /\ 10 \in Nat /\ 1 <= 9 /\ 1 <= 10
      OBVIOUS
    <3>2. 9 <= l /\ 10 <= l /\ 9 \in Nat /\ 10 \in Nat /\ 1 <= 9 /\ 1 <= 10
      BY <1>1, <1>2, <2>2, <3>1, Extras, Zenon
    <3>3. b[9] \in Nat /\ b[10] \in Nat
      BY <3>2, FirstSix
    <3>4. d = Two(b[9], b[10])
      BY <2>2, DataLengthIs, Zenon
    <3> QED BY <3>3, <3>4, Measures, Zenon
  <2>3. CASE e \notin {Medium, Long}
    BY <1>4, <2>3, DataLengthIs, Zenon
  <2> QED BY <2>1, <2>2, <2>3, Zenon
<1> QED BY <1>1, <1>3, <1>5, Zenon

LEMMA FirstByteSlots ==
  ASSUME NEW h \in {6, 8, 14}, NEW d \in Nat, NEW l \in Nat, l >= d + h
  PROVE  /\ h \in Nat /\ l >= 1 /\ l - (h + d) \in Nat /\ l - (h + d) < l /\ h + d \in 0 .. l
         /\ \A i \in 1 .. d : /\ h + i \in Nat /\ 1 <= h + i /\ h + i <= l
                              /\ (h - 3) + ((i - 1) % 4) \in Nat
                              /\ 1 <= (h - 3) + ((i - 1) % 4)
                              /\ (h - 3) + ((i - 1) % 4) <= l
<1>1. ASSUME NEW i \in 1 .. d PROVE (i - 1) % 4 \in 0 .. 3
  OBVIOUS
<1>2. h \in Nat /\ 6 <= h
  OBVIOUS
<1> QED BY <1>1, <1>2

LEMMA AppCallTypes ==
  ASSUME NEW b \in Seq(Nat), Web!Whole(b)
  PROVE  Web!Calls(b) \in Seq(AppCalls)
<1> DEFINE h == Web!HeadLength(b)
           d == Web!DataLength(b)
           e(i) == Web!Xor(b[h + i], b[(h - 3) + ((i - 1) % 4)])
<1>1. h \in {6, 8, 14} /\ d \in Nat /\ Len(b) \in Nat /\ Len(b) >= d + h
  BY WholeTypes
<1>2. Web!Unmasked(b) = [i \in 1 .. d |-> e(i)]
  BY Zenon DEF Web!Unmasked
<1>3. ASSUME NEW i \in 1 .. d PROVE e(i) \in Nat
  <2> DEFINE p == h + i
             q == (h - 3) + ((i - 1) % 4)
  <2> HIDE DEF h, d
  <2>1. /\ p \in Nat /\ 1 <= p /\ p <= Len(b) /\ q \in Nat /\ 1 <= q /\ q <= Len(b)
    BY <1>1, FirstByteSlots, Zenon
  <2> HIDE DEF p, q
  <2>2. b[p] \in Nat /\ b[q] \in Nat
    BY <2>1, FirstSix
  <2> QED BY <2>2, Measures, Zenon DEF p, q
<1>4. Web!Unmasked(b) \in Seq(Nat)
  <2> HIDE DEF d, e
  <2> QED BY <1>1, <1>2, <1>3
<1>5. /\ Web!Call("text", Web!Unmasked(b)) \in AppCalls
      /\ Web!Call("binary", Web!Unmasked(b)) \in AppCalls
      /\ Web!Call("close", <<>>) \in AppCalls
  BY <1>4 DEF AppCalls, Web!Call
<1>6. \A x \in AppCalls : <<x>> \in Seq(AppCalls) /\ <<>> \in Seq(AppCalls)
  OBVIOUS
<1> QED BY <1>5, <1>6, Zenon DEF Web!Calls

Lefts == [rest : Seq(Nat), calls : Seq(AppCalls)]
AllLeft(b) == [rest |-> b, calls |-> <<>>]
Step(l) == IF ~Web!Whole(l.rest) THEN l
           ELSE [rest |-> SubSeq(l.rest, 1 + Web!HeadLength(l.rest) + Web!DataLength(l.rest),
                                 Len(l.rest)),
                 calls |-> l.calls \o Web!Calls(l.rest)]

LEMMA StepType ==
  ASSUME NEW l \in Lefts
  PROVE  /\ Step(l) \in Lefts
         /\ ~Web!Whole(l.rest) => Step(l) = l
         /\ Web!Whole(l.rest) =>
              /\ Step(l).rest = SubSeq(l.rest, 1 + (Web!HeadLength(l.rest) + Web!DataLength(l.rest)),
                                       Len(l.rest))
              /\ Step(l).calls = l.calls \o Web!Calls(l.rest)
              /\ Len(Step(l).rest) < Len(l.rest)
<1> DEFINE b == l.rest
           h == Web!HeadLength(b)
           d == Web!DataLength(b)
<1>1. b \in Seq(Nat) /\ l.calls \in Seq(AppCalls)
  BY DEF Lefts
<1>2. CASE ~Web!Whole(b)
  <2>1. Step(l) = l
    BY <1>2, Zenon DEF Step
  <2> QED BY <1>2, <2>1
<1>3. CASE Web!Whole(b)
  <2>1. h \in {6, 8, 14} /\ d \in Nat /\ Len(b) \in Nat /\ Len(b) >= d + h
    BY <1>1, <1>3, WholeTypes
  <2>2. h \in Nat /\ h + d \in 0 .. Len(b) /\ Len(b) - (h + d) < Len(b) /\ (1 + h) + d = 1 + (h + d)
    <3> DEFINE n == Len(b)
    <3> HIDE DEF h, d, n
    <3>1. h \in Nat /\ h + d \in 0 .. n /\ n - (h + d) < n
      BY <2>1, FirstByteSlots, Zenon DEF n
    <3>2. (1 + h) + d = 1 + (h + d)
      BY <2>1, <3>1
    <3> QED BY <3>1, <3>2 DEF n
  <2> DEFINE r == SubSeq(b, 1 + (h + d), Len(b))
             c == l.calls \o Web!Calls(b)
  <2>3. Step(l) = [rest |-> r, calls |-> c]
    BY <1>3, <2>2, Zenon DEF Step
  <2>4. r \in Seq(Nat) /\ Len(r) < Len(b)
    <3> DEFINE j == h + d
    <3>1. j \in 0 .. Len(b) /\ Len(b) - j < Len(b) /\ r = SubSeq(b, 1 + j, Len(b))
      BY <2>2, Zenon
    <3> HIDE DEF j, r, b
    <3> QED BY <1>1, <3>1
  <2>5. c \in Seq(AppCalls)
    <3>1. Web!Calls(b) \in Seq(AppCalls)
      BY <1>1, <1>3, AppCallTypes
    <3> QED BY <1>1, <3>1, Joint
  <2> HIDE DEF r, c
  <2>6. Step(l) \in Lefts /\ Step(l).rest = r /\ Step(l).calls = c
    BY <2>3, <2>4, <2>5 DEF Lefts
  <2> QED BY <1>3, <2>4, <2>6, Zenon DEF r, c
<1> QED BY <1>2, <1>3

Runs(L, b) == /\ L \in [0 .. Len(b) -> Lefts] /\ L[0] = AllLeft(b)
              /\ \A i \in 1 .. Len(b) : L[i] = Step(L[i - 1])

LEMMA ConsumeRuns ==
  ASSUME NEW b \in Seq(Nat)
  PROVE  \E L : Runs(L, b) /\ Web!Consume(b) = L[Len(b)]
<1> DEFINE n == Len(b)
           a == AllLeft(b)
           f == [p \in (1 .. n) \X Lefts |-> Step(p[2])]
           F(h) == [i \in 0 .. n |-> IF i = 0 THEN a ELSE Step(h[i - 1])]
           flat == CHOOSE h : h = F(h)
<1>1. n \in Nat /\ n \in 0 .. n
  BY LenProperties
<1>2. a \in Lefts
  BY DEF AllLeft, Lefts
<1>3. f \in [(1 .. n) \X Lefts -> Lefts]
  BY StepType
<1>4. Web!Consume(b) = flat[n]
  BY Zenon DEF Web!Consume, Step, AllLeft
<1> HIDE DEF a
<1>5. \E h : h = F(h)
  <2> HIDE DEF f
  <2>1. PICK g : Iterates(g, Lefts, a, n, f)
    BY <1>1, <1>2, <1>3, Recursion
  <2>2. g \in [0 .. n -> Lefts] /\ g[0] = a /\ \A i \in 1 .. n : g[i] = f[<<i, g[i - 1]>>]
    BY <2>1 DEF Iterates
  <2>3. ASSUME NEW i \in 0 .. n PROVE g[i] = IF i = 0 THEN a ELSE Step(g[i - 1])
    <3>1. CASE i = 0
      BY <2>2, <3>1
    <3>2. CASE i # 0
      <4>1. i \in 1 .. n /\ i - 1 \in 0 .. n
        BY <1>1, <3>2
      <4>2. g[i - 1] \in Lefts
        BY <2>2, <4>1
      <4>3. f[<<i, g[i - 1]>>] = Step(g[i - 1])
        BY <4>1, <4>2 DEF f
      <4> QED BY <2>2, <3>2, <4>1, <4>3, Zenon
    <3> QED BY <3>1, <3>2
  <2>4. g = [i \in 0 .. n |-> g[i]]
    BY <2>2
  <2>5. g = F(g)
    BY <2>3, <2>4, Zenon
  <2> QED BY <2>5
<1>6. flat = F(flat)
  BY <1>5, Zenon
<1> HIDE DEF flat
<1>7. flat[0] = a /\ DOMAIN flat = 0 .. n /\ flat = [i \in 0 .. n |-> flat[i]]
      /\ \A i \in 1 .. n : flat[i] = Step(flat[i - 1])
  <2>1. 0 \in 0 .. n /\ \A i \in 1 .. n : i \in 0 .. n /\ i # 0
    BY <1>1
  <2>2. DOMAIN flat = 0 .. n /\ \A i \in 0 .. n : flat[i] = IF i = 0 THEN a ELSE Step(flat[i - 1])
    <3> DEFINE G == F(flat)
    <3>1. DOMAIN G = 0 .. n /\ \A i \in 0 .. n : G[i] = IF i = 0 THEN a ELSE Step(flat[i - 1])
      BY Zenon
    <3> HIDE DEF G
    <3>2. flat = G
      BY <1>6, Zenon DEF G
    <3> QED BY <3>1, <3>2, Zenon
  <2>3. flat = [i \in 0 .. n |-> flat[i]]
    BY <1>6, <2>2, Zenon
  <2> QED BY <2>1, <2>2, <2>3, Zenon
<1> DEFINE T == {i \in 0 .. n : flat[i] \in Lefts}
<1>8. 0 \in T
  BY <1>1, <1>2, <1>7
<1>9. ASSUME NEW i \in 0 .. n - 1, i \in T PROVE i + 1 \in T
  <2>1. i + 1 \in 1 .. n /\ (i + 1) - 1 = i /\ i + 1 \in 0 .. n
    BY <1>1
  <2>2. flat[i + 1] = Step(flat[i])
    BY <1>7, <2>1, Zenon
  <2>3. flat[i + 1] \in Lefts
    BY <1>9, <2>2, StepType
  <2> QED BY <2>1, <2>3
<1>10. ASSUME NEW k \in 0 .. n PROVE flat[k] \in Lefts
  <2>1. k \in Nat /\ \A i \in 0 .. k - 1 : i \in 0 .. n - 1
    BY <1>1
  <2> HIDE DEF T
  <2>2. k \in T
    BY <1>8, <1>9, <2>1, Upward
  <2> QED BY <2>2 DEF T
<1>11. flat \in [0 .. n -> Lefts]
  BY <1>7, <1>10
<1>12. Runs(flat, b)
  BY <1>7, <1>11, Zenon DEF Runs, a
<1> QED BY <1>4, <1>12, Zenon

\* It stops where the front is not whole.
LEMMA ConsumeType ==
  ASSUME NEW b \in Seq(Nat)
  PROVE  /\ Web!Consume(b) \in Lefts
         /\ ~Web!Whole(Web!Consume(b).rest)
<1> DEFINE n == Len(b)
<1>1. n \in Nat /\ n \in 0 .. n
  BY LenProperties
<1>2. PICK L : Runs(L, b) /\ Web!Consume(b) = L[n]
  BY ConsumeRuns
<1>3. L \in [0 .. n -> Lefts] /\ L[0] = AllLeft(b) /\ \A i \in 1 .. n : L[i] = Step(L[i - 1])
  BY <1>2, Zenon DEF Runs
<1> HIDE DEF n
<1> DEFINE T == {i \in 0 .. n : Web!Whole(L[i].rest) => Len(L[i].rest) <= n - i}
<1>4. 0 \in T
  <2>1. L[0].rest = b
    BY <1>3 DEF AllLeft
  <2> QED BY <1>1, <2>1 DEF n
<1>5. ASSUME NEW i \in 0 .. n - 1, i \in T PROVE i + 1 \in T
  <2>1. i \in 0 .. n /\ i + 1 \in 0 .. n /\ i + 1 \in 1 .. n /\ (i + 1) - 1 = i
    BY <1>1
  <2>2. L[i] \in Lefts /\ L[i + 1] = Step(L[i]) /\ L[i + 1] \in Lefts
    BY <1>3, <2>1, Zenon
  <2>3. L[i].rest \in Seq(Nat) /\ L[i + 1].rest \in Seq(Nat)
    BY <2>2 DEF Lefts
  <2>4. ASSUME Web!Whole(L[i + 1].rest) PROVE Len(L[i + 1].rest) <= n - (i + 1)
    <3>1. Web!Whole(L[i].rest)
      BY <2>2, <2>4, StepType, Zenon
    <3>2. Len(L[i + 1].rest) < Len(L[i].rest)
      BY <2>2, <3>1, StepType
    <3>3. Len(L[i].rest) <= n - i
      BY <1>5, <3>1
    <3>4. Len(L[i].rest) \in Nat /\ Len(L[i + 1].rest) \in Nat
      BY <2>3, LenProperties
    <3> QED BY <1>1, <3>2, <3>3, <3>4
  <2> QED BY <2>1, <2>4
<1>6. n \in T
  <2> HIDE DEF T
  <2> QED BY <1>1, <1>4, <1>5, Upward
<1>7. L[n] \in Lefts
  BY <1>1, <1>3
<1>8. ~Web!Whole(L[n].rest)
  <2> SUFFICES ASSUME Web!Whole(L[n].rest) PROVE FALSE
    OBVIOUS
  <2>1. L[n].rest \in Seq(Nat)
    BY <1>7 DEF Lefts
  <2>2. Len(L[n].rest) \in Nat /\ Len(L[n].rest) >= 6
    BY <2>1, LenProperties, Zenon DEF Web!Whole, Web!HasHead
  <2> QED BY <1>1, <1>6, <2>2
<1> QED BY <1>2, <1>7, <1>8, Zenon

Sents(s) == [i \in DOMAIN s |-> Web!Sent(s[i])]
Asks(s) == [i \in DOMAIN s |-> Web!Expected(s[i])]

\* The stream behind the first k frames, and the messages of those.
Rest(s, k) == Ext!FlattenSeq(SubSeq(Sents(s), k + 1, Len(s)))
First(s, k) == Ext!FlattenSeq(SubSeq(Asks(s), 1, k))

LEMMA FrameTypes ==
  ASSUME NEW f \in WebFrames
  PROVE  Web!Sent(f) \in Seq(Nat) /\ Web!Expected(f) \in Seq(AppCalls)
<1>1. Web!Sent(f) \in Seq(Nat)
  <2>1. Web!Sent(f) \in Seq(Byte)
    BY SentIs
  <2>2. Byte \subseteq Nat
    BY Bytes
  <2> QED BY <2>1, <2>2, SeqMonotonic
<1>2. f.data \in Seq(Nat)
  <2>1. f.data \in Seq({0, 1}) /\ {0, 1} \subseteq Nat
    BY FrameParts
  <2> QED BY <2>1, SeqMonotonic
<1>3. /\ Web!Call("text", f.data) \in AppCalls
      /\ Web!Call("binary", f.data) \in AppCalls
      /\ Web!Call("close", <<>>) \in AppCalls
  BY <1>2 DEF AppCalls, Web!Call
<1>4. \A x \in AppCalls : <<x>> \in Seq(AppCalls) /\ <<>> \in Seq(AppCalls)
  OBVIOUS
<1> QED BY <1>1, <1>3, <1>4, Zenon DEF Web!Expected

LEMMA StreamTypes ==
  ASSUME NEW s \in Seq(WebFrames)
  PROVE  /\ Len(s) \in Nat
         /\ Sents(s) \in Seq(Seq(Nat)) /\ Len(Sents(s)) = Len(s)
         /\ Asks(s) \in Seq(Seq(AppCalls)) /\ Len(Asks(s)) = Len(s)
         /\ \A i \in 1 .. Len(s) : /\ s[i] \in WebFrames
                                   /\ Sents(s)[i] = Web!Sent(s[i]) /\ Asks(s)[i] = Web!Expected(s[i])
<1>1. DOMAIN s = 1 .. Len(s) /\ Len(s) \in Nat /\ \A i \in 1 .. Len(s) : s[i] \in WebFrames
  BY LenProperties, ElementOfSeq
<1>2. \A i \in 1 .. Len(s) : Web!Sent(s[i]) \in Seq(Nat) /\ Web!Expected(s[i]) \in Seq(AppCalls)
  BY <1>1, FrameTypes
<1> DEFINE P == Seq(Nat)
           Q == Seq(AppCalls)
<1>3. Sents(s) \in Seq(P) /\ Len(Sents(s)) = Len(s)
      /\ \A i \in 1 .. Len(s) : Sents(s)[i] = Web!Sent(s[i])
  <2>1. \A i \in 1 .. Len(s) : Web!Sent(s[i]) \in P
    BY <1>2
  <2> HIDE DEF P
  <2> QED BY <1>1, <2>1 DEF Sents
<1>4. Asks(s) \in Seq(Q) /\ Len(Asks(s)) = Len(s)
      /\ \A i \in 1 .. Len(s) : Asks(s)[i] = Web!Expected(s[i])
  <2>1. \A i \in 1 .. Len(s) : Web!Expected(s[i]) \in Q
    BY <1>2
  <2> HIDE DEF Q
  <2> QED BY <1>1, <2>1 DEF Asks
<1> QED BY <1>1, <1>3, <1>4

LEMMA StreamParts ==
  ASSUME NEW s \in Seq(WebFrames)
  PROVE  /\ \A k \in 0 .. Len(s) : Rest(s, k) \in Seq(Nat) /\ First(s, k) \in Seq(AppCalls)
         /\ Rest(s, 0) = Ext!FlattenSeq(Sents(s)) /\ First(s, 0) = <<>>
         /\ Rest(s, Len(s)) = <<>> /\ First(s, Len(s)) = Ext!FlattenSeq(Asks(s))
<1> DEFINE P == Seq(Nat)
           Q == Seq(AppCalls)
           n == Len(s)
           p == Sents(s)
           q == Asks(s)
<1>1. n \in Nat /\ p \in Seq(P) /\ Len(p) = n /\ q \in Seq(Q) /\ Len(q) = n
  BY StreamTypes
<1>2. ASSUME NEW k \in 0 .. n PROVE Rest(s, k) \in P /\ First(s, k) \in Q
  <2>1. SubSeq(p, k + 1, n) \in Seq(P) /\ SubSeq(q, 1, k) \in Seq(Q)
    <3> HIDE DEF P, Q, n, p, q
    <3> QED BY <1>1
  <2> QED BY <2>1, FlatType DEF Rest, First
<1>3. SubSeq(p, 0 + 1, n) = p /\ SubSeq(p, n + 1, n) = <<>>
      /\ SubSeq(q, 1, 0) = <<>> /\ SubSeq(q, 1, n) = q
  <2> HIDE DEF P, Q, n, p, q
  <2> QED BY <1>1
<1> QED BY <1>2, <1>3, FlatNone, Zenon DEF Rest, First

LEMMA StreamStep ==
  ASSUME NEW s \in Seq(WebFrames), NEW k \in 0 .. Len(s) - 1
  PROVE  /\ k + 1 \in 0 .. Len(s) /\ s[k + 1] \in WebFrames
         /\ Rest(s, k) = Web!Sent(s[k + 1]) \o Rest(s, k + 1)
         /\ First(s, k + 1) = First(s, k) \o Web!Expected(s[k + 1])
<1> DEFINE n == Len(s)
           p == Sents(s)
           q == Asks(s)
<1>1. n \in Nat /\ p \in Seq(Seq(Nat)) /\ Len(p) = n /\ q \in Seq(Seq(AppCalls)) /\ Len(q) = n
  BY StreamTypes
<1>2. k + 1 \in 1 .. n /\ k + 1 \in 0 .. n /\ (k + 1) + 1 = k + 2 /\ k \in 0 .. Len(p) - 1
      /\ k \in 0 .. Len(q) - 1
  BY <1>1
<1>3. s[k + 1] \in WebFrames /\ p[k + 1] = Web!Sent(s[k + 1]) /\ q[k + 1] = Web!Expected(s[k + 1])
  BY <1>2, StreamTypes, Zenon
<1> HIDE DEF n, p, q
<1>4. /\ Ext!FlattenSeq(SubSeq(p, k + 1, Len(p))) =
           p[k + 1] \o Ext!FlattenSeq(SubSeq(p, k + 2, Len(p)))
      /\ Ext!FlattenSeq(SubSeq(q, 1, k + 1)) = Ext!FlattenSeq(SubSeq(q, 1, k)) \o q[k + 1]
  BY <1>1, <1>2, FlatRest
<1> QED BY <1>1, <1>2, <1>3, <1>4, Zenon DEF Rest, First, p, q, n

LEMMA EmptyIsNotWhole == ~Web!Whole(<<>>)
<1>1. ~(Len(<<>>) >= 6)
  OBVIOUS
<1> QED BY <1>1, Zenon DEF Web!Whole, Web!HasHead

LEMMA FrontOf ==
  ASSUME NEW f \in WebFrames, NEW b \in Seq(Nat), NEW x \in Seq(Nat), NEW r \in Seq(Nat),
         b \o x = Web!Sent(f) \o r
  PROVE  /\ Begins(b, f)
         /\ Len(b) >= Len(Web!Sent(f)) => SubSeq(b, 1 + Len(Web!Sent(f)), Len(b)) \o x = r
<1> DEFINE t == Web!Sent(f)
<1>1. t \in Seq(Nat) /\ b \o x = t \o r
  BY FrameTypes
<1> HIDE DEF t
<1>2. \A i \in 1 .. Len(b) : i <= Len(t) => b[i] = t[i]
  BY <1>1, Front
<1>3. Len(b) >= Len(t) => SubSeq(b, 1 + Len(t), Len(b)) \o x = r
  BY <1>1, Front
<1> QED BY <1>2, <1>3, Zenon DEF Begins, t

LEMMA FrontNext ==
  ASSUME NEW s \in Seq(WebFrames), NEW k \in 0 .. Len(s), NEW x \in Seq(Nat), NEW l \in Lefts,
         l.rest \o x = Rest(s, k), Web!Whole(l.rest)
  PROVE  /\ k + 1 \in 0 .. Len(s)
         /\ Step(l).rest \o x = Rest(s, k + 1)
         /\ Step(l).calls = l.calls \o Web!Expected(s[k + 1])
<1> DEFINE b == l.rest
<1>1. b \in Seq(Nat)
  BY DEF Lefts
<1>2. k \in 0 .. Len(s) - 1
  <2> SUFFICES ASSUME k = Len(s) PROVE FALSE
    BY StreamTypes
  <2>1. b \o x = <<>>
    BY StreamParts, Zenon
  <2>2. b = <<>>
    <3> HIDE DEF b
    <3> QED BY <1>1, <2>1, ConcatEqualIffEmpty
  <2> QED BY <2>2, EmptyIsNotWhole
<1> DEFINE f == s[k + 1]
           t == Web!Sent(f)
           r == Rest(s, k + 1)
<1>3. k + 1 \in 0 .. Len(s) /\ f \in WebFrames /\ b \o x = t \o r
  BY <1>2, StreamStep
<1>4. t \in Seq(Nat) /\ r \in Seq(Nat)
  BY <1>3, FrameTypes, StreamParts
<1>5. Begins(b, f) /\ (Len(b) >= Len(t) => SubSeq(b, 1 + Len(t), Len(b)) \o x = r)
  <2> HIDE DEF b, r, f
  <2> QED BY <1>1, <1>3, <1>4, FrontOf
<1> HIDE DEF f, r
<1>6. Len(b) >= Len(t) /\ Web!HeadLength(b) + Web!DataLength(b) = Len(t)
  BY <1>1, <1>3, <1>5, FirstIsWhole
<1>7. Web!Calls(b) = Web!Expected(f)
  BY <1>1, <1>3, <1>5, <1>6, FirstIsUnmasked
<1>8. /\ Step(l).rest = SubSeq(b, 1 + (Web!HeadLength(b) + Web!DataLength(b)), Len(b))
      /\ Step(l).calls = l.calls \o Web!Calls(b)
  BY StepType
<1> QED BY <1>3, <1>5, <1>6, <1>7, <1>8, Zenon DEF f, r

\* What a read takes off a stream of frames are its next frames, and what it leaves
\* is not whole.
LEMMA ConsumeFrames ==
  ASSUME NEW s \in Seq(WebFrames), NEW k \in 0 .. Len(s), NEW b \in Seq(Nat), NEW x \in Seq(Nat),
         b \o x = Rest(s, k)
  PROVE  \E j \in 0 .. Len(s) : /\ Web!Consume(b).rest \o x = Rest(s, j)
                                /\ First(s, k) \o Web!Consume(b).calls = First(s, j)
<1> DEFINE n == Len(b)
           Good(l) == \E j \in 0 .. Len(s) : /\ l.rest \o x = Rest(s, j)
                                             /\ First(s, k) \o l.calls = First(s, j)
<1>1. n \in Nat /\ n \in 0 .. n
  BY LenProperties
<1>2. PICK L : Runs(L, b) /\ Web!Consume(b) = L[n]
  BY ConsumeRuns
<1>3. L \in [0 .. n -> Lefts] /\ L[0] = AllLeft(b) /\ \A i \in 1 .. n : L[i] = Step(L[i - 1])
  BY <1>2, Zenon DEF Runs
<1> DEFINE T == {i \in 0 .. n : Good(L[i])}
<1>4. 0 \in T
  <2>1. L[0].rest = b /\ L[0].calls = <<>>
    BY <1>3 DEF AllLeft
  <2>2. First(s, k) \in Seq(AppCalls)
    BY StreamParts
  <2>3. First(s, k) \o <<>> = First(s, k)
    BY <2>2, ConcatEmptySeq
  <2>4. Good(L[0])
    BY <2>1, <2>3, Zenon
  <2>5. 0 \in 0 .. n
    BY <1>1
  <2> QED BY <2>4, <2>5, Zenon
<1>5. ASSUME NEW i \in 0 .. n - 1, i \in T PROVE i + 1 \in T
  <2>1. i \in 0 .. n /\ i + 1 \in 0 .. n /\ i + 1 \in 1 .. n /\ (i + 1) - 1 = i
    BY <1>1
  <2>2. L[i] \in Lefts /\ L[i + 1] = Step(L[i])
    BY <1>3, <2>1, Zenon
  <2>3. PICK j \in 0 .. Len(s) : /\ L[i].rest \o x = Rest(s, j)
                                 /\ First(s, k) \o L[i].calls = First(s, j)
    BY <1>5, Zenon
  <2>4. CASE ~Web!Whole(L[i].rest)
    <3>1. L[i + 1] = L[i]
      BY <2>2, <2>4, StepType
    <3>2. Good(L[i + 1])
      BY <2>3, <3>1, Zenon
    <3> QED BY <2>1, <3>2, Zenon
  <2>5. CASE Web!Whole(L[i].rest)
    <3> DEFINE e == Web!Expected(s[j + 1])
    <3>1. /\ j + 1 \in 0 .. Len(s)
          /\ L[i + 1].rest \o x = Rest(s, j + 1)
          /\ L[i + 1].calls = L[i].calls \o e
      <4> DEFINE l == L[i]
      <4>1. l \in Lefts /\ l.rest \o x = Rest(s, j) /\ Web!Whole(l.rest)
        BY <2>2, <2>3, <2>5
      <4> HIDE DEF l
      <4>2. /\ j + 1 \in 0 .. Len(s)
            /\ Step(l).rest \o x = Rest(s, j + 1)
            /\ Step(l).calls = l.calls \o e
        BY <4>1, FrontNext
      <4> QED BY <2>2, <4>2, Zenon DEF l
    <3>2. j \in 0 .. Len(s) - 1
      BY <3>1, StreamTypes
    <3>3. First(s, j + 1) = First(s, j) \o e /\ s[j + 1] \in WebFrames
      BY <3>2, StreamStep
    <3>4. First(s, k) \in Seq(AppCalls) /\ L[i].calls \in Seq(AppCalls) /\ e \in Seq(AppCalls)
      BY <2>2, <3>3, StreamParts, FrameTypes DEF Lefts
    <3> HIDE DEF e
    <3>5. First(s, k) \o (L[i].calls \o e) = First(s, j) \o e
      <4> DEFINE u == First(s, k)
                 v == L[i].calls
                 r == First(s, j)
      <4>1. u \in Seq(AppCalls) /\ v \in Seq(AppCalls) /\ e \in Seq(AppCalls) /\ u \o v = r
        BY <2>3, <3>4
      <4> HIDE DEF u, v, r
      <4>2. Associates(u, v, e)
        BY <4>1, Associate, Zenon
      <4> QED BY <4>1, <4>2, Zenon DEF Associates, u, v, r
    <3>6. Good(L[i + 1])
      BY <2>3, <3>1, <3>3, <3>5, Zenon
    <3> QED BY <2>1, <3>6, Zenon
  <2> QED BY <2>4, <2>5
<1>6. n \in T
  <2> HIDE DEF T, n
  <2> QED BY <1>1, <1>4, <1>5, Upward
<1> QED BY <1>2, <1>6, Zenon

-----------------------------------------------------------------------------
(***************************************************************************)
(* The calls that a client has caused, and what each of them stands for.   *)
(***************************************************************************)
Stages == {"new", "open", "gone"}
Events == [what : {"new", "open", "gone", "text", "binary", "close"}, data : Seq(Nat)]
Whats == {"new", "open", "gone", "text", "binary", "close"}

New == Web!Call("new", <<>>)
Open == Web!Call("open", <<>>)
Gone == Web!Call("gone", <<>>)

Bringing == [x \in Events |-> IF Web!Bring(x) THEN <<x>> ELSE <<>>]
Staging == [x \in Events |-> IF Web!Bring(x) THEN <<>> ELSE <<x.what>>]
Replying == [x \in AppCalls |-> Web!Answer(x)]

LEMMA TextFacts ==
  /\ AppCalls \subseteq Events
  /\ \A x \in AppCalls : x.what \notin Stages /\ Bringing[x] = <<x>> /\ Staging[x] = <<>>
<1>1. AppCalls \subseteq Events
  BY DEF AppCalls, Events
<1>2. ASSUME NEW x \in AppCalls PROVE x.what \notin Stages /\ Bringing[x] = <<x>> /\ Staging[x] = <<>>
  <2>1. x \in Events
    BY <1>1
  <2>2. x.what \in {"text", "binary", "close"}
    BY DEF AppCalls
  <2>3. x.what \notin {"new", "open", "gone"}
    BY <2>2
  <2> QED BY <2>1, <2>3 DEF Web!Bring, Bringing, Staging, Stages
<1> QED BY <1>1, <1>2

LEMMA StageFacts ==
  /\ New \in Events /\ Open \in Events /\ Gone \in Events
  /\ New.what = "new" /\ Open.what = "open" /\ Gone.what = "gone"
  /\ Bringing[New] = <<>> /\ Bringing[Open] = <<>> /\ Bringing[Gone] = <<>>
  /\ Staging[New] = <<"new">> /\ Staging[Open] = <<"open">> /\ Staging[Gone] = <<"gone">>
<1>1. New \in Events /\ Open \in Events /\ Gone \in Events
      /\ New.what = "new" /\ Open.what = "open" /\ Gone.what = "gone"
  BY DEF New, Open, Gone, Web!Call, Events
<1>2. ~Web!Bring(New) /\ ~Web!Bring(Open) /\ ~Web!Bring(Gone)
  BY <1>1 DEF Web!Bring
<1> QED BY <1>1, <1>2 DEF Bringing, Staging

LEMMA EventMaps == /\ Bringing \in [Events -> Seq(Events)]
                   /\ Staging \in [Events -> Seq(Whats)]
<1>1. \A x \in Events : <<x>> \in Seq(Events) /\ <<>> \in Seq(Events)
  OBVIOUS
<1>2. \A x \in Whats : <<x>> \in Seq(Whats) /\ <<>> \in Seq(Whats)
  OBVIOUS
<1>3. \A x \in Events : x.what \in Whats
  BY DEF Events, Whats
<1> QED BY <1>1, <1>2, <1>3 DEF Bringing, Staging

LEMMA ReplyType == Replying \in [AppCalls -> Seq(Nat)]
<1>1. ASSUME NEW n \in Nat PROVE Web!LengthBytes(n) \in Seq(Nat)
  <2>1. High(n) \in Nat /\ Low(n) \in Nat
    BY DEF High, Low
  <2>2. Medium \in Nat /\ Long \in Nat
    BY Bytes
  <2>3. Web!LengthBytes(n) = IF n < Medium THEN <<n>>
                             ELSE IF n <= TwoBytes THEN <<Medium, High(n), Low(n)>>
                             ELSE <<Long, 0, 0, 0, 0, 0, 0, High(n), Low(n)>>
    BY Zenon DEF Web!LengthBytes, High, Low
  <2>4. /\ <<n>> \in Seq(Nat) /\ <<Medium, High(n), Low(n)>> \in Seq(Nat)
        /\ <<Long, 0, 0, 0, 0, 0, 0, High(n), Low(n)>> \in Seq(Nat)
    BY <2>1, <2>2
  <2> QED BY <2>3, <2>4, Zenon
<1>2. ASSUME NEW x \in AppCalls PROVE Web!Answer(x) \in Seq(Nat)
  <2> DEFINE l == Web!LengthBytes(Len(x.data))
  <2>1. x.data \in Seq(Nat)
    BY DEF AppCalls
  <2>2. l \in Seq(Nat)
    BY <1>1, <2>1, LenProperties
  <2> HIDE DEF l
  <2>3. <<129>> \in Seq(Nat) /\ <<136, 0>> \in Seq(Nat) /\ <<>> \in Seq(Nat) /\ 128 + 1 = 129
    OBVIOUS
  <2>4. (<<129>> \o l) \o x.data \in Seq(Nat)
    BY <2>1, <2>2, <2>3, ConcatProperties
  <2>5. Web!Written(1, x.data) = (<<128 + 1>> \o l) \o x.data
    BY Zenon DEF Web!Written, l
  <2> QED BY <2>3, <2>4, <2>5, Zenon DEF Web!Answer
<1> QED BY <1>2 DEF Replying

\* A history: what was called before the messages, the messages, and what was called
\* after them.
Told(f, m, g) == (f \o m) \o g

LEMMA HistoryMaps ==
  ASSUME NEW f \in Seq(Events), NEW m \in Seq(AppCalls), NEW g \in Seq(Events),
         FlatMap(Bringing, f) = <<>>, FlatMap(Bringing, g) = <<>>
  PROVE  /\ Told(f, m, g) \in Seq(Events)
         /\ FlatMap(Bringing, Told(f, m, g)) = m
         /\ FlatMap(Staging, Told(f, m, g)) = FlatMap(Staging, f) \o FlatMap(Staging, g)
<1>1. m \in Seq(Events)
  BY TextFacts, SeqMonotonic
<1>2. f \o m \in Seq(Events)
  BY <1>1, ConcatProperties
<1>3. Told(f, m, g) \in Seq(Events)
  BY <1>2, ConcatProperties DEF Told
<1>4. \A i \in 1 .. Len(m) : m[i] \in AppCalls
  BY ElementOfSeq
<1>5. \A i \in 1 .. Len(m) : Bringing[m[i]] = <<m[i]>> /\ Staging[m[i]] = <<>>
  BY <1>4, TextFacts, Zenon
<1>6. FlatMap(Bringing, m) = m
  BY <1>1, <1>5, EventMaps, FlatMapSame
<1>7. FlatMap(Staging, m) = <<>>
  BY <1>1, <1>5, EventMaps, FlatMapNone
<1>8. /\ Joins(Bringing, f, m) /\ Joins(Bringing, f \o m, g)
      /\ Joins(Staging, f, m) /\ Joins(Staging, f \o m, g)
  BY <1>1, <1>2, EventMaps, FlatMapConcat, Zenon
<1>9. FlatMap(Staging, f) \in Seq(Whats)
  BY EventMaps, FlatMapType
<1>10. <<>> \o m = m /\ m \o <<>> = m /\ FlatMap(Staging, f) \o <<>> = FlatMap(Staging, f)
  BY <1>9, ConcatEmptySeq
<1>11. FlatMap(Bringing, Told(f, m, g)) = m
  BY <1>6, <1>8, <1>10, Zenon DEF Joins, Told
<1>12. FlatMap(Staging, Told(f, m, g)) = FlatMap(Staging, f) \o FlatMap(Staging, g)
  BY <1>7, <1>8, <1>10, Zenon DEF Joins, Told
<1> QED BY <1>3, <1>11, <1>12

-----------------------------------------------------------------------------
(***************************************************************************)
(* One client: what it sends, what of it is on the wire, where it is, the  *)
(* state and the buffer of its websocket, its calls, whether its request   *)
(* came alone, and its answers.                                            *)
(***************************************************************************)
Places == {"waits", "served", "left"}

Before(place, st) == IF place = "waits" THEN <<>> ELSE IF st = "INIT" THEN <<New>> ELSE <<New, Open>>
After(place) == IF place = "left" THEN <<Gone>> ELSE <<>>

Start == 1001
NoStart(w) == \A i \in 1 .. Len(w) : w[i] # Start

\* A client that has sent its request and nothing else in one read is followed
\* frame by frame.
Followed(s, w, b, m) == \E k \in 0 .. Len(s) : /\ m = First(s, k) /\ b \o w = Rest(s, k)
                                               /\ ~Web!Whole(b)

History(s, w, place, st, b, ev, al, g, m) ==
  /\ ev = Told(Before(place, st), m, After(place))
  /\ st = "INIT" => m = <<>>
  /\ g = FlatMap(Replying, m)
  /\ al => Followed(s, w, b, m)

Fine(s, w, place, st, b, ev, al, g) ==
  /\ w \in Seq(Nat) /\ b \in Seq(Nat) /\ st \in {"INIT", "CONNECTED"}
  /\ place = "waits" => st = "INIT"
  /\ st = "INIT" => /\ ~al /\ b = <<>>
                    /\ w = Web!Request \o Rest(s, 0) \/ NoStart(w)
  /\ \E m \in Seq(AppCalls) : History(s, w, place, st, b, ev, al, g, m)

IsPair(x, y) == <<x>> \o <<y>> = <<x, y>>

LEMMA Pair == ASSUME NEW X, NEW x \in X, NEW y \in X PROVE IsPair(x, y)
<1> DEFINE p == <<x>>
           q == <<y>>
           r == <<x, y>>
<1>1. /\ p \in Seq(X) /\ Len(p) = 1 /\ p[1] = x /\ q \in Seq(X) /\ Len(q) = 1 /\ q[1] = y
      /\ r \in Seq(X) /\ Len(r) = 2 /\ r[1] = x /\ r[2] = y
  OBVIOUS
<1> HIDE DEF p, q, r
<1>2. p \o q \in Seq(X) /\ Len(p \o q) = 2 /\ (p \o q)[1] = x /\ (p \o q)[2] = y
  <2>1. p \o q \in Seq(X) /\ Len(p \o q) = Len(p) + Len(q)
        /\ \A i \in 1 .. Len(p) + Len(q) :
             (p \o q)[i] = IF i <= Len(p) THEN p[i] ELSE q[i - Len(p)]
    BY <1>1, ConcatProperties, Zenon
  <2>2. 1 + 1 = 2 /\ 1 \in 1 .. 2 /\ 2 \in 1 .. 2 /\ 1 <= 1 /\ ~(2 <= 1) /\ 2 - 1 = 1
    OBVIOUS
  <2> QED BY <1>1, <2>1, <2>2, Zenon
<1> DEFINE u == p \o q
<1>3. \A i \in 1 .. Len(u) : u[i] = r[i]
  BY <1>1, <1>2
<1> HIDE DEF u
<1>4. u = r
  BY <1>1, <1>2, <1>3, SeqEqual DEF u
<1> QED BY <1>4, Zenon DEF IsPair, u, p, q, r

LEMMA Befores ==
  ASSUME NEW place \in Places, NEW st
  PROVE  /\ Before(place, st) \in Seq(Events) /\ After(place) \in Seq(Events)
         /\ FlatMap(Bringing, Before(place, st)) = <<>> /\ FlatMap(Bringing, After(place)) = <<>>
         /\ FlatMap(Staging, Before(place, st)) =
              IF place = "waits" THEN <<>> ELSE IF st = "INIT" THEN <<"new">> ELSE <<"new", "open">>
         /\ FlatMap(Staging, After(place)) = IF place = "left" THEN <<"gone">> ELSE <<>>
<1>1. /\ <<New>> \in Seq(Events) /\ <<Open>> \in Seq(Events) /\ <<Gone>> \in Seq(Events)
      /\ <<>> \in Seq(Events) /\ <<New, Open>> \in Seq(Events)
  <2>1. \A x, y \in Events : <<x>> \in Seq(Events) /\ <<>> \in Seq(Events) /\ <<x, y>> \in Seq(Events)
    OBVIOUS
  <2> QED BY <2>1, StageFacts, Zenon
<1>2. /\ FlatMap(Bringing, <<New>>) = <<>> /\ FlatMap(Staging, <<New>>) = <<"new">>
      /\ FlatMap(Bringing, <<Open>>) = <<>> /\ FlatMap(Staging, <<Open>>) = <<"open">>
      /\ FlatMap(Bringing, <<Gone>>) = <<>> /\ FlatMap(Staging, <<Gone>>) = <<"gone">>
  BY StageFacts, EventMaps, FlatMapOne
<1>3. FlatMap(Bringing, <<>>) = <<>> /\ FlatMap(Staging, <<>>) = <<>>
  BY FlatMapEmpty
<1>4. /\ Joins(Bringing, <<New>>, <<Open>>) /\ Joins(Staging, <<New>>, <<Open>>)
  BY <1>1, EventMaps, FlatMapConcat, Zenon
<1>5. /\ <<>> \o <<>> = <<>> /\ <<"new">> \o <<"open">> = <<"new", "open">>
      /\ <<New>> \o <<Open>> = <<New, Open>>
  <2>1. "new" \in Whats /\ "open" \in Whats /\ New \in Events /\ Open \in Events
    BY StageFacts DEF Whats
  <2>2. <<>> \o <<>> = <<>>
    OBVIOUS
  <2>3. IsPair("new", "open") /\ IsPair(New, Open)
    BY <2>1, Pair, Zenon
  <2> QED BY <2>2, <2>3, Zenon DEF IsPair
<1>6. FlatMap(Bringing, <<New, Open>>) = <<>> /\ FlatMap(Staging, <<New, Open>>) = <<"new", "open">>
  BY <1>1, <1>2, <1>4, <1>5, Zenon DEF Joins
<1> QED BY <1>1, <1>2, <1>3, <1>6, Zenon DEF Before, After

LEMMA PrefixOfJoint ==
  ASSUME NEW X, NEW p \in Seq(X), NEW q \in Seq(X) PROVE Web!IsPrefix(p, p \o q)
<1>1. Len(p) <= Len(p \o q) /\ SubSeq(p \o q, 1, Len(p)) = SubSeq(p, 1, Len(p))
  OBVIOUS
<1> QED BY <1>1 DEF Web!IsPrefix

LEMMA FirstIsPrefix ==
  ASSUME NEW s \in Seq(WebFrames), NEW k \in 0 .. Len(s)
  PROVE  Web!IsPrefix(First(s, k), Ext!FlattenSeq(Asks(s)))
<1> DEFINE q == Asks(s)
           n == Len(s)
           Q == Seq(AppCalls)
           u == SubSeq(q, 1, k)
           v == SubSeq(q, k + 1, n)
<1>1. q \in Seq(Q) /\ Len(q) = n /\ n \in Nat /\ k \in 0 .. n
  BY StreamTypes
<1>2. u \in Seq(Q) /\ v \in Seq(Q) /\ q = u \o v
  <2> HIDE DEF q, n, Q
  <2>1. u \in Seq(Q) /\ v \in Seq(Q)
    BY <1>1
  <2>2. 1 \in 1 .. Len(q) + 1 /\ k \in 1 - 1 .. Len(q) /\ n \in k .. Len(q)
    BY <1>1 DEF n
  <2>3. u \o v = SubSeq(q, 1, n)
    BY <1>1, <2>2, ConcatAdjacentSubSeq
  <2>4. SubSeq(q, 1, n) = q
    BY <1>1, SubSeqFull
  <2> QED BY <2>1, <2>3, <2>4, Zenon
<1>3. Ext!FlattenSeq(u) \in Q /\ Ext!FlattenSeq(v) \in Q
  BY <1>2, FlatType
<1>4. Ext!FlattenSeq(u \o v) = Ext!FlattenSeq(u) \o Ext!FlattenSeq(v)
  <2> HIDE DEF u, v
  <2> QED BY <1>2, FlatConcat
<1> HIDE DEF u, v, q
<1>5. Web!IsPrefix(Ext!FlattenSeq(u), Ext!FlattenSeq(u) \o Ext!FlattenSeq(v))
  BY <1>3, PrefixOfJoint, Zenon
<1> QED BY <1>2, <1>4, <1>5, Zenon DEF First, u, q

\* With nothing on the wire all frames have been taken.
LEMMA FollowedToTheEnd ==
  ASSUME NEW s \in Seq(WebFrames), NEW b \in Seq(Nat), NEW m, Followed(s, <<>>, b, m)
  PROVE  m = Ext!FlattenSeq(Asks(s))
<1>1. PICK k \in 0 .. Len(s) : m = First(s, k) /\ b \o <<>> = Rest(s, k) /\ ~Web!Whole(b)
  BY Zenon DEF Followed
<1>2. k = Len(s)
  <2> SUFFICES ASSUME k # Len(s) PROVE FALSE
    OBVIOUS
  <2>1. k \in 0 .. Len(s) - 1
    BY StreamTypes
  <2> DEFINE f == s[k + 1]
             t == Web!Sent(f)
             r == Rest(s, k + 1)
  <2>2. k + 1 \in 0 .. Len(s) /\ f \in WebFrames /\ Rest(s, k) = t \o r
    BY <2>1, StreamStep
  <2>3. t \in Seq(Nat) /\ r \in Seq(Nat)
    BY <2>2, FrameTypes, StreamParts
  <2>4. b \o <<>> = t \o r /\ <<>> \in Seq(Nat)
    BY <1>1, <2>2
  <2> HIDE DEF f, r
  <2>5. Begins(b, f)
    BY <2>2, <2>3, <2>4, FrontOf
  <2> HIDE DEF t
  <2>6. Len(b) >= Len(t)
    <3>1. b = t \o r
      BY <2>4, ConcatEmptySeq
    <3>2. Len(t \o r) >= Len(t)
      BY <2>3
    <3> QED BY <3>1, <3>2, Zenon
  <2>7. Web!Whole(b)
    BY <2>2, <2>5, <2>6, FirstIsWhole DEF t
  <2> QED BY <1>1, <2>7
<1> QED BY <1>1, <1>2, StreamParts, Zenon

IsTriple(x, y, z) == <<x, y>> \o <<z>> = <<x, y, z>>

LEMMA Triple == ASSUME NEW X, NEW x \in X, NEW y \in X, NEW z \in X PROVE IsTriple(x, y, z)
<1> DEFINE p == <<x, y>>
           q == <<z>>
           r == <<x, y, z>>
<1>1. /\ p \in Seq(X) /\ Len(p) = 2 /\ p[1] = x /\ p[2] = y
      /\ q \in Seq(X) /\ Len(q) = 1 /\ q[1] = z
      /\ r \in Seq(X) /\ Len(r) = 3 /\ r[1] = x /\ r[2] = y /\ r[3] = z
  OBVIOUS
<1> HIDE DEF p, q, r
<1> DEFINE u == p \o q
<1>2. u \in Seq(X) /\ Len(u) = 3 /\ u[1] = x /\ u[2] = y /\ u[3] = z
  <2>1. u \in Seq(X) /\ Len(u) = Len(p) + Len(q)
        /\ \A i \in 1 .. Len(p) + Len(q) :
             u[i] = IF i <= Len(p) THEN p[i] ELSE q[i - Len(p)]
    BY <1>1, ConcatProperties, Zenon
  <2>2. 2 + 1 = 3 /\ 1 \in 1 .. 3 /\ 2 \in 1 .. 3 /\ 3 \in 1 .. 3 /\ 1 <= 2 /\ 2 <= 2 /\ ~(3 <= 2)
        /\ 3 - 2 = 1
    OBVIOUS
  <2> QED BY <1>1, <2>1, <2>2, Zenon
<1> HIDE DEF u
<1>3. \A i \in 1 .. Len(u) : u[i] = r[i]
  BY <1>1, <1>2
<1>4. u = r
  BY <1>1, <1>2, <1>3, SeqEqual
<1> QED BY <1>4, Zenon DEF IsTriple, u, p, q, r

\* A client is announced, opened and dismissed in this order.
LEMMA StagesInOrder ==
  ASSUME NEW place \in Places, NEW st, place = "waits" => st = "INIT"
  PROVE  \E o \in {<<"new", "open", "gone">>, <<"new", "gone">>} :
           Web!IsPrefix(FlatMap(Staging, Before(place, st)) \o FlatMap(Staging, After(place)), o)
<1> DEFINE N == <<"new">>
           O == <<"new", "open">>
           G == <<"gone">>
           NG == <<"new", "gone">>
           OG == <<"new", "open", "gone">>
           X == Seq(Whats)
           f == FlatMap(Staging, Before(place, st))
           g == FlatMap(Staging, After(place))
<1>1. "new" \in Whats /\ "open" \in Whats /\ "gone" \in Whats
  BY DEF Whats
<1>2. N \in X /\ O \in X /\ G \in X /\ NG \in X /\ OG \in X /\ <<>> \in X
  BY <1>1
<1>3. N \o G = NG /\ O \o G = OG
  <2>1. IsPair("new", "gone") /\ IsTriple("new", "open", "gone")
    BY <1>1, Pair, Triple, Zenon
  <2> QED BY <2>1, Zenon DEF IsPair, IsTriple
<1>4. /\ f = IF place = "waits" THEN <<>> ELSE IF st = "INIT" THEN N ELSE O
      /\ g = IF place = "left" THEN G ELSE <<>>
  BY Befores
<1> HIDE DEF N, O, G, NG, OG, X, f, g
<1>5. /\ <<>> \o <<>> = <<>> /\ <<>> \o NG = NG /\ N \o <<>> = N /\ O \o <<>> = O
      /\ NG \o <<>> = NG /\ OG \o <<>> = OG
  BY <1>2 DEF X
<1>6. /\ Web!IsPrefix(<<>>, <<>> \o NG) /\ Web!IsPrefix(N, N \o G) /\ Web!IsPrefix(O, O \o G)
      /\ Web!IsPrefix(NG, NG \o <<>>) /\ Web!IsPrefix(OG, OG \o <<>>)
  BY <1>2, PrefixOfJoint, Zenon DEF X
<1>7. /\ Web!IsPrefix(<<>>, NG) /\ Web!IsPrefix(N, NG) /\ Web!IsPrefix(O, OG)
      /\ Web!IsPrefix(NG, NG) /\ Web!IsPrefix(OG, OG)
  BY <1>3, <1>5, <1>6, Zenon
<1>8. place = "waits" \/ place = "served" \/ place = "left"
  BY DEF Places
<1>9. f \o g \in {<<>>, N, O, NG, OG}
  <2>1. CASE place = "waits"
    BY <1>4, <1>5, <2>1
  <2>2. CASE place = "served"
    BY <1>4, <1>5, <2>2
  <2>3. CASE place = "left"
    BY <1>3, <1>4, <2>3
  <2> QED BY <1>8, <2>1, <2>2, <2>3
<1>10. Web!IsPrefix(f \o g, OG) \/ Web!IsPrefix(f \o g, NG)
  BY <1>7, <1>9, Zenon
<1> QED BY <1>10, Zenon DEF f, g, OG, NG

LEMMA EndsOfJoint ==
  ASSUME NEW X, NEW u \in Seq(X), NEW v \in Seq(X)
  PROVE  /\ u \o v \in Seq(X)
         /\ Len(v) = 1 => (u \o v)[Len(u \o v)] = v[1]
         /\ Len(u) = 2 => 2 \in 1 .. Len(u \o v) /\ (u \o v)[2] = u[2]
<1> DEFINE w == u \o v
           n == Len(u)
           k == Len(v)
<1>1. w \in Seq(X) /\ Len(w) = n + k /\ n \in Nat /\ k \in Nat
      /\ \A i \in 1 .. n + k : w[i] = IF i <= n THEN u[i] ELSE v[i - n]
  BY ConcatProperties, LenProperties
<1> HIDE DEF w, n, k
<1>2. ASSUME k = 1 PROVE w[n + k] = v[1]
  <2>1. n + k \in 1 .. n + k /\ ~(n + k <= n) /\ (n + k) - n = 1
    BY <1>1, <1>2
  <2> QED BY <1>1, <2>1, Zenon
<1>3. ASSUME n = 2 PROVE 2 \in 1 .. n + k /\ w[2] = u[2]
  <2>1. 2 \in 1 .. n + k /\ 2 <= n
    BY <1>1, <1>3
  <2> QED BY <1>1, <2>1, Zenon
<1> QED BY <1>1, <1>2, <1>3, Zenon DEF w, n, k

Quiet == {x \in Events : x.what # "gone"}

LEMMA Dismissed ==
  ASSUME NEW place \in Places, NEW st, NEW m \in Seq(AppCalls), NEW ev,
         ev = Told(Before(place, st), m, After(place))
  PROVE  (\E i \in 1 .. Len(ev) : ev[i].what = "gone") => ev[Len(ev)].what = "gone"
<1> DEFINE f == Before(place, st)
           u == f \o m
<1>1. m \in Seq(Quiet)
  <2>1. \A x \in AppCalls : x \in Events /\ x.what # "gone"
    BY TextFacts DEF Stages
  <2>2. AppCalls \subseteq Quiet
    BY <2>1 DEF Quiet
  <2> QED BY <2>2, SeqMonotonic
<1>2. f \in Seq(Quiet)
  <2>1. New \in Quiet /\ Open \in Quiet
    BY StageFacts DEF Quiet
  <2>2. \A x, y \in Quiet : <<>> \in Seq(Quiet) /\ <<x>> \in Seq(Quiet) /\ <<x, y>> \in Seq(Quiet)
    OBVIOUS
  <2> QED BY <2>1, <2>2, Zenon DEF Before
<1> HIDE DEF f
<1>3. u \in Seq(Quiet)
  BY <1>1, <1>2, ConcatProperties
<1>4. ev = u \o After(place)
  BY Zenon DEF Told, f
<1> HIDE DEF u
<1>5. CASE place = "left"
  <2>1. After(place) = <<Gone>>
    BY <1>5, Zenon DEF After
  <2>2. (u \o <<Gone>>)[Len(u \o <<Gone>>)] = Gone
    <3> DEFINE r == <<Gone>>
    <3>1. u \in Seq(Events) /\ r \in Seq(Events) /\ Len(r) = 1 /\ r[1] = Gone
      <4>1. Quiet \subseteq Events
        BY DEF Quiet
      <4> QED BY <1>3, <4>1, SeqMonotonic, StageFacts
    <3> HIDE DEF r
    <3>2. (u \o r)[Len(u \o r)] = r[1]
      BY <3>1, EndsOfJoint, Zenon
    <3> QED BY <3>1, <3>2, Zenon DEF r
  <2> QED BY <1>4, <2>1, <2>2, StageFacts, Zenon
<1>6. CASE place # "left"
  <2>1. After(place) = <<>>
    BY <1>6, Zenon DEF After
  <2>2. ev = u
    BY <1>3, <1>4, <2>1, ConcatEmptySeq
  <2>3. \A i \in 1 .. Len(ev) : ev[i] \in Quiet
    BY <1>3, <2>2, ElementOfSeq
  <2> QED BY <2>3 DEF Quiet
<1> QED BY <1>5, <1>6

LEMMA KeepsFront ==
  ASSUME NEW X, NEW u \in Seq(X), NEW v \in Seq(X), NEW i \in 1 .. Len(u)
  PROVE  i \in 1 .. Len(u \o v) /\ (u \o v)[i] = u[i]
  OBVIOUS

LEMMA Opened ==
  ASSUME NEW place \in Places, NEW st, NEW m \in Seq(AppCalls), NEW ev,
         ev = Told(Before(place, st), m, After(place)), place # "waits", st # "INIT"
  PROVE  \E i \in 1 .. Len(ev) : ev[i].what = "open"
<1> DEFINE f == <<New, Open>>
           a == After(place)
           u == f \o m
<1>1. f \in Seq(Events) /\ Len(f) = 2 /\ f[2] = Open
  BY StageFacts
<1>2. m \in Seq(Events)
  BY TextFacts, SeqMonotonic
<1>3. a \in Seq(Events)
  BY Befores
<1>4. ev = u \o a
  BY Zenon DEF Told, Before
<1> HIDE DEF f, a
<1>5. u \in Seq(Events) /\ 2 \in 1 .. Len(u) /\ u[2] = Open
  <2>1. f \o m \in Seq(Events) /\ 2 \in 1 .. Len(f \o m) /\ (f \o m)[2] = f[2]
    BY <1>1, <1>2, EndsOfJoint
  <2> QED BY <1>1, <2>1, Zenon
<1> HIDE DEF u
<1>6. 2 \in 1 .. Len(u \o a) /\ (u \o a)[2] = Open
  BY <1>3, <1>5, KeepsFront
<1> QED BY <1>4, <1>6, StageFacts, Zenon

\* What MessagesArrive says of one client.
Means(s, w, ev, al, g) ==
  /\ (\A i \in 1 .. Len(ev) : ev[i].what # "open") => FlatMap(Bringing, ev) = <<>>
  /\ al => /\ Web!IsPrefix(FlatMap(Bringing, ev), Ext!FlattenSeq(Asks(s)))
           /\ w = <<>> => FlatMap(Bringing, ev) = Ext!FlattenSeq(Asks(s))
  /\ \E o \in {<<"new", "open", "gone">>, <<"new", "gone">>} :
       Web!IsPrefix(FlatMap(Staging, ev), o)
  /\ (\E i \in 1 .. Len(ev) : ev[i].what = "gone") => ev[Len(ev)].what = "gone"
  /\ g = FlatMap(Replying, FlatMap(Bringing, ev))

LEMMA FineMeans ==
  ASSUME NEW s \in Seq(WebFrames), NEW place \in Places, NEW w, NEW st, NEW b, NEW ev, NEW al, NEW g,
         Fine(s, w, place, st, b, ev, al, g)
  PROVE  ev \in Seq(Events) /\ FlatMap(Bringing, ev) \in Seq(AppCalls) /\ Means(s, w, ev, al, g)
<1>1. PICK m \in Seq(AppCalls) : History(s, w, place, st, b, ev, al, g, m)
  BY Zenon DEF Fine
<1>2. ev = Told(Before(place, st), m, After(place)) /\ (st = "INIT" => m = <<>>)
      /\ g = FlatMap(Replying, m) /\ (al => Followed(s, w, b, m))
  BY <1>1, Zenon DEF History
<1>3. b \in Seq(Nat) /\ (place = "waits" => st = "INIT")
  BY Zenon DEF Fine
<1>4. /\ ev \in Seq(Events) /\ FlatMap(Bringing, ev) = m
      /\ FlatMap(Staging, ev) = FlatMap(Staging, Before(place, st)) \o FlatMap(Staging, After(place))
  <2> DEFINE f == Before(place, st)
             a == After(place)
  <2>1. /\ f \in Seq(Events) /\ a \in Seq(Events)
        /\ FlatMap(Bringing, f) = <<>> /\ FlatMap(Bringing, a) = <<>>
    BY Befores
  <2>2. ev = Told(f, m, a)
    BY <1>2
  <2> HIDE DEF f, a
  <2>3. /\ Told(f, m, a) \in Seq(Events) /\ FlatMap(Bringing, Told(f, m, a)) = m
        /\ FlatMap(Staging, Told(f, m, a)) = FlatMap(Staging, f) \o FlatMap(Staging, a)
    BY <2>1, HistoryMaps
  <2> QED BY <2>2, <2>3, Zenon DEF f, a
<1>5. (\A i \in 1 .. Len(ev) : ev[i].what # "open") => m = <<>>
  BY <1>2, <1>3, Opened, Zenon
<1>6. ASSUME al PROVE Web!IsPrefix(m, Ext!FlattenSeq(Asks(s)))
                      /\ (w = <<>> => m = Ext!FlattenSeq(Asks(s)))
  <2>1. Followed(s, w, b, m)
    BY <1>2, <1>6
  <2>2. Web!IsPrefix(m, Ext!FlattenSeq(Asks(s)))
    BY <2>1, FirstIsPrefix, Zenon DEF Followed
  <2>3. w = <<>> => m = Ext!FlattenSeq(Asks(s))
    BY <1>3, <2>1, FollowedToTheEnd, Zenon
  <2> QED BY <2>2, <2>3
<1>7. \E o \in {<<"new", "open", "gone">>, <<"new", "gone">>} :
        Web!IsPrefix(FlatMap(Staging, ev), o)
  BY <1>3, <1>4, StagesInOrder, Zenon
<1>8. (\E i \in 1 .. Len(ev) : ev[i].what = "gone") => ev[Len(ev)].what = "gone"
  BY <1>2, Dismissed, Zenon
<1> QED BY <1>2, <1>4, <1>5, <1>6, <1>7, <1>8, Zenon DEF Means

\* A client before it is accepted.
LEMMA FineStart ==
  ASSUME NEW s \in Seq(WebFrames)
  PROVE  Fine(s, Web!Request \o Rest(s, 0), "waits", "INIT", <<>>, <<>>, FALSE, <<>>)
<1> DEFINE w == Web!Request \o Rest(s, 0)
<1>1. w \in Seq(Nat)
  <2>1. Web!Request \in Seq(Nat)
    BY DEF Web!Request
  <2>2. Rest(s, 0) \in Seq(Nat)
    BY StreamTypes, StreamParts
  <2> QED BY <2>1, <2>2, ConcatProperties
<1>2. <<>> \in Seq(Nat) /\ <<>> \in Seq(AppCalls) /\ (<<>> \o <<>>) \o <<>> = <<>>
  OBVIOUS
<1>3. FlatMap(Replying, <<>>) = <<>>
  BY FlatMapEmpty
<1>4. Told(Before("waits", "INIT"), <<>>, After("waits")) = <<>>
  <2>1. Before("waits", "INIT") = <<>> /\ After("waits") = <<>>
    BY DEF Before, After
  <2> QED BY <1>2, <2>1, Zenon DEF Told
<1>5. History(s, w, "waits", "INIT", <<>>, <<>>, FALSE, <<>>, <<>>)
  BY <1>3, <1>4, Zenon DEF History
<1>6. \E m \in Seq(AppCalls) : History(s, w, "waits", "INIT", <<>>, <<>>, FALSE, <<>>, m)
  BY <1>2, <1>5, Zenon
<1> QED BY <1>1, <1>2, <1>6, Zenon DEF Fine

LEMMA FineAccept ==
  ASSUME NEW s, NEW w, NEW st, NEW b, NEW ev, NEW al, NEW g,
         Fine(s, w, "waits", st, b, ev, al, g)
  PROVE  Fine(s, w, "served", st, b, <<New>>, al, g)
<1>1. PICK m \in Seq(AppCalls) : History(s, w, "waits", st, b, ev, al, g, m)
  BY Zenon DEF Fine
<1>2. st = "INIT"
  BY Zenon DEF Fine
<1>3. m = <<>> /\ g = FlatMap(Replying, m) /\ (al => Followed(s, w, b, m))
  BY <1>1, <1>2, Zenon DEF History
<1>4. <<New>> = Told(Before("served", st), m, After("served"))
  <2>1. Before("served", st) = <<New>> /\ After("served") = <<>>
    BY <1>2 DEF Before, After
  <2>2. <<New>> \in Seq(Events)
    BY StageFacts
  <2>3. <<New>> \o <<>> = <<New>>
    BY <2>2, ConcatEmptySeq
  <2> QED BY <1>3, <2>1, <2>3, Zenon DEF Told
<1>5. History(s, w, "served", st, b, <<New>>, al, g, m)
  BY <1>3, <1>4, Zenon DEF History
<1>6. \E q \in Seq(AppCalls) : History(s, w, "served", st, b, <<New>>, al, g, q)
  BY <1>5, Zenon
<1>7. "served" # "waits"
  OBVIOUS
<1> QED BY <1>6, <1>7, Zenon DEF Fine

LEMMA FineGone ==
  ASSUME NEW s, NEW w, NEW st, NEW b, NEW ev, NEW al, NEW g,
         Fine(s, w, "served", st, b, ev, al, g)
  PROVE  Fine(s, w, "left", st, b, Append(ev, Gone), al, g)
<1>1. PICK m \in Seq(AppCalls) : History(s, w, "served", st, b, ev, al, g, m)
  BY Zenon DEF Fine
<1>2. ev = Told(Before("served", st), m, After("served"))
      /\ (st = "INIT" => m = <<>>) /\ g = FlatMap(Replying, m) /\ (al => Followed(s, w, b, m))
  BY <1>1, Zenon DEF History
<1>3. Append(ev, Gone) = Told(Before("left", st), m, After("left"))
  <2> DEFINE f == Before("served", st)
             u == f \o m
  <2>1. Before("left", st) = f /\ After("served") = <<>> /\ After("left") = <<Gone>>
    BY DEF Before, After
  <2>2. f \in Seq(Events)
    BY Befores DEF Places
  <2>3. m \in Seq(Events)
    BY TextFacts, SeqMonotonic
  <2> HIDE DEF f
  <2>4. u \in Seq(Events)
    BY <2>2, <2>3, ConcatProperties
  <2>5. ev = u \o <<>>
    BY <1>2, <2>1, Zenon DEF Told, f
  <2> HIDE DEF u
  <2>6. ev = u
    BY <2>4, <2>5, ConcatEmptySeq
  <2>7. Append(u, Gone) = u \o <<Gone>>
    BY <2>4, StageFacts, AppendIsConcat
  <2> QED BY <2>1, <2>6, <2>7, Zenon DEF Told, u
<1>4. History(s, w, "left", st, b, Append(ev, Gone), al, g, m)
  BY <1>2, <1>3, Zenon DEF History
<1>5. \E q \in Seq(AppCalls) : History(s, w, "left", st, b, Append(ev, Gone), al, g, q)
  BY <1>4, Zenon
<1>6. "left" # "waits"
  OBVIOUS
<1> QED BY <1>5, <1>6, Zenon DEF Fine

LEMMA RequestIs ==
  /\ Web!Request \in Seq(Nat) /\ Len(Web!Request) = 4 /\ Web!Request[1] = Start
  /\ \A i \in 2 .. 4 : Web!Request[i] # Start
  /\ Start \notin Byte
<1>1. Web!Request \in Seq(Nat) /\ Len(Web!Request) = 4
  BY DEF Web!Request
<1>2. Web!Request[1] = Start
  BY DEF Web!Request, Start
<1>3. /\ Web!Request[2] = 1002 /\ Web!Request[3] = 1003 /\ Web!Request[4] = 1004
  BY DEF Web!Request
<1>4. ASSUME NEW i \in 2 .. 4 PROVE Web!Request[i] # Start
  <2>1. i = 2 \/ i = 3 \/ i = 4
    OBVIOUS
  <2>2. Web!Request[2] # Start /\ Web!Request[3] # Start /\ Web!Request[4] # Start
    BY <1>3 DEF Start
  <2> QED BY <2>1, <2>2, Zenon
<1>5. Start \notin Byte
  BY Bytes DEF Start
<1> QED BY <1>1, <1>2, <1>4, <1>5

LEMMA StreamIsBytes ==
  ASSUME NEW s \in Seq(WebFrames) PROVE Rest(s, 0) \in Seq(Byte)
<1>1. Rest(s, 0) = Ext!FlattenSeq(Sents(s))
  BY StreamParts
<1>2. DOMAIN s = 1 .. Len(s) /\ Len(s) \in Nat /\ \A i \in 1 .. Len(s) : s[i] \in WebFrames
  BY LenProperties, ElementOfSeq
<1> DEFINE P == Seq(Byte)
<1>3. \A i \in 1 .. Len(s) : Web!Sent(s[i]) \in P
  BY <1>2, SentIs
<1>4. Sents(s) \in Seq(P)
  <2> HIDE DEF P
  <2> QED BY <1>2, <1>3 DEF Sents
<1> QED BY <1>1, <1>4, FlatType

IsTail(v, c, w) == /\ 1 \in 1 .. Len(c) /\ w[1] = c[1]
                   /\ \A i \in 1 .. Len(v) : \E j \in 2 .. Len(w) : v[i] = w[j]

LEMMA TailOfJoint ==
  ASSUME NEW X, NEW c \in Seq(X), NEW v \in Seq(X), c # <<>>
  PROVE  IsTail(v, c, c \o v)
<1>1. 1 \in 1 .. Len(c) /\ (c \o v)[1] = c[1]
  OBVIOUS
<1>2. ASSUME NEW i \in 1 .. Len(v) PROVE \E j \in 2 .. Len(c \o v) : v[i] = (c \o v)[j]
  <2>1. Len(c) + i \in 2 .. Len(c \o v) /\ v[i] = (c \o v)[Len(c) + i]
    OBVIOUS
  <2> QED BY <2>1
<1> QED BY <1>1, <1>2, Zenon DEF IsTail

\* No second request follows the first.
LEMMA OneStart ==
  ASSUME NEW s \in Seq(WebFrames), NEW j \in 2 .. Len(Web!Request \o Rest(s, 0))
  PROVE  (Web!Request \o Rest(s, 0))[j] # Start
<1> DEFINE q == Web!Request
           r == Rest(s, 0)
<1>1. q \in Seq(Nat) /\ Len(q) = 4 /\ \A i \in 2 .. 4 : q[i] # Start
  BY RequestIs
<1>2. r \in Seq(Nat) /\ \A i \in 1 .. Len(r) : r[i] # Start
  <2>1. \A i \in 1 .. Len(r) : r[i] \in Byte
    BY StreamIsBytes, ElementOfSeq
  <2>2. r \in Seq(Nat)
    BY StreamTypes, StreamParts
  <2> QED BY <2>1, <2>2, RequestIs, Zenon
<1> HIDE DEF q, r
<1>3. \A i \in 1 .. Len(q) + Len(r) : (q \o r)[i] = IF i <= Len(q) THEN q[i] ELSE r[i - Len(q)]
  BY <1>1, <1>2, ConcatProperties
<1>4. j \in 2 .. 4 + Len(r) /\ j \in 1 .. Len(q) + Len(r)
  <2>1. j \in 2 .. Len(q \o r)
    BY DEF q, r
  <2>2. Len(q \o r) = Len(q) + Len(r) /\ Len(r) \in Nat
    BY <1>1, <1>2, ConcatProperties, LenProperties
  <2> QED BY <1>1, <2>1, <2>2
<1>5. CASE j <= 4
  <2>1. j \in 2 .. 4
    BY <1>4, <1>5
  <2> QED BY <1>1, <1>3, <1>4, <1>5, <2>1, Zenon DEF q, r
<1>6. CASE ~(j <= 4)
  <2>1. j - 4 \in 1 .. Len(r)
    BY <1>2, <1>4, <1>6, LenProperties
  <2> QED BY <1>1, <1>2, <1>3, <1>4, <1>6, <2>1, Zenon DEF q, r
<1> QED BY <1>5, <1>6

IsPairOf(x, y, X) == /\ <<x>> \in Seq(X) /\ <<x, y>> \in Seq(X)
                     /\ Append(<<x>>, y) = <<x, y>>

LEMMA PairOf == ASSUME NEW X, NEW x \in X, NEW y \in X PROVE IsPairOf(x, y, X)
<1>1. <<x>> \in Seq(X) /\ <<x, y>> \in Seq(X)
  OBVIOUS
<1>2. Append(<<x>>, y) = <<x>> \o <<y>>
  <2> DEFINE p == <<x>>
  <2>1. p \in Seq(X)
    BY <1>1
  <2> HIDE DEF p
  <2> QED BY <2>1, AppendIsConcat
<1>3. IsPair(x, y)
  BY Pair
<1> QED BY <1>1, <1>2, <1>3, Zenon DEF IsPair, IsPairOf

\* A read of a client that is not yet connected.
LEMMA FineRequest ==
  ASSUME NEW s \in Seq(WebFrames), NEW c \in Seq(Nat), NEW v \in Seq(Nat), c # <<>>,
         NEW b, NEW ev, NEW al, NEW g, Fine(s, c \o v, "served", "INIT", b, ev, al, g)
  PROVE  /\ Web!IsPrefix(Web!Request, c) =>
              Fine(s, v, "served", "CONNECTED", b, Append(ev, Open), c = Web!Request, g)
         /\ Fine(s, v, "served", "INIT", b, ev, al, g)
<1> DEFINE w == c \o v
<1>1. PICK m \in Seq(AppCalls) : History(s, w, "served", "INIT", b, ev, al, g, m)
  BY Zenon DEF Fine
<1>2. /\ ~al /\ b = <<>> /\ (w = Web!Request \o Rest(s, 0) \/ NoStart(w))
  BY Zenon DEF Fine
<1>3. /\ ev = Told(Before("served", "INIT"), m, After("served")) /\ m = <<>>
      /\ g = FlatMap(Replying, m)
  BY <1>1, Zenon DEF History
<1>4. /\ 1 \in 1 .. Len(c) /\ w[1] = c[1]
      /\ \A i \in 1 .. Len(v) : \E j \in 2 .. Len(w) : v[i] = w[j]
  <2>1. IsTail(v, c, w)
    BY TailOfJoint
  <2> QED BY <2>1, Zenon DEF IsTail
<1>5. w \in Seq(Nat) /\ Len(w) \in Nat
  BY ConcatProperties, LenProperties
<1>6. NoStart(v)
  <2>1. \A j \in 2 .. Len(w) : w[j] # Start
    <3>1. CASE w = Web!Request \o Rest(s, 0)
      BY <3>1, OneStart
    <3>2. CASE NoStart(w)
      <4>1. \A j \in 2 .. Len(w) : j \in 1 .. Len(w)
        BY <1>5
      <4> QED BY <3>2, <4>1, Zenon DEF NoStart
    <3> QED BY <1>2, <3>1, <3>2
  <2> QED BY <1>4, <2>1, Zenon DEF NoStart
<1>7. Fine(s, v, "served", "INIT", b, ev, al, g)
  <2>1. History(s, v, "served", "INIT", b, ev, al, g, m)
    BY <1>2, <1>3, Zenon DEF History
  <2>2. \E q \in Seq(AppCalls) : History(s, v, "served", "INIT", b, ev, al, g, q)
    BY <2>1, Zenon
  <2>3. b \in Seq(Nat) /\ "served" # "waits"
    BY <1>2
  <2> QED BY <1>2, <1>6, <2>2, <2>3, Zenon DEF Fine
<1>8. ASSUME Web!IsPrefix(Web!Request, c)
      PROVE  Fine(s, v, "served", "CONNECTED", b, Append(ev, Open), c = Web!Request, g)
  <2>1. c[1] = Start
    <3> DEFINE q == Web!Request
    <3>1. q \in Seq(Nat) /\ Len(q) = 4 /\ q[1] = Start
      BY RequestIs
    <3>2. Len(q) <= Len(c) /\ SubSeq(q, 1, Len(q)) = SubSeq(c, 1, Len(q))
      BY <1>8, Zenon DEF Web!IsPrefix
    <3> HIDE DEF q
    <3>3. SubSeq(q, 1, Len(q))[1] = q[1] /\ SubSeq(c, 1, Len(q))[1] = c[1]
      BY <3>1, <3>2
    <3> QED BY <3>1, <3>2, <3>3, Zenon
  <2>2. w = Web!Request \o Rest(s, 0)
    <3>1. 1 \in 1 .. Len(w)
      BY <1>4, <1>5, ConcatProperties, LenProperties
    <3> QED BY <1>2, <1>4, <2>1, <3>1, Zenon DEF NoStart
  <2>3. ASSUME c = Web!Request PROVE Followed(s, v, b, m)
    <3>1. v = Rest(s, 0)
      <4> DEFINE r == Rest(s, 0)
                 d == SubSeq(c, 1 + Len(c), Len(c))
      <4>1. r \in Seq(Nat) /\ c \o v = c \o r
        BY <2>2, <2>3, StreamTypes, StreamParts
      <4> HIDE DEF r
      <4>2. d \o v = r
        <5>1. Len(c) >= Len(c)
          BY LenProperties
        <5> QED BY <4>1, <5>1, Front
      <4>3. d = <<>>
        OBVIOUS
      <4>4. <<>> \o v = v
        OBVIOUS
      <4> QED BY <4>2, <4>3, <4>4, Zenon DEF r
    <3>2. m = First(s, 0) /\ 0 \in 0 .. Len(s)
      BY <1>3, StreamParts, StreamTypes
    <3>3. b \o v = Rest(s, 0)
      BY <1>2, <3>1, ConcatEmptySeq
    <3> QED BY <1>2, <3>2, <3>3, EmptyIsNotWhole, Zenon DEF Followed
  <2>4. Append(ev, Open) = Told(Before("served", "CONNECTED"), m, After("served"))
    <3>1. Before("served", "INIT") = <<New>> /\ Before("served", "CONNECTED") = <<New, Open>>
          /\ After("served") = <<>>
      BY DEF Before, After
    <3>2. /\ <<New>> \in Seq(Events) /\ <<New, Open>> \in Seq(Events)
          /\ Append(<<New>>, Open) = <<New, Open>>
      <4>1. New \in Events /\ Open \in Events
        BY StageFacts
      <4> QED BY <4>1, PairOf, Zenon DEF IsPairOf
    <3>3. <<New>> \o <<>> = <<New>> /\ <<New, Open>> \o <<>> = <<New, Open>>
      BY <3>2, ConcatEmptySeq
    <3> QED BY <1>3, <3>1, <3>2, <3>3, Zenon DEF Told
  <2>5. History(s, v, "served", "CONNECTED", b, Append(ev, Open), c = Web!Request, g, m)
    BY <1>3, <2>3, <2>4, Zenon DEF History
  <2>6. \E q \in Seq(AppCalls) :
          History(s, v, "served", "CONNECTED", b, Append(ev, Open), c = Web!Request, g, q)
    BY <2>5, Zenon
  <2>7. b \in Seq(Nat) /\ "served" # "waits" /\ "CONNECTED" # "INIT"
    BY <1>2
  <2> QED BY <2>6, <2>7, Zenon DEF Fine
<1> QED BY <1>7, <1>8

\* A read of a client that is connected.
LEMMA FineFrames ==
  ASSUME NEW s \in Seq(WebFrames), NEW c \in Seq(Nat), NEW v \in Seq(Nat),
         NEW b, NEW ev, NEW al, NEW g, Fine(s, c \o v, "served", "CONNECTED", b, ev, al, g)
  PROVE  Fine(s, v, "served", "CONNECTED", Web!Consume(b \o c).rest,
              ev \o Web!Consume(b \o c).calls, al,
              g \o FlatMap(Replying, Web!Consume(b \o c).calls))
<1> DEFINE l == Web!Consume(b \o c)
           n == l.calls
<1>1. PICK m \in Seq(AppCalls) : History(s, c \o v, "served", "CONNECTED", b, ev, al, g, m)
  BY Zenon DEF Fine
<1>2. b \in Seq(Nat)
  BY Zenon DEF Fine
<1>3. /\ ev = Told(Before("served", "CONNECTED"), m, After("served"))
      /\ g = FlatMap(Replying, m) /\ (al => Followed(s, c \o v, b, m))
  BY <1>1, Zenon DEF History
<1>4. b \o c \in Seq(Nat)
  BY <1>2, ConcatProperties
<1>5. l \in Lefts /\ ~Web!Whole(l.rest)
  BY <1>4, ConsumeType
<1>6. l.rest \in Seq(Nat) /\ n \in Seq(AppCalls)
  BY <1>5 DEF Lefts
<1> HIDE DEF n
<1>7. m \o n \in Seq(AppCalls)
  BY <1>6, ConcatProperties
<1>8. FlatMap(Replying, m \o n) = g \o FlatMap(Replying, n)
  <2>1. Joins(Replying, m, n)
    BY <1>6, ReplyType, FlatMapConcat
  <2> QED BY <1>3, <2>1, Zenon DEF Joins
<1>9. ev \o n = Told(Before("served", "CONNECTED"), m \o n, After("served"))
  <2> DEFINE f == Before("served", "CONNECTED")
  <2>1. After("served") = <<>>
    BY DEF After
  <2>2. f \in Seq(Events)
    BY Befores DEF Places
  <2>3. m \in Seq(Events) /\ n \in Seq(Events) /\ m \o n \in Seq(Events)
    BY <1>6, <1>7, TextFacts, SeqMonotonic
  <2> HIDE DEF f
  <2>4. f \o m \in Seq(Events) /\ f \o (m \o n) \in Seq(Events)
    BY <2>2, <2>3, ConcatProperties
  <2>5. (f \o m) \o <<>> = f \o m /\ (f \o (m \o n)) \o <<>> = f \o (m \o n)
    BY <2>4, ConcatEmptySeq
  <2>6. Associates(f, m, n)
    BY <2>2, <2>3, Associate
  <2> QED BY <1>3, <2>1, <2>5, <2>6, Zenon DEF Told, Associates, f
<1>10. ASSUME al PROVE Followed(s, v, l.rest, m \o n)
  <2>1. PICK k \in 0 .. Len(s) : m = First(s, k) /\ b \o (c \o v) = Rest(s, k)
    BY <1>3, <1>10, Zenon DEF Followed
  <2>2. (b \o c) \o v = Rest(s, k)
    <3>1. Associates(b, c, v)
      BY <1>2, Associate
    <3> QED BY <2>1, <3>1, Zenon DEF Associates
  <2>3. \E j \in 0 .. Len(s) : l.rest \o v = Rest(s, j) /\ First(s, k) \o n = First(s, j)
    <3> DEFINE x == b \o c
    <3>1. x \in Seq(Nat) /\ x \o v = Rest(s, k)
      BY <1>4, <2>2
    <3> HIDE DEF x
    <3>2. \E j \in 0 .. Len(s) : /\ Web!Consume(x).rest \o v = Rest(s, j)
                                 /\ First(s, k) \o Web!Consume(x).calls = First(s, j)
      BY <3>1, ConsumeFrames
    <3> QED BY <3>2, Zenon DEF x, n
  <2> QED BY <1>5, <2>1, <2>3, Zenon DEF Followed
<1>11. History(s, v, "served", "CONNECTED", l.rest, ev \o n, al, g \o FlatMap(Replying, n), m \o n)
  <2>1. "CONNECTED" # "INIT"
    OBVIOUS
  <2> QED BY <1>8, <1>9, <1>10, <2>1, Zenon DEF History
<1>12. \E q \in Seq(AppCalls) :
         History(s, v, "served", "CONNECTED", l.rest, ev \o n, al, g \o FlatMap(Replying, n), q)
  BY <1>7, <1>11, Zenon
<1>13. "served" # "waits" /\ "CONNECTED" # "INIT"
  OBVIOUS
<1> QED BY <1>6, <1>12, <1>13, Zenon DEF Fine, n

-----------------------------------------------------------------------------
(***************************************************************************)
(* The list of clients.                                                    *)
(***************************************************************************)
Listed(l) == {l[i] : i \in 1 .. Len(l)}
Distinct(l) == \A i, j \in 1 .. Len(l) : l[i] = l[j] => i = j
IsList(l) == l \in Seq(Clients) /\ Distinct(l)

Where(c, p, l) == IF c \in p THEN "waits" ELSE IF c \in Listed(l) THEN "served" ELSE "left"

LEMMA ListAppend ==
  ASSUME NEW l, IsList(l), NEW c \in Clients, c \notin Listed(l)
  PROVE  /\ IsList(Append(l, c)) /\ Listed(Append(l, c)) = Listed(l) \cup {c}
         /\ Len(Append(l, c)) = Len(l) + 1
<1> DEFINE n == Len(l)
           r == Append(l, c)
<1>1. l \in Seq(Clients) /\ n \in Nat
  BY LenProperties DEF IsList
<1>2. r \in Seq(Clients) /\ Len(r) = n + 1 /\ r[n + 1] = c /\ \A i \in 1 .. n : r[i] = l[i]
  BY <1>1, AppendProperties
<1> HIDE DEF r
<1>3. \A i \in 1 .. n + 1 : i \in 1 .. n \/ i = n + 1
  BY <1>1
<1>4. \A i \in 1 .. n : i \in 1 .. n + 1
  BY <1>1
<1>5. n + 1 \in 1 .. n + 1
  BY <1>1
<1>6. Listed(r) = Listed(l) \cup {c}
  <2>1. ASSUME NEW x \in Listed(r) PROVE x \in Listed(l) \cup {c}
    BY <1>2, <1>3 DEF Listed
  <2>2. ASSUME NEW x \in Listed(l) \cup {c} PROVE x \in Listed(r)
    BY <1>2, <1>4, <1>5 DEF Listed
  <2> QED BY <2>1, <2>2
<1>7. \A i \in 1 .. n : l[i] # c
  BY DEF Listed
<1>8. Distinct(r)
  <2> SUFFICES ASSUME NEW i \in 1 .. n + 1, NEW j \in 1 .. n + 1, r[i] = r[j] PROVE i = j
    BY <1>2 DEF Distinct
  <2>1. \A x, y \in 1 .. n : l[x] = l[y] => x = y
    BY DEF IsList, Distinct
  <2> QED BY <1>2, <1>3, <1>7, <2>1, Zenon
<1> QED BY <1>2, <1>6, <1>8 DEF r, IsList

LEMMA ListRemove ==
  ASSUME NEW l, IsList(l), NEW k \in 1 .. Len(l)
  PROVE  /\ IsList(Web!RemoveAt(l, k)) /\ Listed(Web!RemoveAt(l, k)) = Listed(l) \ {l[k]}
         /\ Len(Web!RemoveAt(l, k)) = Len(l) - 1
<1> DEFINE n == Len(l)
           r == Web!RemoveAt(l, k)
           To(i) == IF i < k THEN i ELSE i + 1
<1>1. l \in Seq(Clients) /\ n \in Nat /\ k \in 1 .. n
  BY LenProperties DEF IsList
<1>2. /\ r \in Seq(Clients) /\ Len(r) = n - 1
      /\ \A i \in 1 .. n - 1 : r[i] = l[To(i)]
  <2>1. r = SubSeq(l, 1, k - 1) \o SubSeq(l, k + 1, n)
    BY Zenon DEF Web!RemoveAt
  <2> DEFINE u == SubSeq(l, 1, k - 1)
             v == SubSeq(l, k + 1, n)
  <2>2. u \in Seq(Clients) /\ Len(u) = k - 1 /\ \A i \in 1 .. k - 1 : u[i] = l[i]
    BY <1>1
  <2>3. v \in Seq(Clients) /\ Len(v) = n - k /\ \A i \in 1 .. n - k : v[i] = l[k + i]
    BY <1>1
  <2> HIDE DEF u, v
  <2>4. /\ u \o v \in Seq(Clients) /\ Len(u \o v) = (k - 1) + (n - k)
        /\ \A i \in 1 .. (k - 1) + (n - k) : (u \o v)[i] = IF i <= k - 1 THEN u[i] ELSE v[i - (k - 1)]
    <3>1. /\ u \o v \in Seq(Clients) /\ Len(u \o v) = Len(u) + Len(v)
          /\ \A i \in 1 .. Len(u) + Len(v) : (u \o v)[i] = IF i <= Len(u) THEN u[i] ELSE v[i - Len(u)]
      BY <2>2, <2>3, ConcatProperties
    <3> QED BY <2>2, <2>3, <3>1, Zenon
  <2>5. (k - 1) + (n - k) = n - 1
    BY <1>1
  <2>6. ASSUME NEW i \in 1 .. n - 1 PROVE (u \o v)[i] = l[To(i)]
    <3>1. CASE i < k
      <4>1. i \in 1 .. k - 1 /\ i <= k - 1
        BY <1>1, <3>1
      <4> QED BY <2>2, <2>4, <2>5, <3>1, <4>1, Zenon
    <3>2. CASE ~(i < k)
      <4>1. ~(i <= k - 1) /\ i - (k - 1) \in 1 .. n - k /\ k + (i - (k - 1)) = i + 1
        BY <1>1, <3>2
      <4> QED BY <2>3, <2>4, <2>5, <3>2, <4>1, Zenon
    <3> QED BY <3>1, <3>2
  <2>7. r = u \o v
    BY <2>1 DEF u, v
  <2> HIDE DEF r
  <2> QED BY <2>4, <2>5, <2>6, <2>7, Zenon
<1> HIDE DEF r
<1>3. \A i \in 1 .. n - 1 : To(i) \in 1 .. n /\ To(i) # k
  BY <1>1
<1>4. \A i, j \in 1 .. n - 1 : To(i) = To(j) => i = j
  BY <1>1
<1>5. \A i \in 1 .. n : i # k => \E j \in 1 .. n - 1 : i = To(j)
  <2> SUFFICES ASSUME NEW i \in 1 .. n, i # k PROVE \E j \in 1 .. n - 1 : i = To(j)
    OBVIOUS
  <2>1. CASE i < k
    <3>1. i \in 1 .. n - 1 /\ To(i) = i
      BY <1>1, <2>1
    <3> QED BY <3>1
  <2>2. CASE ~(i < k)
    <3>1. i - 1 \in 1 .. n - 1 /\ To(i - 1) = i
      BY <1>1, <2>2
    <3> QED BY <3>1
  <2> QED BY <2>1, <2>2
<1>6. \A x, y \in 1 .. n : l[x] = l[y] => x = y
  BY DEF IsList, Distinct
<1> HIDE DEF To
<1>7. Listed(r) = Listed(l) \ {l[k]}
  <2>1. ASSUME NEW x \in Listed(r) PROVE x \in Listed(l) \ {l[k]}
    <3>1. PICK i \in 1 .. n - 1 : x = r[i]
      BY <1>2 DEF Listed
    <3> QED BY <1>1, <1>2, <1>3, <1>6, <3>1 DEF Listed
  <2>2. ASSUME NEW x \in Listed(l) \ {l[k]} PROVE x \in Listed(r)
    <3>1. PICK i \in 1 .. n : x = l[i] /\ i # k
      BY DEF Listed
    <3>2. PICK j \in 1 .. n - 1 : i = To(j)
      BY <1>5, <3>1
    <3> QED BY <1>2, <3>1, <3>2 DEF Listed
  <2> QED BY <2>1, <2>2
<1>8. Distinct(r)
  <2> SUFFICES ASSUME NEW i \in 1 .. n - 1, NEW j \in 1 .. n - 1, r[i] = r[j] PROVE i = j
    BY <1>2 DEF Distinct
  <2> QED BY <1>2, <1>3, <1>4, <1>6, Zenon
<1> QED BY <1>2, <1>7, <1>8 DEF r, IsList

-----------------------------------------------------------------------------
(***************************************************************************)
(* The invariant of the server, and its steps.                             *)
(***************************************************************************)
OnClients(f) == f = [c \in Clients |-> f[c]]

FineAt(c, fr, w, p, l, st, b, ev, al, g) ==
  Fine(fr[c], w[c], Where(c, p, l), st[c], b[c], ev[c], al[c], g[c])

AllFine == \A c \in Clients :
             FineAt(c, frames, wire, pending, clients, state, buffer, events, alone, got)

Maps == /\ OnClients(wire) /\ OnClients(state) /\ OnClients(buffer) /\ OnClients(events)
        /\ OnClients(alone) /\ OnClients(got)

WebInv == /\ frames \in Sends
          /\ Maps
          /\ pending \subseteq Clients
          /\ IsList(clients) /\ Listed(clients) \cap pending = {}
          /\ turn \in 0 .. Len(clients)
          /\ AllFine

Changed(f, c, x, g) == /\ OnClients(g) /\ g[c] = x
                       /\ \A d \in Clients : d # c => g[d] = f[d]

LEMMA ExceptOn ==
  ASSUME NEW f, OnClients(f), NEW c \in Clients, NEW x
  PROVE  Changed(f, c, x, [f EXCEPT ![c] = x])
<1>1. DOMAIN f = Clients
  BY Zenon DEF OnClients
<1> QED BY <1>1 DEF OnClients, Changed

LEMMA FramesOf ==
  ASSUME WebInv, NEW c \in Clients PROVE frames[c] \in Seq(WebFrames)
  BY WebAssumption DEF WebInv

LEMMA WhereIs == ASSUME NEW c, NEW p, NEW l PROVE Where(c, p, l) \in Places
<1> DEFINE x == Where(c, p, l)
<1>1. x = "waits" \/ x = "served" \/ x = "left"
  BY Zenon DEF Where
<1> HIDE DEF x
<1>2. x \in Places
  BY <1>1 DEF Places
<1> QED BY <1>2 DEF x

LEMMA WebStarts == Web!Init => WebInv
<1> SUFFICES ASSUME Web!Init PROVE WebInv
  OBVIOUS
<1>1. frames \in Sends /\ \A c \in Clients : frames[c] \in Seq(WebFrames)
  BY WebAssumption DEF Web!Init
<1>2. /\ wire = [c \in Clients |-> Web!Request \o
                   Ext!FlattenSeq([i \in DOMAIN frames[c] |-> Web!Sent(frames[c][i])])]
      /\ pending = Clients /\ clients = <<>> /\ turn = 0
      /\ state = [c \in Clients |-> "INIT"]
      /\ buffer = [c \in Clients |-> <<>>]
      /\ events = [c \in Clients |-> <<>>]
      /\ alone = [c \in Clients |-> FALSE]
      /\ got = [c \in Clients |-> <<>>]
  BY WebFlat, Zenon DEF Web!Init
<1>3. Maps
  BY <1>2 DEF Maps, OnClients
<1>4. IsList(clients) /\ Listed(clients) = {} /\ turn \in 0 .. Len(clients)
  BY <1>2 DEF IsList, Distinct, Listed
<1>5. ASSUME NEW c \in Clients
      PROVE  FineAt(c, frames, wire, pending, clients, state, buffer, events, alone, got)
  <2> DEFINE s == frames[c]
  <2>1. s \in Seq(WebFrames)
    BY <1>1
  <2>2. wire[c] = Web!Request \o Ext!FlattenSeq([i \in DOMAIN frames[c] |-> Web!Sent(frames[c][i])])
    BY <1>2
  <2>3. wire[c] = Web!Request \o Ext!FlattenSeq(Sents(s))
    BY <2>2, Zenon DEF Sents
  <2>4. state[c] = "INIT" /\ buffer[c] = <<>> /\ events[c] = <<>> /\ alone[c] = FALSE
        /\ got[c] = <<>> /\ Where(c, pending, clients) = "waits"
    BY <1>2 DEF Where
  <2> HIDE DEF s
  <2>5. wire[c] = Web!Request \o Rest(s, 0)
    BY <2>1, <2>3, StreamParts, Zenon
  <2>6. Fine(s, Web!Request \o Rest(s, 0), "waits", "INIT", <<>>, <<>>, FALSE, <<>>)
    BY <2>1, FineStart
  <2> QED BY <2>4, <2>5, <2>6, Zenon DEF FineAt, s
<1> QED BY <1>1, <1>2, <1>3, <1>4, <1>5, Zenon DEF WebInv, AllFine

LEMMA SelectFine == WebInv /\ Web!Select => WebInv'
<1> SUFFICES ASSUME WebInv, Web!Select PROVE WebInv'
  OBVIOUS
<1>1. PICK r \in SUBSET Web!ToSet(clients),
           f \in {{}} \cup {{c} : c \in Web!ToSet(clients)} :
        /\ \/ /\ r \cup f # {} /\ UNCHANGED <<pending, clients, events>>
           \/ \E c \in pending :
                /\ pending' = pending \ {c}
                /\ clients' = Append(clients, c)
                /\ events' = [events EXCEPT ![c] = <<Web!Call("new", <<>>)>>]
        /\ turn' = IF r \cup f = {} THEN 0 ELSE 1
  BY Zenon DEF Web!Select
<1>2. UNCHANGED <<frames, wire, state, buffer, alone, got>>
  BY Zenon DEF Web!Select
<1>3. /\ frames \in Sends /\ Maps /\ pending \subseteq Clients /\ IsList(clients)
      /\ Listed(clients) \cap pending = {} /\ AllFine
  BY DEF WebInv
<1>4. clients \in Seq(Clients) /\ Len(clients) \in Nat /\ DOMAIN clients = 1 .. Len(clients)
  BY <1>3, LenProperties DEF IsList
<1>5. r \cup f # {} => Len(clients) >= 1
  <2> SUFFICES ASSUME r \cup f # {} PROVE Len(clients) >= 1
    OBVIOUS
  <2>1. PICK x : x \in Web!ToSet(clients)
    OBVIOUS
  <2>2. \E i \in 1 .. Len(clients) : TRUE
    BY <1>4, <2>1 DEF Web!ToSet
  <2> QED BY <1>4, <2>2
<1>6. frames' \in Sends
  BY <1>2, <1>3
<1>7. CASE UNCHANGED <<pending, clients, events>>
  <2>1. turn' \in 0 .. Len(clients')
    <3>1. clients' = clients
      BY <1>7
    <3>2. turn' = 0 \/ (turn' = 1 /\ Len(clients) >= 1)
      BY <1>1, <1>5
    <3> QED BY <1>4, <3>1, <3>2
  <2>2. AllFine'
    BY <1>2, <1>3, <1>7 DEF AllFine
  <2>3. Maps'
    BY <1>2, <1>3, <1>7 DEF Maps
  <2> QED BY <1>3, <1>6, <1>7, <2>1, <2>2, <2>3 DEF WebInv
<1>8. ASSUME NEW c \in pending,
             pending' = pending \ {c},
             clients' = Append(clients, c),
             events' = [events EXCEPT ![c] = <<Web!Call("new", <<>>)>>]
      PROVE  WebInv'
  <2>1. c \in Clients /\ c \notin Listed(clients)
    BY <1>3
  <2>2. /\ IsList(clients') /\ Listed(clients') = Listed(clients) \cup {c}
        /\ Len(clients') = Len(clients) + 1
    BY <1>3, <1>8, <2>1, ListAppend
  <2>3. Listed(clients') \cap pending' = {} /\ pending' \subseteq Clients
    BY <1>3, <1>8, <2>2
  <2>4. turn' \in 0 .. Len(clients')
    <3>1. turn' = 0 \/ turn' = 1
      BY <1>1
    <3> QED BY <1>4, <2>2, <3>1
  <2>5. /\ OnClients(events') /\ events'[c] = <<New>>
        /\ \A d \in Clients : d # c => events'[d] = events[d]
    <3>1. Changed(events, c, <<New>>, [events EXCEPT ![c] = <<New>>])
      BY <1>3, <2>1, ExceptOn DEF Maps
    <3> QED BY <1>8, <3>1, Zenon DEF Changed, New
  <2>6. Maps'
    BY <1>2, <1>3, <2>5 DEF Maps
  <2>7. ASSUME NEW d \in Clients
        PROVE  FineAt(d, frames, wire, pending', clients', state, buffer, events', alone, got)
    <3>1. FineAt(d, frames, wire, pending, clients, state, buffer, events, alone, got)
      BY <1>3 DEF AllFine
    <3>2. CASE d = c
      <4>1. Where(c, pending, clients) = "waits" /\ Where(c, pending', clients') = "served"
        BY <1>8, <2>2 DEF Where
      <4>2. Fine(frames[c], wire[c], "waits", state[c], buffer[c], events[c], alone[c], got[c])
        BY <3>1, <3>2, <4>1, Zenon DEF FineAt
      <4>3. Fine(frames[c], wire[c], "served", state[c], buffer[c], <<New>>, alone[c], got[c])
        BY <4>2, FineAccept
      <4> QED BY <2>5, <3>2, <4>1, <4>3, Zenon DEF FineAt
    <3>3. CASE d # c
      <4>1. Where(d, pending', clients') = Where(d, pending, clients)
        BY <1>8, <2>2, <3>3 DEF Where
      <4> QED BY <2>5, <3>1, <3>3, <4>1, Zenon DEF FineAt
    <3> QED BY <3>2, <3>3
  <2>8. AllFine'
    BY <1>2, <2>7 DEF AllFine
  <2> QED BY <1>6, <2>2, <2>3, <2>4, <2>6, <2>8 DEF WebInv
<1> QED BY <1>1, <1>7, <1>8

\* A client that is removed from the list, by ReadEnd and by Except.
LEMMA GoneFine ==
  ASSUME WebInv, turn > 0, Web!Gone(clients[turn]), Web!Disconnect(clients[turn])
  PROVE  WebInv'
<1> DEFINE c == clients[turn]
<1>1. /\ frames \in Sends /\ Maps /\ pending \subseteq Clients /\ IsList(clients)
      /\ Listed(clients) \cap pending = {} /\ AllFine /\ turn \in 0 .. Len(clients)
  BY DEF WebInv
<1>2. clients \in Seq(Clients) /\ Len(clients) \in Nat
  BY <1>1, LenProperties DEF IsList
<1>3. turn \in 1 .. Len(clients)
  BY <1>1, <1>2
<1>4. /\ clients' = Web!RemoveAt(clients, turn)
      /\ UNCHANGED <<frames, wire, pending, state, buffer, alone, got>>
  BY Zenon DEF Web!Disconnect
<1>5. turn' = 0 \/ (~(turn > Len(clients')) /\ turn' = turn)
  BY Zenon DEF Web!Disconnect, Web!GoOn
<1>6. events' = [events EXCEPT ![c] = Append(@, Web!Call("gone", <<>>))]
  BY Zenon DEF Web!Gone
<1>7. c \in Clients /\ c \in Listed(clients)
  BY <1>2, <1>3, ElementOfSeq DEF Listed
<1>8. /\ IsList(clients') /\ Listed(clients') = Listed(clients) \ {c}
      /\ Len(clients') = Len(clients) - 1
  BY <1>1, <1>3, <1>4, ListRemove
<1> HIDE DEF c
<1>9. turn' \in 0 .. Len(clients')
  BY <1>2, <1>3, <1>5, <1>8
<1>10. /\ OnClients(events') /\ events'[c] = Append(events[c], Gone)
       /\ \A d \in Clients : d # c => events'[d] = events[d]
  <2>1. events' = [events EXCEPT ![c] = Append(events[c], Gone)]
    BY <1>6 DEF Gone
  <2> DEFINE x == Append(events[c], Gone)
  <2>2. Changed(events, c, x, [events EXCEPT ![c] = x])
    BY <1>1, <1>7, ExceptOn DEF Maps
  <2> QED BY <2>1, <2>2, Zenon DEF Changed
<1>11. Maps'
  BY <1>1, <1>4, <1>10 DEF Maps
<1>12. ASSUME NEW d \in Clients
       PROVE  FineAt(d, frames, wire, pending, clients', state, buffer, events', alone, got)
  <2>1. FineAt(d, frames, wire, pending, clients, state, buffer, events, alone, got)
    BY <1>1 DEF AllFine
  <2>2. CASE d = c
    <3>1. Where(c, pending, clients) = "served" /\ Where(c, pending, clients') = "left"
      BY <1>1, <1>7, <1>8 DEF Where
    <3>2. Fine(frames[c], wire[c], "served", state[c], buffer[c], events[c], alone[c], got[c])
      BY <2>1, <2>2, <3>1, Zenon DEF FineAt
    <3>3. Fine(frames[c], wire[c], "left", state[c], buffer[c], Append(events[c], Gone),
               alone[c], got[c])
      BY <3>2, FineGone
    <3> QED BY <1>10, <2>2, <3>1, <3>3, Zenon DEF FineAt
  <2>3. CASE d # c
    <3>1. Where(d, pending, clients') = Where(d, pending, clients)
      BY <1>8, <2>3 DEF Where
    <3> QED BY <1>10, <2>1, <2>3, <3>1, Zenon DEF FineAt
  <2> QED BY <2>2, <2>3
<1>13. AllFine'
  BY <1>4, <1>12 DEF AllFine
<1>14. Listed(clients') \cap pending' = {} /\ pending' \subseteq Clients /\ frames' \in Sends
  BY <1>1, <1>4, <1>8
<1> QED BY <1>8, <1>9, <1>11, <1>13, <1>14 DEF WebInv

IsSplit(w, c, v) == c \in Seq(Nat) /\ v \in Seq(Nat) /\ c # <<>> /\ c \o v = w

LEMMA Split ==
  ASSUME NEW w \in Seq(Nat), NEW k \in 1 .. Len(w)
  PROVE  IsSplit(w, SubSeq(w, 1, k), SubSeq(w, k + 1, Len(w)))
<1> DEFINE c == SubSeq(w, 1, k)
           v == SubSeq(w, k + 1, Len(w))
<1>1. c \in Seq(Nat) /\ v \in Seq(Nat) /\ Len(c) = k
  OBVIOUS
<1>2. c # <<>>
  <2> HIDE DEF c, v
  <2> QED BY <1>1
<1>3. c \o v = w
  <2>1. 1 \in 1 .. Len(w) + 1 /\ k \in 1 - 1 .. Len(w) /\ Len(w) \in k .. Len(w)
    BY LenProperties
  <2>2. c \o v = SubSeq(w, 1, Len(w))
    BY <2>1, ConcatAdjacentSubSeq
  <2>3. SubSeq(w, 1, Len(w)) = w
    BY SubSeqFull
  <2> QED BY <2>2, <2>3, Zenon
<1> QED BY <1>1, <1>2, <1>3, Zenon DEF IsSplit

LEMMA Replies ==
  ASSUME NEW n \in Seq(AppCalls)
  PROVE  Ext!FlattenSeq([i \in DOMAIN n |-> Web!Answer(n[i])]) = FlatMap(Replying, n)
<1>1. \A i \in DOMAIN n : n[i] \in AppCalls
  BY LenProperties, ElementOfSeq
<1>2. [i \in DOMAIN n |-> Web!Answer(n[i])] = [i \in DOMAIN n |-> Replying[n[i]]]
  BY <1>1 DEF Replying
<1> QED BY <1>2, Zenon DEF FlatMap, Map

\* What a read of a client does to it.
LEMMA ReceiveFine ==
  ASSUME WebInv, NEW c \in Clients, c \in Listed(clients), Web!Receive(c),
         UNCHANGED <<frames, pending, clients>>
  PROVE  Maps' /\ AllFine'
<1>1. /\ frames \in Sends /\ Maps /\ Listed(clients) \cap pending = {} /\ AllFine
  BY DEF WebInv
<1>2. PICK k \in 1 .. Len(wire[c]) :
        /\ Web!OnClientRead(c, SubSeq(wire[c], 1, k))
        /\ wire' = [wire EXCEPT ![c] = SubSeq(wire[c], k + 1, Len(wire[c]))]
  BY DEF Web!Receive
<1> DEFINE w == wire[c]
           h == SubSeq(w, 1, k)
           v == SubSeq(w, k + 1, Len(w))
           s == frames[c]
           Same(f, d) == f'[d] = f[d]
<1>3. s \in Seq(WebFrames)
  BY FramesOf
<1>4. Where(c, pending, clients) = "served"
  BY <1>1 DEF Where
<1>5. Fine(s, w, "served", state[c], buffer[c], events[c], alone[c], got[c])
  <2>1. FineAt(c, frames, wire, pending, clients, state, buffer, events, alone, got)
    BY <1>1 DEF AllFine
  <2> QED BY <1>4, <2>1, Zenon DEF FineAt
<1>6. w \in Seq(Nat) /\ state[c] \in {"INIT", "CONNECTED"}
  BY <1>5, Zenon DEF Fine
<1>7. h \in Seq(Nat) /\ v \in Seq(Nat) /\ h # <<>> /\ h \o v = w
  <2>1. IsSplit(w, h, v)
    BY <1>6, Split
  <2> QED BY <2>1, Zenon DEF IsSplit
<1>8. Changed(wire, c, v, wire')
  <2>1. wire' = [wire EXCEPT ![c] = v]
    BY <1>2
  <2>2. OnClients(wire)
    BY <1>1 DEF Maps
  <2> HIDE DEF v
  <2> QED BY <2>1, <2>2, ExceptOn
<1>9. Web!OnClientRead(c, h)
  BY <1>2
<1> HIDE DEF h, v, w, s
<1>10. /\ Maps'
       /\ Fine(s, v, "served", state'[c], buffer'[c], events'[c], alone'[c], got'[c])
       /\ \A d \in Clients : d # c => /\ state'[d] = state[d] /\ buffer'[d] = buffer[d]
                                      /\ events'[d] = events[d] /\ alone'[d] = alone[d]
                                      /\ got'[d] = got[d]
  <2>1. CASE state[c] = "INIT"
    <3>1. Web!ReadRequest(c, h)
      BY <1>9, <2>1, Zenon DEF Web!OnClientRead
    <3>2. Fine(s, h \o v, "served", "INIT", buffer[c], events[c], alone[c], got[c])
      BY <1>5, <1>7, <2>1, Zenon
    <3>3. /\ Web!IsPrefix(Web!Request, h) =>
               Fine(s, v, "served", "CONNECTED", buffer[c], Append(events[c], Open),
                    h = Web!Request, got[c])
          /\ Fine(s, v, "served", "INIT", buffer[c], events[c], alone[c], got[c])
      BY <1>3, <1>7, <3>2, FineRequest
    <3>4. UNCHANGED <<buffer, got>>
      BY <3>1, Zenon DEF Web!ReadRequest
    <3>5. CASE Web!IsPrefix(Web!Request, h)
      <4> DEFINE x == Append(events[c], Open)
                 y == h = Web!Request
      <4>1. /\ state' = [state EXCEPT ![c] = "CONNECTED"]
            /\ events' = [events EXCEPT ![c] = x]
            /\ alone' = [alone EXCEPT ![c] = y]
        BY <3>1, <3>5, Zenon DEF Web!ReadRequest, Open
      <4>2. /\ Changed(state, c, "CONNECTED", state')
            /\ Changed(events, c, x, events')
            /\ Changed(alone, c, y, alone')
        <5>1. OnClients(state) /\ OnClients(events) /\ OnClients(alone)
          BY <1>1 DEF Maps
        <5> HIDE DEF x, y
        <5>2. Changed(state, c, "CONNECTED", state')
          BY <4>1, <5>1, ExceptOn
        <5>3. Changed(events, c, x, events')
          BY <4>1, <5>1, ExceptOn
        <5>4. Changed(alone, c, y, alone')
          BY <4>1, <5>1, ExceptOn
        <5> QED BY <5>2, <5>3, <5>4
      <4>3. Fine(s, v, "served", "CONNECTED", buffer[c], x, y, got[c])
        BY <3>3, <3>5, Zenon
      <4> HIDE DEF x, y
      <4>4. Maps'
        BY <1>1, <1>8, <3>4, <4>2, Zenon DEF Maps, Changed
      <4>5. Fine(s, v, "served", state'[c], buffer'[c], events'[c], alone'[c], got'[c])
        BY <3>4, <4>2, <4>3, Zenon DEF Changed
      <4> QED BY <3>4, <4>2, <4>4, <4>5, Zenon DEF Changed
    <3>6. CASE ~Web!IsPrefix(Web!Request, h)
      <4>1. UNCHANGED <<state, events, alone>>
        BY <3>1, <3>6, Zenon DEF Web!ReadRequest
      <4>2. Maps'
        BY <1>1, <1>8, <3>4, <4>1, Zenon DEF Maps, Changed
      <4>3. Fine(s, v, "served", state'[c], buffer'[c], events'[c], alone'[c], got'[c])
        BY <2>1, <3>3, <3>4, <4>1, Zenon
      <4> QED BY <3>4, <4>1, <4>2, <4>3, Zenon
    <3> QED BY <3>5, <3>6
  <2>2. CASE state[c] # "INIT"
    <3> DEFINE l == Web!Consume(buffer[c] \o h)
               b == l.rest
               e == events[c] \o l.calls
               g == got[c] \o FlatMap(Replying, l.calls)
    <3>1. Web!ReadFrames(c, h)
      BY <1>9, <2>2, Zenon DEF Web!OnClientRead
    <3>2. Fine(s, h \o v, "served", "CONNECTED", buffer[c], events[c], alone[c], got[c])
      <4>1. state[c] = "CONNECTED"
        BY <1>6, <2>2
      <4> QED BY <1>5, <1>7, <4>1, Zenon
    <3>3. Fine(s, v, "served", "CONNECTED", b, e, alone[c], g)
      BY <1>3, <1>7, <3>2, FineFrames
    <3>4. l.calls \in Seq(AppCalls)
      <4>1. buffer[c] \in Seq(Nat)
        BY <3>2, Zenon DEF Fine
      <4>2. buffer[c] \o h \in Seq(Nat)
        BY <1>7, <4>1, ConcatProperties
      <4>3. l \in Lefts
        BY <4>2, ConsumeType
      <4> QED BY <4>3 DEF Lefts
    <3>5. /\ buffer' = [buffer EXCEPT ![c] = b]
          /\ events' = [events EXCEPT ![c] = e]
          /\ got' = [got EXCEPT ![c] = got[c] \o
                       Ext!FlattenSeq([i \in DOMAIN l.calls |-> Web!Answer(l.calls[i])])]
          /\ UNCHANGED <<state, alone>>
      BY <3>1, WebFlat, Zenon DEF Web!ReadFrames
    <3>6. got' = [got EXCEPT ![c] = g]
      BY <3>4, <3>5, Replies, Zenon
    <3>7. /\ Changed(buffer, c, b, buffer')
          /\ Changed(events, c, e, events')
          /\ Changed(got, c, g, got')
      <4>1. OnClients(buffer) /\ OnClients(events) /\ OnClients(got)
        BY <1>1 DEF Maps
      <4> HIDE DEF b, e, g
      <4>2. Changed(buffer, c, b, buffer')
        BY <3>5, <4>1, ExceptOn
      <4>3. Changed(events, c, e, events')
        BY <3>5, <4>1, ExceptOn
      <4>4. Changed(got, c, g, got')
        BY <3>6, <4>1, ExceptOn
      <4> QED BY <4>2, <4>3, <4>4
    <3>8. state'[c] = "CONNECTED" /\ UNCHANGED <<state, alone>>
      BY <1>6, <2>2, <3>5
    <3> HIDE DEF b, e, g
    <3>9. Maps'
      BY <1>1, <1>8, <3>7, <3>8, Zenon DEF Maps, Changed
    <3>10. Fine(s, v, "served", state'[c], buffer'[c], events'[c], alone'[c], got'[c])
      BY <3>3, <3>7, <3>8, Zenon DEF Changed
    <3> QED BY <3>7, <3>8, <3>9, <3>10, Zenon DEF Changed
  <2> QED BY <2>1, <2>2
<1>11. ASSUME NEW d \in Clients
       PROVE  FineAt(d, frames, wire', pending, clients, state', buffer', events', alone', got')
  <2>1. CASE d = c
    <3>1. wire'[c] = v
      BY <1>8, Zenon DEF Changed
    <3> QED BY <1>4, <1>10, <2>1, <3>1, Zenon DEF FineAt, s
  <2>2. CASE d # c
    <3>1. FineAt(d, frames, wire, pending, clients, state, buffer, events, alone, got)
      BY <1>1 DEF AllFine
    <3>2. wire'[d] = wire[d]
      BY <1>8, <2>2, Zenon DEF Changed
    <3> QED BY <1>10, <2>2, <3>1, <3>2, Zenon DEF FineAt
  <2> QED BY <2>1, <2>2
<1> QED BY <1>10, <1>11 DEF AllFine

LEMMA ReadFine == WebInv /\ Web!Read => WebInv'
<1> SUFFICES ASSUME WebInv, Web!Read PROVE WebInv'
  OBVIOUS
<1> DEFINE c == clients[turn]
<1>1. /\ turn > 0 /\ Web!Receive(c) /\ UNCHANGED <<frames, pending, clients>>
      /\ turn' = 0 \/ (~(turn + 1 > Len(clients)) /\ turn' = turn + 1)
  BY Zenon DEF Web!Read, Web!GoOn
<1>2. /\ frames \in Sends /\ pending \subseteq Clients /\ IsList(clients)
      /\ Listed(clients) \cap pending = {} /\ turn \in 0 .. Len(clients)
  BY DEF WebInv
<1>3. clients \in Seq(Clients) /\ Len(clients) \in Nat
  BY <1>2, LenProperties DEF IsList
<1>4. turn \in 1 .. Len(clients) /\ turn' \in 0 .. Len(clients)
  BY <1>1, <1>2, <1>3
<1>5. c \in Clients /\ c \in Listed(clients)
  BY <1>3, <1>4, ElementOfSeq DEF Listed
<1> HIDE DEF c
<1>6. Maps' /\ AllFine'
  BY <1>1, <1>5, ReceiveFine
<1> QED BY <1>1, <1>2, <1>4, <1>6 DEF WebInv

LEMMA ReadAndExceptFine == WebInv /\ Web!ReadAndExcept => WebInv'
<1> SUFFICES ASSUME WebInv, Web!ReadAndExcept PROVE WebInv'
  OBVIOUS
<1> DEFINE c == clients[turn]
<1>1. turn > 0 /\ Web!Receive(c) /\ UNCHANGED <<frames, pending, clients, turn>>
  BY Zenon DEF Web!ReadAndExcept
<1>2. /\ frames \in Sends /\ pending \subseteq Clients /\ IsList(clients)
      /\ Listed(clients) \cap pending = {} /\ turn \in 0 .. Len(clients)
  BY DEF WebInv
<1>3. clients \in Seq(Clients) /\ Len(clients) \in Nat
  BY <1>2, LenProperties DEF IsList
<1>4. turn \in 1 .. Len(clients)
  BY <1>1, <1>2, <1>3
<1>5. c \in Clients /\ c \in Listed(clients)
  BY <1>3, <1>4, ElementOfSeq DEF Listed
<1> HIDE DEF c
<1>6. Maps' /\ AllFine'
  BY <1>1, <1>5, ReceiveFine
<1> QED BY <1>1, <1>2, <1>6 DEF WebInv

LEMMA PassFine == WebInv /\ Web!Pass => WebInv'
<1> SUFFICES ASSUME WebInv, Web!Pass PROVE WebInv'
  OBVIOUS
<1>1. /\ UNCHANGED <<frames, wire, pending, clients, state, buffer, events, alone, got>>
      /\ turn' = 0 \/ (~(turn + 1 > Len(clients)) /\ turn' = turn + 1)
  BY Zenon DEF Web!Pass, Web!GoOn
<1>2. IsList(clients) /\ turn \in 0 .. Len(clients)
  BY DEF WebInv
<1>3. Len(clients) \in Nat
  BY <1>2, LenProperties DEF IsList
<1>4. turn' \in 0 .. Len(clients')
  BY <1>1, <1>2, <1>3
<1> QED BY <1>1, <1>4 DEF WebInv, Maps, AllFine

LEMMA WebKeeps == WebInv /\ [Web!Next]_(Web!vars) => WebInv'
<1> SUFFICES ASSUME WebInv, [Web!Next]_(Web!vars) PROVE WebInv'
  OBVIOUS
<1>1. CASE Web!Select
  BY <1>1, SelectFine
<1>2. CASE Web!ReadEnd
  BY <1>2, GoneFine DEF Web!ReadEnd
<1>3. CASE Web!Read
  BY <1>3, ReadFine
<1>4. CASE Web!Except
  BY <1>4, GoneFine DEF Web!Except
<1>5. CASE Web!ReadAndExcept
  BY <1>5, ReadAndExceptFine
<1>6. CASE Web!Pass
  BY <1>6, PassFine
<1>7. CASE UNCHANGED Web!vars
  BY <1>7 DEF WebInv, Maps, AllFine, Web!vars
<1> QED BY <1>1, <1>2, <1>3, <1>4, <1>5, <1>6, <1>7, Zenon DEF Web!Next

\* What the calls of a client are taken for is what MessagesArrive says of them.
LEMMA MeaningOfCalls ==
  ASSUME NEW e \in Seq(Events), NEW r \in Seq(AppCalls), r = FlatMap(Bringing, e)
  PROVE  /\ Ext!FlattenSeq([i \in DOMAIN e |-> IF Web!Bring(e[i]) THEN <<e[i]>> ELSE <<>>]) = r
         /\ Ext!FlattenSeq([i \in DOMAIN e |-> IF Web!Bring(e[i]) THEN <<>> ELSE <<e[i].what>>])
              = FlatMap(Staging, e)
<1>1. \A i \in DOMAIN e : e[i] \in Events
  BY LenProperties, ElementOfSeq
<1>2. [i \in DOMAIN e |-> IF Web!Bring(e[i]) THEN <<e[i]>> ELSE <<>>]
        = [i \in DOMAIN e |-> Bringing[e[i]]]
  BY <1>1 DEF Bringing
<1>3. [i \in DOMAIN e |-> IF Web!Bring(e[i]) THEN <<>> ELSE <<e[i].what>>]
        = [i \in DOMAIN e |-> Staging[e[i]]]
  BY <1>1 DEF Staging
<1> QED BY <1>2, <1>3, Zenon DEF FlatMap, Map

IsWhat(q, e) == /\ Len(q) = Len(e) /\ DOMAIN q = 1 .. Len(e)
                /\ \A i \in 1 .. Len(e) : q[i] = e[i].what

LEMMA WhatIs ==
  ASSUME NEW e \in Seq(Events) PROVE IsWhat([i \in DOMAIN e |-> e[i].what], e)
<1>1. DOMAIN e = 1 .. Len(e) /\ Len(e) \in Nat
  BY LenProperties
<1>2. \A i \in 1 .. Len(e) : e[i].what \in Whats
  <2>1. \A i \in 1 .. Len(e) : e[i] \in Events
    BY ElementOfSeq
  <2> QED BY <2>1 DEF Events, Whats
<1> DEFINE q == [i \in DOMAIN e |-> e[i].what]
<1>3. DOMAIN q = 1 .. Len(e) /\ \A i \in 1 .. Len(e) : q[i] = e[i].what
  BY <1>1
<1>4. Len(q) = Len(e)
  <2> HIDE DEF q
  <2> QED BY <1>1, <1>3
<1> QED BY <1>3, <1>4, Zenon DEF IsWhat

LEMMA WebDelivers == WebInv => WebMessagesArrive
<1> SUFFICES ASSUME WebInv, NEW c \in Clients
             PROVE  /\ "open" \notin Web!ToSet(Web!What(c)) => Web!Core(c) = <<>>
                    /\ alone[c] => /\ Web!IsPrefix(Web!Core(c), Web!Messages(c))
                                   /\ wire[c] = <<>> => Web!Core(c) = Web!Messages(c)
                    /\ \E o \in {<<"new", "open", "gone">>, <<"new", "gone">>} :
                         Web!IsPrefix(Web!Stages(c), o)
                    /\ "gone" \in Web!ToSet(Web!What(c)) => Web!Last(Web!What(c)) = "gone"
                    /\ got[c] = Ext!FlattenSeq([i \in DOMAIN Web!Core(c) |->
                                                  Web!Answer(Web!Core(c)[i])])
  BY WebFlat, Zenon DEF WebMessagesArrive, Web!MessagesArrive
<1> DEFINE s == frames[c]
           w == wire[c]
           e == events[c]
           r == FlatMap(Bringing, e)
           q == Web!What(c)
           place == Where(c, pending, clients)
<1>1. s \in Seq(WebFrames) /\ place \in Places
  BY FramesOf, WhereIs
<1>2. e \in Seq(Events) /\ r \in Seq(AppCalls) /\ Means(s, w, e, alone[c], got[c])
  <2>1. Fine(s, w, place, state[c], buffer[c], e, alone[c], got[c])
    <3>1. FineAt(c, frames, wire, pending, clients, state, buffer, events, alone, got)
      BY DEF WebInv, AllFine
    <3> QED BY <3>1, Zenon DEF FineAt
  <2> HIDE DEF s, w, e, place
  <2> QED BY <1>1, <2>1, FineMeans
<1>3. Web!Messages(c) = Ext!FlattenSeq(Asks(s))
  BY WebFlat, Zenon DEF Web!Messages, Asks
<1>4. Web!Core(c) = r /\ Web!Stages(c) = FlatMap(Staging, e)
  <2>1. /\ Web!Core(c) = Ext!FlattenSeq([i \in DOMAIN e |->
                           IF Web!Bring(e[i]) THEN <<e[i]>> ELSE <<>>])
        /\ Web!Stages(c) = Ext!FlattenSeq([i \in DOMAIN e |->
                             IF Web!Bring(e[i]) THEN <<>> ELSE <<e[i].what>>])
    BY WebFlat, Zenon DEF Web!Core, Web!Stages
  <2> HIDE DEF e, r
  <2>2. r = FlatMap(Bringing, e)
    BY Zenon DEF r
  <2>3. /\ Ext!FlattenSeq([i \in DOMAIN e |-> IF Web!Bring(e[i]) THEN <<e[i]>> ELSE <<>>]) = r
        /\ Ext!FlattenSeq([i \in DOMAIN e |-> IF Web!Bring(e[i]) THEN <<>> ELSE <<e[i].what>>])
             = FlatMap(Staging, e)
    BY <1>2, <2>2, MeaningOfCalls, Zenon
  <2> QED BY <2>1, <2>3, Zenon
<1>5. /\ Len(q) = Len(e) /\ DOMAIN q = 1 .. Len(e)
      /\ \A i \in 1 .. Len(e) : q[i] = e[i].what
  <2>1. IsWhat(q, e)
    BY <1>2, WhatIs, Zenon DEF Web!What
  <2> QED BY <2>1, Zenon DEF IsWhat
<1>6. Ext!FlattenSeq([i \in DOMAIN r |-> Web!Answer(r[i])]) = FlatMap(Replying, r)
  BY <1>2, Replies, Zenon
<1> HIDE DEF s, w, e, r, q
<1>7. ("open" \notin Web!ToSet(q) => r = <<>>)
  <2>1. (\A i \in 1 .. Len(e) : e[i].what # "open") => r = <<>>
    BY <1>2, Zenon DEF Means, r
  <2> QED BY <1>5, <2>1, Zenon DEF Web!ToSet
<1>8. "gone" \in Web!ToSet(q) => Web!Last(q) = "gone"
  <2> SUFFICES ASSUME "gone" \in Web!ToSet(q) PROVE Web!Last(q) = "gone"
    OBVIOUS
  <2>1. \E i \in 1 .. Len(e) : e[i].what = "gone"
    BY <1>5 DEF Web!ToSet
  <2>2. e[Len(e)].what = "gone"
    BY <1>2, <2>1, Zenon DEF Means
  <2>3. Len(e) \in 1 .. Len(e)
    BY <1>2, <2>1, LenProperties
  <2> QED BY <1>5, <2>2, <2>3, Zenon DEF Web!Last
<1>9. /\ alone[c] => /\ Web!IsPrefix(r, Ext!FlattenSeq(Asks(s)))
                     /\ w = <<>> => r = Ext!FlattenSeq(Asks(s))
      /\ \E o \in {<<"new", "open", "gone">>, <<"new", "gone">>} :
           Web!IsPrefix(FlatMap(Staging, e), o)
      /\ got[c] = FlatMap(Replying, r)
  BY <1>2, Zenon DEF Means, r
<1>10. /\ "open" \notin Web!ToSet(Web!What(c)) => Web!Core(c) = <<>>
       /\ "gone" \in Web!ToSet(Web!What(c)) => Web!Last(Web!What(c)) = "gone"
  BY <1>4, <1>7, <1>8, Zenon DEF q
<1>11. /\ alone[c] => /\ Web!IsPrefix(Web!Core(c), Web!Messages(c))
                      /\ wire[c] = <<>> => Web!Core(c) = Web!Messages(c)
       /\ \E o \in {<<"new", "open", "gone">>, <<"new", "gone">>} :
            Web!IsPrefix(Web!Stages(c), o)
  BY <1>3, <1>4, <1>9, Zenon DEF w
<1>12. got[c] = Ext!FlattenSeq([i \in DOMAIN Web!Core(c) |-> Web!Answer(Web!Core(c)[i])])
  BY <1>4, <1>6, <1>9, Zenon
<1> QED BY <1>10, <1>11, <1>12

\* However TCP splits and joins what clients send and whenever connections end, the
\* application of a client gets its messages unmasked, once and in order, and the
\* client gets its texts back (on_client_read of cf_websocket_server.c).
THEOREM ApplicationGetsItsMessages == Web!Spec => []WebMessagesArrive
<1>1. Web!Spec => []WebInv
  BY WebStarts, WebKeeps, PTL DEF Web!Spec
<1> QED BY <1>1, WebDelivers, PTL
=============================================================================
