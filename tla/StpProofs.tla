----------------------------- MODULE StpProofs -----------------------------
(***************************************************************************)
(* What Stp promises about connections, frames, answers and uploads, for   *)
(* any number of clients, files of any length and buffers of any size.     *)
(* The invariant looks at the flow of each client: the frame the server is *)
(* reading, with its size put back in front, and what follows on the way   *)
(* to the server.  Reading changes no flow until a frame is complete, and  *)
(* then takes away the whole of it, however the stream was cut.            *)
(***************************************************************************)
EXTENDS Stp, SequenceTheorems, FiniteSetTheorems, TLAPS

Sizes == [kind : {"size"}, n : Nat]
Modes == [kind : {"mode"}, n : {0, 1}]
Chunks == [kind : {"data"}, n : Nat]
Atoms == Sizes \cup Modes \cup Chunks \cup Asks

-----------------------------------------------------------------------------
\* Sequences of frames.
Body(b) ==
    /\ Len(b) >= 2
    /\ \/ b[1] = Mode(0) /\ Len(b) = 2 /\ b[2].kind = "json"
       \/ /\ b[1] = Mode(1) /\ Len(b) <= Chunk + 1
          /\ \A i \in 2 .. Len(b) : b[i].kind = "data"

\* At i a frame starts or t ends; what follows the size is as it should be, as far
\* as it has come.
Starts(t, i) == i <= Len(t) => t[i].kind = "size"

Frame(t, i) ==
    /\ t[i].n >= 2
    /\ Starts(t, i + t[i].n + 1)
    /\ i + 1 <= Len(t) =>
         \/ /\ t[i + 1] = Mode(0) /\ t[i].n = 2
            /\ i + 2 <= Len(t) => t[i + 2].kind = "json"
         \/ /\ t[i + 1] = Mode(1) /\ t[i].n <= Chunk + 1
            /\ \A j \in i + 2 .. i + t[i].n : j <= Len(t) => t[j].kind = "data"

Framed(t) ==
    /\ Starts(t, 1)
    /\ \A i \in 1 .. Len(t) : t[i].kind = "size" => Frame(t, i)

Complete(t) ==
    \A i \in 1 .. Len(t) : t[i].kind = "size" => i + t[i].n <= Len(t)

Framing(b) == <<Size(Len(b))>> \o b

LEMMA Kinds ==
  /\ \A a \in Atoms : a.kind = "size" => a.n \in Nat /\ a = Size(a.n)
  /\ \A a \in Atoms : a.kind = "json" => a \in Asks
  /\ \A n \in Nat : Size(n) \in Atoms /\ Size(n).kind = "size" /\ Size(n).n = n
  /\ \A n \in {0, 1} : Mode(n) \in Atoms /\ Mode(n).kind = "mode" /\ Mode(n).n = n
  /\ Mode(0) # Mode(1)
  /\ \A n \in Nat : Data(n) \in Chunks
  /\ \A a \in Chunks : a.kind = "data" /\ a \in Atoms
  /\ \A a \in Asks : a.kind = "json" /\ a \in Atoms
  BY DEF Atoms, Sizes, Modes, Chunks, Asks, Size, Mode, Data

LEMMA Joined ==
  ASSUME NEW p \in Seq(Atoms), NEW q \in Seq(Atoms)
  PROVE  /\ p \o q \in Seq(Atoms)
         /\ Len(p \o q) = Len(p) + Len(q) /\ Len(p) \in Nat /\ Len(q) \in Nat
         /\ \A i \in 1 .. Len(p) : (p \o q)[i] = p[i]
         /\ \A i \in 1 .. Len(q) : (p \o q)[Len(p) + i] = q[i]
  OBVIOUS

LEMMA Group == \A p, q, r \in Seq(Atoms) : (p \o q) \o r = p \o (q \o r)
  BY ConcatAssociative

\* What is left of a flow that is cut.
LEMMA CutFramed ==
  ASSUME NEW p \in Seq(Atoms), NEW q \in Seq(Atoms), Framed(p \o q)
  PROVE  Framed(p)
  <1> DEFINE t == p \o q
  <1>1. /\ Len(t) = Len(p) + Len(q)
        /\ \A i \in 1 .. Len(p) : t[i] = p[i] /\ p[i] \in Atoms
    OBVIOUS
  <1>2. \A i \in 1 .. Len(p) : p[i].kind = "size" => p[i].n \in Nat
    BY <1>1, Kinds
  <1>3. ASSUME NEW i \in Int, i >= 1, Starts(t, i) PROVE Starts(p, i)
    BY <1>1, <1>3 DEF Starts
  <1>4. ASSUME NEW i \in 1 .. Len(p), p[i].kind = "size" PROVE Frame(p, i)
    <2>1. Frame(t, i) /\ t[i] = p[i] /\ p[i].n \in Nat
      BY <1>1, <1>2, <1>4 DEF Framed
    <2> HIDE DEF t
    <2>2. Starts(p, i + p[i].n + 1)
      BY <1>3, <2>1 DEF Frame
    <2> QED BY <1>1, <2>1, <2>2 DEF Frame
  <1> QED BY <1>1, <1>3, <1>4 DEF Framed

\* A frame may follow a complete flow.
LEMMA SendFramed ==
  ASSUME NEW t \in Seq(Atoms), NEW b \in Seq(Atoms), Framed(t), Complete(t), Body(b)
  PROVE  /\ t \o Framing(b) \in Seq(Atoms)
         /\ Framed(t \o Framing(b)) /\ Complete(t \o Framing(b))
  <1> DEFINE L == Len(t)
             u == t \o Framing(b)
  <1>1. /\ Framing(b) \in Seq(Atoms) /\ Len(Framing(b)) = Len(b) + 1
        /\ Framing(b)[1] = Size(Len(b))
        /\ \A i \in 1 .. Len(b) : Framing(b)[i + 1] = b[i]
    BY Kinds DEF Framing
  <1> HIDE DEF Framing
  <1>2. /\ u \in Seq(Atoms) /\ Len(u) = L + 1 + Len(b)
        /\ \A i \in 1 .. L : u[i] = t[i]
        /\ u[L + 1] = Size(Len(b))
        /\ \A i \in 1 .. Len(b) : u[L + 1 + i] = b[i]
    <2>1. /\ u \in Seq(Atoms) /\ Len(u) = L + Len(Framing(b))
          /\ L \in Nat /\ Len(b) \in Nat
          /\ \A i \in 1 .. L : u[i] = t[i]
          /\ \A i \in 1 .. Len(Framing(b)) : u[L + i] = Framing(b)[i]
      BY <1>1, Joined
    <2>2. ASSUME NEW i \in 1 .. Len(b) PROVE u[L + 1 + i] = b[i]
      <3>1. i + 1 \in 1 .. Len(Framing(b)) /\ L + (i + 1) = L + 1 + i
        BY <1>1, <2>1
      <3> QED BY <1>1, <2>1, <3>1
    <2>3. u[L + 1] = Framing(b)[1]
      BY <1>1, <2>1
    <2> QED BY <1>1, <2>1, <2>2, <2>3
  <1> HIDE DEF u
  <1>3. \A i \in 1 .. Len(b) : b[i].kind # "size"
    BY Kinds DEF Body
  <1>4. L \in Nat /\ Len(b) \in Nat
    OBVIOUS
  <1>5. \A i \in 1 .. L : u[i].kind = "size" =>
          /\ Frame(t, i) /\ i + t[i].n <= L /\ t[i].n \in Nat /\ u[i] = t[i]
    BY <1>2, Kinds DEF Framed, Complete
  <1>6. \A i \in 1 .. Len(u) : u[i].kind = "size" => i \in 1 .. L \/ i = L + 1
    <2> SUFFICES ASSUME NEW i \in 1 .. Len(u), i \notin 1 .. L, i # L + 1
                 PROVE  u[i].kind # "size"
      OBVIOUS
    <2>1. i - L - 1 \in 1 .. Len(b) /\ i = L + 1 + (i - L - 1)
      BY <1>2, <1>4
    <2> QED BY <1>2, <1>3, <2>1
  <1>7. ASSUME NEW i \in 1 .. L, u[i].kind = "size" PROVE Frame(u, i)
    <2>1. /\ Frame(t, i) /\ i + t[i].n <= L /\ t[i].n \in Nat /\ u[i] = t[i]
          /\ t[i].n >= 2
      BY <1>5, <1>7 DEF Frame
    <2>2. \A j \in 1 .. L : u[j] = t[j]
      BY <1>2
    <2>3. Starts(u, i + u[i].n + 1)
      <3>1. CASE i + t[i].n = L
        BY <1>2, <1>4, <2>1, <3>1, Kinds DEF Starts
      <3>2. CASE i + t[i].n < L
        BY <1>4, <2>1, <2>2, <3>2 DEF Starts, Frame
      <3> QED BY <1>4, <2>1, <3>1, <3>2
    <2>4. i + 1 \in 1 .. L /\ i + 2 \in 1 .. L /\ \A j \in i + 2 .. i + t[i].n : j \in 1 .. L
      BY <1>4, <2>1
    <2>5. u[i + 1] = t[i + 1] /\ u[i + 2] = t[i + 2]
      BY <2>2, <2>4
    <2>6. CASE t[i + 1] = Mode(0)
      BY <1>2, <1>4, <2>1, <2>2, <2>3, <2>4, <2>5, <2>6, Kinds DEF Frame
    <2>7. CASE t[i + 1] # Mode(0)
      <3>1. /\ t[i + 1] = Mode(1) /\ t[i].n <= Chunk + 1
            /\ \A j \in i + 2 .. i + t[i].n : t[j].kind = "data"
        BY <2>1, <2>4, <2>7 DEF Frame
      <3>2. \A j \in i + 2 .. i + u[i].n : u[j].kind = "data"
        BY <2>1, <2>2, <2>4, <3>1
      <3> QED BY <2>1, <2>3, <2>5, <3>1, <3>2 DEF Frame
    <2> QED BY <2>6, <2>7
  <1>8. Frame(u, L + 1)
    <2>1. u[L + 1].n = Len(b) /\ Len(b) >= 2 /\ u[L + 2] = b[1]
      BY <1>2, <1>4, Kinds DEF Body
    <2>2. Starts(u, L + 1 + Len(b) + 1)
      BY <1>2, <1>4 DEF Starts
    <2>3. \A j \in L + 3 .. L + 1 + Len(b) :
            j - L - 1 \in 2 .. Len(b) /\ u[j] = b[j - L - 1]
      <3> TAKE j \in L + 3 .. L + 1 + Len(b)
      <3>1. j - L - 1 \in 2 .. Len(b) /\ j = L + 1 + (j - L - 1)
        BY <1>4
      <3> QED BY <1>2, <3>1
    <2>4. CASE b[1] = Mode(0)
      BY <1>2, <1>4, <2>1, <2>2, <2>3, <2>4, Kinds DEF Body, Frame
    <2>5. CASE b[1] # Mode(0)
      <3>1. /\ b[1] = Mode(1) /\ Len(b) <= Chunk + 1
            /\ \A j \in 2 .. Len(b) : b[j].kind = "data"
        BY <2>5 DEF Body
      <3>2. \A j \in L + 1 + 2 .. L + 1 + Len(b) : u[j].kind = "data"
        BY <1>4, <2>3, <3>1
      <3> QED BY <1>4, <2>1, <2>2, <3>1, <3>2 DEF Frame
    <2> QED BY <2>4, <2>5
  <1>9. Framed(u)
    <2>1. Starts(u, 1)
      BY <1>2, <1>4, Kinds DEF Framed, Starts
    <2> QED BY <1>6, <1>7, <1>8, <2>1 DEF Framed
  <1>10. Complete(u)
    <2> SUFFICES ASSUME NEW i \in 1 .. Len(u), u[i].kind = "size"
                 PROVE  i + u[i].n <= Len(u)
      BY DEF Complete
    <2>1. CASE i \in 1 .. L
      BY <1>2, <1>4, <1>5, <2>1
    <2>2. CASE i = L + 1
      BY <1>2, <1>4, <2>2, Kinds
    <2> QED BY <1>6, <2>1, <2>2
  <1> QED BY <1>2, <1>9, <1>10 DEF u

\* The frame at the front, when all of it is there, can be taken away.
LEMMA TakeFramed ==
  ASSUME NEW b \in Seq(Atoms), NEW u \in Seq(Atoms), Framed(Framing(b) \o u)
  PROVE  /\ Body(b) /\ Framed(u)
         /\ Complete(Framing(b) \o u) => Complete(u)
  <1> DEFINE t == Framing(b) \o u
             L == Len(b) + 1
  <1>1. /\ Framing(b) \in Seq(Atoms) /\ Len(Framing(b)) = L
        /\ Framing(b)[1] = Size(Len(b))
        /\ \A i \in 1 .. Len(b) : Framing(b)[i + 1] = b[i]
    BY Kinds DEF Framing
  <1> HIDE DEF Framing
  <1>2. /\ t \in Seq(Atoms) /\ Len(t) = L + Len(u)
        /\ t[1] = Size(Len(b))
        /\ \A i \in 1 .. Len(b) : t[i + 1] = b[i]
        /\ \A i \in 1 .. Len(u) : t[L + i] = u[i] /\ u[i] \in Atoms
        /\ Len(b) \in Nat /\ Len(u) \in Nat
    <2>1. /\ t \in Seq(Atoms) /\ Len(t) = L + Len(u) /\ L \in Nat
          /\ \A i \in 1 .. L : t[i] = Framing(b)[i]
          /\ \A i \in 1 .. Len(u) : t[L + i] = u[i]
      <3> DEFINE f == Framing(b)
      <3>1. f \in Seq(Atoms) /\ Len(f) = L
        BY <1>1
      <3> HIDE DEF f
      <3>2. /\ f \o u \in Seq(Atoms) /\ Len(f \o u) = Len(f) + Len(u)
            /\ \A i \in 1 .. Len(f) : (f \o u)[i] = f[i]
            /\ \A i \in 1 .. Len(u) : (f \o u)[Len(f) + i] = u[i]
        BY <3>1, Joined
      <3>3. Len(f) \in Nat
        BY <3>1
      <3> QED BY <3>1, <3>2, <3>3 DEF f
    <2>2. Len(b) \in Nat /\ Len(u) \in Nat /\ \A i \in 1 .. Len(u) : u[i] \in Atoms
      OBVIOUS
    <2> QED BY <1>1, <2>1, <2>2
  <1>3. Framed(t)
    OBVIOUS
  <1> HIDE DEF t
  <1>4. Frame(t, 1) /\ t[1].n = Len(b)
    <2>1. t[1].kind = "size" /\ t[1].n = Len(b) /\ 1 \in 1 .. Len(t)
      BY <1>2, Kinds
    <2> QED BY <1>3, <2>1 DEF Framed
  <1>5. Body(b)
    <2>1. Len(b) >= 2 /\ t[2] = b[1] /\ t[3] = b[2]
      <3>1. Len(b) >= 2
        BY <1>4 DEF Frame
      <3>2. t[1 + 1] = b[1] /\ t[2 + 1] = b[2]
        BY <1>2, <3>1
      <3> QED BY <3>1, <3>2
    <2>2. ASSUME NEW i \in 2 .. Len(b)
          PROVE  i + 1 \in 3 .. 1 + Len(b) /\ t[i + 1] = b[i]
      <3>1. i \in 1 .. Len(b) /\ i + 1 \in 3 .. 1 + Len(b)
        BY <1>2
      <3> QED BY <1>2, <3>1
    <2>3. CASE b[1] = Mode(0)
      BY <1>2, <1>4, <2>1, <2>3, Kinds DEF Frame, Body
    <2>4. CASE b[1] # Mode(0)
      <3>1. /\ t[2] = Mode(1) /\ Len(b) <= Chunk + 1
            /\ \A j \in 3 .. 1 + Len(b) : t[j].kind = "data"
        BY <1>2, <1>4, <2>1, <2>4 DEF Frame
      <3>2. \A i \in 2 .. Len(b) : b[i].kind = "data"
        BY <2>2, <3>1
      <3> QED BY <2>1, <3>1, <3>2 DEF Body
    <2> QED BY <2>3, <2>4
  <1>6. ASSUME NEW i \in Int, i >= 1, Starts(t, L + i) PROVE Starts(u, i)
    BY <1>2, <1>6 DEF Starts
  <1>7. Starts(u, 1)
    <2>1. Starts(t, L + 1)
      BY <1>2, <1>4 DEF Frame
    <2> QED BY <1>6, <2>1
  <1>8. ASSUME NEW i \in 1 .. Len(u), u[i].kind = "size"
        PROVE  Frame(u, i) /\ (Complete(t) => i + u[i].n <= Len(u))
    <2>1. L + i \in 1 .. Len(t) /\ t[L + i] = u[i] /\ u[i].n \in Nat
      BY <1>2, <1>8, Kinds
    <2>2. Frame(t, L + i) /\ (Complete(t) => L + i + u[i].n <= Len(t))
      BY <1>3, <1>8, <2>1 DEF Framed, Complete
    <2>3. Starts(u, i + u[i].n + 1)
      <3> DEFINE k == i + u[i].n + 1
      <3>1. Starts(t, L + i + t[L + i].n + 1) /\ L + i + t[L + i].n + 1 = L + k
        BY <1>2, <2>1, <2>2 DEF Frame
      <3>2. k \in Int /\ k >= 1 /\ Starts(t, L + k)
        BY <1>2, <2>1, <3>1
      <3> HIDE DEF k
      <3>3. Starts(u, k)
        BY <1>6, <3>2
      <3> QED BY <3>3 DEF k
    <2>4. \A j \in 1 .. Len(u) : t[L + j] = u[j]
      BY <1>2
    <2>5. /\ i + 1 <= Len(u) => t[L + i + 1] = u[i + 1] /\ L + i + 1 <= Len(t)
          /\ i + 2 <= Len(u) => t[L + i + 2] = u[i + 2] /\ L + i + 2 <= Len(t)
      <3>1. L + i + 1 = L + (i + 1) /\ L + i + 2 = L + (i + 2)
        BY <1>2
      <3> QED BY <1>2, <2>4, <3>1
    <2>6. \A j \in i + 2 .. i + u[i].n : j <= Len(u) =>
            /\ L + j \in L + i + 2 .. L + i + u[i].n
            /\ L + j <= Len(t) /\ t[L + j] = u[j]
      BY <1>2, <2>1, <2>4
    <2>7. Frame(u, i)
      <3>1. CASE i + 1 > Len(u)
        BY <1>2, <2>1, <2>2, <2>3, <3>1 DEF Frame
      <3>2. CASE i + 1 <= Len(u) /\ u[i + 1] = Mode(0)
        BY <1>2, <2>1, <2>2, <2>3, <2>5, <3>2, Kinds DEF Frame
      <3>3. CASE i + 1 <= Len(u) /\ u[i + 1] # Mode(0)
        BY <1>2, <2>1, <2>2, <2>3, <2>5, <2>6, <3>3 DEF Frame
      <3> QED BY <1>2, <3>1, <3>2, <3>3
    <2> QED BY <1>2, <2>1, <2>2, <2>7
  <1>9. Framed(u) /\ (Complete(t) => Complete(u))
    BY <1>7, <1>8 DEF Framed, Complete
  <1> QED BY <1>5, <1>9 DEF t

-----------------------------------------------------------------------------
(***************************************************************************)
(* The invariant.                                                          *)
(***************************************************************************)
Types ==
    /\ pc \in {"select", "accept", "walk", "body", "handle", "write", "lost"}
    /\ list \in Seq(Clients) /\ backlog \in Seq(Clients)
    /\ ready \subseteq Clients \cup {Listener}
    /\ pos \in Nat \ {0}
    /\ pending \in Nat /\ vec \in Seq(Atoms) /\ answer \in Answers
    /\ link \in [Clients -> {"none", "queued", "up"}]
    /\ out \in [Clients -> Seq(Atoms)]
    /\ stream \in [Clients -> Seq(Atoms)]
    /\ back \in [Clients -> Seq(Answers)]
    /\ cpc \in [Clients -> {"off", "idle", "reply"}]
    /\ seq \in [Clients -> 0 .. SeqModulus - 1]
    /\ asked \in [Clients -> Asks]
    /\ left \in [Clients -> Seq(Chunks)]

\* Each connection is in one place, and the server is at one of those it listed.
Once(s) == \A i, j \in 1 .. Len(s) : s[i] = s[j] => i = j

Placed ==
    /\ Once(list) /\ Once(backlog)
    /\ \A c \in Clients : link[c] = "up" <=> Contains(list, c)
    /\ \A c \in Clients : link[c] = "queued" <=> Contains(backlog, c)
    /\ pc \in {"body", "handle", "write", "lost"} => pos <= Len(list)
    /\ pc = "accept" /\ Listener \in ready => backlog # << >>

\* A connection that was closed is empty.
Away == \A c \in Clients :
    link[c] = "none" => cpc[c] = "off" /\ out[c] = << >> /\ stream[c] = << >>

\* The frame the server is reading, and all that follows.
Taken(c) == IF pc = "body" /\ Current = c THEN <<Size(Len(vec) + pending)>> \o vec
                                          ELSE << >>
Flow(c) == Taken(c) \o (stream[c] \o out[c])

\* The flow of a client is made of frames, and ends inside one only when an
\* unreliable client has vanished.
Flows ==
    /\ \A c \in Clients : Framed(Flow(c))
    /\ \A c \in Clients :
         c \notin Unreliable \/ cpc[c] # "off" => Complete(Flow(c))
    /\ pc = "body" => pending > 0
    /\ pc = "handle" => Body(vec)
    /\ pc = "lost" => Current \in Unreliable

\* A request is in one place at a time: in the flow, in the hands of the server,
\* or answered.
HasAsk(t) == \E i \in 1 .. Len(t) : t[i].kind = "json"
Asking(c) == HasAsk(Flow(c))
Answering(c) ==
    \/ pc = "write" /\ Current = c
    \/ pc = "handle" /\ Current = c /\ vec[1] = Mode(0)
OneAsk(t, a) ==
    /\ \A i, j \in 1 .. Len(t) : t[i].kind = "json" /\ t[j].kind = "json" => i = j
    /\ \A i \in 1 .. Len(t) : t[i].kind = "json" => t[i] = a

Turn(c) ==
    /\ cpc[c] # "reply" => back[c] = << >>
    /\ cpc[c] = "idle" => ~ Asking(c) /\ ~ Answering(c)
    /\ cpc[c] = "reply" =>
         /\ OneAsk(Flow(c), asked[c])
         /\ Asking(c) => ~ Answering(c) /\ back[c] = << >>
         /\ Answering(c) =>
              /\ back[c] = << >>
              /\ pc = "handle" => vec[2] = asked[c]
              /\ pc = "write" => answer.n = asked[c].n
         /\ back[c] # << >> => Len(back[c]) = 1 /\ back[c][1].n = asked[c].n

Turns == \A c \in Clients : Turn(c)

IInv == Types /\ Placed /\ Away /\ Flows /\ Turns

-----------------------------------------------------------------------------
(***************************************************************************)
(* Types and places.                                                       *)
(***************************************************************************)
LEMMA Removed ==
  ASSUME NEW S, NEW s \in Seq(S), NEW i \in 1 .. Len(s)
  PROVE  /\ RemoveAt(s, i) \in Seq(S)
         /\ Len(RemoveAt(s, i)) = Len(s) - 1
         /\ \A j \in 1 .. Len(s) - 1 :
              RemoveAt(s, i)[j] = IF j < i THEN s[j] ELSE s[j + 1]
  <1> DEFINE p == SubSeq(s, 1, i - 1)
             q == SubSeq(s, i + 1, Len(s))
  <1>1. /\ p \in Seq(S) /\ Len(p) = i - 1 /\ \A j \in 1 .. i - 1 : p[j] = s[j]
    BY SubSeqProperties
  <1>2. /\ q \in Seq(S) /\ Len(q) = Len(s) - i
        /\ \A j \in 1 .. Len(s) - i : q[j] = s[i + j]
    BY SubSeqProperties
  <1>3. RemoveAt(s, i) = p \o q
    BY DEF RemoveAt
  <1> HIDE DEF p, q
  <1>4. /\ p \o q \in Seq(S) /\ Len(p \o q) = Len(s) - 1
        /\ \A j \in 1 .. Len(s) - 1 :
             (p \o q)[j] = IF j < i THEN p[j] ELSE q[j - (i - 1)]
    BY <1>1, <1>2, ConcatProperties
  <1>5. ASSUME NEW j \in 1 .. Len(s) - 1, j >= i PROVE q[j - (i - 1)] = s[j + 1]
    <2>1. j - (i - 1) \in 1 .. Len(s) - i /\ i + (j - (i - 1)) = j + 1
      BY <1>5
    <2> QED BY <1>2, <2>1
  <1> QED BY <1>1, <1>3, <1>4, <1>5

LEMMA Part ==
  ASSUME NEW S, NEW s \in Seq(S), NEW k \in Nat, k <= Len(s)
  PROVE  SubSeq(s, 1, k) \in Seq(S) /\ SubSeq(s, k + 1, Len(s)) \in Seq(S)
  OBVIOUS

LEMMA AskLength == \A a \in Asks : a.len \in Nat
  <1>1. \A n \in Lengths \cup {0} : n \in Nat
    BY LengthAssumption
  <1>2. \A a \in Asks : a.len \in Lengths \cup {0}
    BY DEF Asks
  <1> QED BY <1>1, <1>2

LEMMA Files == ASSUME NEW n \in Nat PROVE File(n) \in Seq(Chunks)
  <1>1. \A i \in 1 .. n : Data(i) \in Chunks
    BY Kinds
  <1> QED BY <1>1 DEF File

LEMMA Bodies ==
  ASSUME NEW b \in Seq(Atoms), Body(b)
  PROVE  /\ b[1] = Mode(0) \/ b[1] = Mode(1)
         /\ b[1] = Mode(0) => Len(b) = 2 /\ b[2] \in Asks
         /\ b[1] = Mode(1) => /\ Len(b) \in 2 .. Chunk + 1
                              /\ \A i \in 2 .. Len(b) : b[i].kind = "data"
  BY Kinds, ChunkAssumption DEF Body

\* The client whose frame is read or handled, and the head of its flow.
LEMMA AtCurrent ==
  ASSUME Types, Placed, pos <= Len(list)
  PROVE  /\ Current \in Clients /\ link[Current] = "up"
         /\ stream[Current] \in Seq(Atoms) /\ out[Current] \in Seq(Atoms)
  <1>1. pos \in 1 .. Len(list) /\ list[pos] \in Clients
    BY DEF Types
  <1> QED BY <1>1 DEF Types, Placed, Contains, Current

LEMMA HeaderAtHead ==
  ASSUME IInv, AtReady, stream[Current] # << >>
  PROVE  /\ Current \in Clients
         /\ Head(stream[Current]) = Size(Head(stream[Current]).n)
         /\ Head(stream[Current]).n \in Nat /\ Head(stream[Current]).n >= 2
  <1> DEFINE c == Current
             s == stream[c]
  <1>1. c \in Clients /\ s \in Seq(Atoms) /\ out[c] \in Seq(Atoms) /\ s # << >>
    BY AtCurrent DEF IInv, AtReady
  <1>2. Flow(c) = s \o out[c]
    <2>1. Taken(c) = << >> /\ s \o out[c] \in Seq(Atoms)
      BY <1>1, Joined DEF AtReady, Taken
    <2> QED BY <2>1, ConcatEmptySeq DEF Flow
  <1> HIDE DEF c, s
  <1>3. s[1] \in Atoms /\ Head(s) = s[1] /\ Len(Flow(c)) >= 1 /\ Flow(c)[1] = s[1]
    BY <1>1, <1>2, Joined
  <1>4. Framed(Flow(c)) /\ Len(Flow(c)) \in Nat
    BY <1>1, <1>2, Joined DEF IInv, Flows
  <1>5. s[1].kind = "size" /\ Frame(Flow(c), 1)
    BY <1>3, <1>4 DEF Framed, Starts
  <1> QED BY <1>1, <1>3, <1>5, Kinds DEF Frame, c, s

LEMMA ClientTypes ==
  ASSUME IInv, NEW c \in Clients, ClientStep(c)
  PROVE  Types'
  <1> USE DEF IInv, Types
  <1>1. CASE Connect(c)
    BY <1>1 DEF Connect, serverVars, contexts
  <1>2. ASSUME NEW topic \in Topics \cup {Upload}, NEW size \in Lengths \cup {0},
               Request(c, topic, size)
        PROVE  Types'
    <2> DEFINE ask == Ask(topic, seq[c], size)
    <2>1. ask \in Asks
      BY DEF Ask, Asks
    <2>2. <<Size(2), Mode(0), ask>> \in Seq(Atoms)
      BY <2>1, Kinds
    <2>3. out'[c] \in Seq(Atoms) /\ out' = [out EXCEPT ![c] = out'[c]]
      <3>1. out' = [out EXCEPT ![c] = @ \o <<Size(Len(<<Mode(0), ask>>))>> \o <<Mode(0), ask>>]
        BY <1>2 DEF Request, Send
      <3>2. Size(Len(<<Mode(0), ask>>)) \in Atoms /\ Mode(0) \in Atoms /\ ask \in Atoms
        BY <2>1, Kinds
      <3> QED BY <3>1, <3>2
    <2>4. (seq[c] + 1) % SeqModulus \in 0 .. SeqModulus - 1
      BY ModulusAssumption
    <2> QED BY <1>2, <2>1, <2>3, <2>4 DEF Request, serverVars, contexts
  <1>3. CASE Receive(c)
    <2>1. NoAsk \in Asks
      BY ModulusAssumption DEF NoAsk, Ask, Asks
    <2>2. \A n \in Nat : File(n) \in Seq(Chunks)
      BY Files
    <2>3. asked[c].len \in Nat
      BY AskLength
    <2>4. Tail(back[c]) \in Seq(Answers)
      BY <1>3 DEF Receive
    <2> QED BY <1>3, <2>1, <2>2, <2>3, <2>4 DEF Receive, serverVars, contexts
  <1>4. CASE SendChunk(c)
    <2> DEFINE k == IF Len(left[c]) > Chunk THEN Chunk ELSE Len(left[c])
               body == <<Mode(1)>> \o SubSeq(left[c], 1, k)
    <2>1. k \in Nat /\ k <= Len(left[c])
      BY ChunkAssumption
    <2>2. /\ SubSeq(left[c], 1, k) \in Seq(Chunks)
          /\ SubSeq(left[c], k + 1, Len(left[c])) \in Seq(Chunks)
      BY <2>1, Part
    <2>3. /\ left' = [left EXCEPT ![c] = SubSeq(@, k + 1, Len(@))]
          /\ out' = [out EXCEPT ![c] = @ \o <<Size(Len(body))>> \o body]
          /\ UNCHANGED <<serverVars, backlog, link, stream, back, cpc, seq, asked>>
      BY <1>4 DEF SendChunk, Send
    <2> HIDE DEF k
    <2>4. body \in Seq(Atoms)
      <3>1. Chunks \subseteq Atoms /\ Mode(1) \in Atoms
        BY Kinds
      <3>2. SubSeq(left[c], 1, k) \in Seq(Atoms)
        BY <2>2, <3>1, SeqMonotonic
      <3> QED BY <3>1, <3>2
    <2>5. Size(Len(body)) \in Atoms
      BY <2>4, Kinds
    <2> HIDE DEF body
    <2>6. out'[c] \in Seq(Atoms) /\ out' = [out EXCEPT ![c] = out'[c]]
      BY <2>3, <2>4, <2>5
    <2> QED BY <2>2, <2>3, <2>6 DEF serverVars, contexts
  <1>5. CASE Close(c)
    BY <1>5, ModulusAssumption DEF Close, serverVars, contexts
  <1>6. CASE Vanish(c)
    <2>1. NoAsk \in Asks
      BY ModulusAssumption DEF NoAsk, Ask, Asks
    <2> QED BY <1>6, <2>1, ModulusAssumption DEF Vanish, serverVars, contexts
  <1>7. CASE Deliver(c)
    <2>1. PICK k \in 1 .. Len(out[c]) :
            /\ stream' = [stream EXCEPT ![c] = @ \o SubSeq(out[c], 1, k)]
            /\ out' = [out EXCEPT ![c] = SubSeq(@, k + 1, Len(@))]
      BY <1>7 DEF Deliver
    <2>2. /\ SubSeq(out[c], 1, k) \in Seq(Atoms)
          /\ SubSeq(out[c], k + 1, Len(out[c])) \in Seq(Atoms)
      BY Part
    <2>3. stream[c] \o SubSeq(out[c], 1, k) \in Seq(Atoms)
      BY <2>2
    <2> QED BY <1>7, <2>1, <2>2, <2>3 DEF Deliver, serverVars, contexts, clientVars
  <1> QED BY <1>1, <1>2, <1>3, <1>4, <1>5, <1>6, <1>7 DEF ClientStep

LEMMA DropTypes ==
  ASSUME IInv, pos <= Len(list), Drop(Current)
  PROVE  Types'
  <1> DEFINE c == Current
  <1>0. Types /\ Placed
    BY DEF IInv
  <1>1. c \in Clients /\ pos \in 1 .. Len(list)
    <2>1. c \in Clients
      BY <1>0, AtCurrent
    <2> QED BY <1>0, <2>1 DEF Types
  <1>2. RemoveAt(list, pos) \in Seq(Clients)
    BY <1>0, <1>1, Removed DEF Types
  <1>3. NoAnswer \in Answers
    BY ModulusAssumption DEF NoAnswer, Answers
  <1> HIDE DEF c
  <1>4. /\ pc' = "walk" /\ link' = [link EXCEPT ![c] = "none"]
        /\ list' = RemoveAt(list, pos) /\ answer' = NoAnswer
        /\ out' = [out EXCEPT ![c] = << >>]
        /\ stream' = [stream EXCEPT ![c] = << >>]
        /\ back' = [back EXCEPT ![c] = << >>]
        /\ UNCHANGED <<ready, pos, pending, vec, backlog, clientVars>>
    BY DEF Drop, Forget, c
  <1>5. /\ out' \in [Clients -> Seq(Atoms)] /\ stream' \in [Clients -> Seq(Atoms)]
        /\ back' \in [Clients -> Seq(Answers)]
        /\ link' \in [Clients -> {"none", "queued", "up"}]
    BY <1>0, <1>1, <1>4, EmptySeq DEF Types
  <1>6. UNCHANGED <<ready, pos, pending, vec, backlog, cpc, seq, asked, left>>
    BY <1>4 DEF clientVars
  <1> QED BY <1>0, <1>2, <1>3, <1>4, <1>5, <1>6 DEF Types

LEMMA ServerTypes == ASSUME IInv, ServerStep PROVE Types'
  <1> USE DEF Types, contexts, clientVars
  <1>0. Types /\ Placed
    BY DEF IInv
  <1>1. CASE Select
    <2>1. ToSet(list) \subseteq Clients
      BY <1>0 DEF ToSet
    <2> QED BY <1>0, <1>1, <2>1 DEF Select
  <1>2. CASE Accept
    <2>1. CASE Listener \in ready
      <3>1. backlog # << >>
        BY <1>0, <1>2, <2>1 DEF Accept, Placed
      <3>2. Head(backlog) \in Clients /\ Tail(backlog) \in Seq(Clients)
        BY <1>0, <3>1
      <3>3. /\ backlog' = Tail(backlog) /\ list' = Append(list, Head(backlog))
            /\ link' = [link EXCEPT ![Head(backlog)] = "up"]
        BY <1>2, <2>1 DEF Accept
      <3>4. list' \in Seq(Clients) /\ backlog' \in Seq(Clients)
        BY <1>0, <3>2, <3>3
      <3>5. link' \in [Clients -> {"none", "queued", "up"}]
        BY <1>0, <3>3
      <3>6. /\ pc' = "walk" /\ pos' = 1
            /\ UNCHANGED <<ready, pending, vec, answer, out, stream, back, clientVars>>
        BY <1>2 DEF Accept
      <3> QED BY <1>0, <3>4, <3>5, <3>6
    <2>2. CASE Listener \notin ready
      BY <1>0, <1>2, <2>2 DEF Accept
    <2> QED BY <2>1, <2>2
  <1>3. CASE EndWalk \/ Skip
    <2>1. CASE EndWalk
      BY <1>0, <2>1 DEF EndWalk
    <2>2. CASE Skip
      <3>1. pos' = pos + 1 /\ pos \in Nat \ {0} /\ pc' = "walk"
        BY <1>0, <2>2 DEF Skip, NextClient
      <3>2. pos' \in Nat \ {0}
        BY <3>1
      <3> QED BY <1>0, <2>2, <3>1, <3>2 DEF Skip
    <2> QED BY <1>3, <2>1, <2>2
  <1>4. CASE ReadHeader
    <2> DEFINE c == Current
    <2>1. c \in Clients /\ Head(stream[c]).n \in Nat
      BY <1>4, HeaderAtHead DEF ReadHeader
    <2>2. Tail(stream[c]) \in Seq(Atoms)
      BY <1>0, <1>4, <2>1 DEF ReadHeader
    <2> HIDE DEF c
    <2>3. /\ pending' = Head(stream[c]).n /\ vec' = << >> /\ pc' = "body"
          /\ stream' = [stream EXCEPT ![c] = Tail(@)]
          /\ UNCHANGED <<list, ready, pos, answer, backlog, link, out, back, clientVars>>
      BY <1>4 DEF ReadHeader, c
    <2> QED BY <1>0, <2>1, <2>2, <2>3
  <1>5. CASE ReadEnd \/ WriteFails
    BY <1>0, <1>5, DropTypes DEF ReadEnd, WriteFails, AtReady, Placed
  <1>6. CASE ReadHeaderCut \/ ReadBodyEnd
    BY <1>0, <1>6 DEF ReadHeaderCut, ReadBodyEnd, Lose
  <1>7. CASE ReadBody
    <2> DEFINE c == Current
               s == stream[c]
               k == IF Len(s) > pending THEN pending ELSE Len(s)
    <2>1. c \in Clients /\ s \in Seq(Atoms)
      BY <1>0, <1>7, AtCurrent DEF ReadBody, Placed
    <2>2. k \in Nat /\ k <= Len(s) /\ pending - k \in Nat
      BY <1>0, <2>1
    <2>3. SubSeq(s, 1, k) \in Seq(Atoms) /\ SubSeq(s, k + 1, Len(s)) \in Seq(Atoms)
      BY <2>1, <2>2, Part
    <2>4. /\ vec' = vec \o SubSeq(s, 1, k)
          /\ stream' = [stream EXCEPT ![c] = SubSeq(s, k + 1, Len(s))]
          /\ pending' = pending - k /\ pc' \in {"handle", "body"}
          /\ UNCHANGED <<list, ready, pos, answer, backlog, link, out, back, clientVars>>
      BY <1>7 DEF ReadBody
    <2> HIDE DEF k, c, s
    <2>5. vec' \in Seq(Atoms)
      BY <1>0, <2>3, <2>4, Joined
    <2>6. stream' \in [Clients -> Seq(Atoms)]
      BY <1>0, <2>1, <2>3, <2>4
    <2> QED BY <1>0, <2>2, <2>4, <2>5, <2>6
  <1>8. CASE HandleRequest
    <2>1. vec[2] \in Asks
      BY <1>0, <1>8, Bodies DEF IInv, HandleRequest, Flows
    <2>2. answer' \in Answers
      BY <1>8, <2>1 DEF HandleRequest, FileUpload, Asks, Answers
    <2> QED BY <1>0, <1>8, <2>2 DEF HandleRequest
  <1>9. CASE Write
    <2> DEFINE c == Current
    <2>1. c \in Clients
      BY <1>0, <1>9, AtCurrent DEF Write, Placed
    <2> HIDE DEF c
    <2>2. Append(back[c], answer) \in Seq(Answers)
      BY <1>0, <2>1
    <2>3. NoAnswer \in Answers
      BY ModulusAssumption DEF NoAnswer, Answers
    <2>4. back' \in [Clients -> Seq(Answers)]
      BY <1>0, <1>9, <2>1, <2>2 DEF Write, c
    <2>5. pos' \in Nat \ {0} /\ pc' = "walk" /\ answer' = NoAnswer
      BY <1>0, <1>9 DEF Write, NextClient
    <2> QED BY <1>0, <1>9, <2>3, <2>4, <2>5 DEF Write
  <1>10. CASE HandleChunk
    BY <1>0, <1>10 DEF HandleChunk, NextClient
  <1> QED BY <1>1, <1>2, <1>3, <1>4, <1>5, <1>6, <1>7, <1>8, <1>9, <1>10 DEF ServerStep

LEMMA AppendOnce ==
  ASSUME NEW s \in Seq(Clients), Once(s), NEW c \in Clients, ~ Contains(s, c)
  PROVE  /\ Once(Append(s, c))
         /\ \A d \in Clients : Contains(Append(s, c), d) <=> Contains(s, d) \/ d = c
  <1> DEFINE t == Append(s, c)
  <1>1. /\ Len(t) = Len(s) + 1 /\ t[Len(s) + 1] = c /\ Len(s) \in Nat
        /\ \A i \in 1 .. Len(s) : t[i] = s[i]
    OBVIOUS
  <1> HIDE DEF t
  <1>2. \A i \in 1 .. Len(t) : i \in 1 .. Len(s) \/ i = Len(s) + 1
    BY <1>1
  <1>3. Once(t)
    BY <1>1, <1>2 DEF Once, Contains
  <1>4. ASSUME NEW d \in Clients PROVE Contains(t, d) <=> Contains(s, d) \/ d = c
    <2>1. ASSUME Contains(t, d) PROVE Contains(s, d) \/ d = c
      BY <1>1, <1>2, <2>1 DEF Contains
    <2>2. ASSUME Contains(s, d) PROVE Contains(t, d)
      BY <1>1, <2>2 DEF Contains
    <2>3. Contains(t, c)
      BY <1>1 DEF Contains
    <2> QED BY <2>1, <2>2, <2>3
  <1> QED BY <1>3, <1>4 DEF t

LEMMA RemoveOnce ==
  ASSUME NEW s \in Seq(Clients), Once(s), NEW i \in 1 .. Len(s)
  PROVE  /\ Once(RemoveAt(s, i))
         /\ \A d \in Clients : Contains(RemoveAt(s, i), d) <=> Contains(s, d) /\ d # s[i]
  <1> DEFINE t == RemoveAt(s, i)
             old(j) == IF j < i THEN j ELSE j + 1
  <1>1. /\ Len(s) \in Nat /\ Len(t) = Len(s) - 1
        /\ \A j \in 1 .. Len(t) : t[j] = s[old(j)]
    <2>1. Len(s) \in Nat
      OBVIOUS
    <2>2. /\ Len(t) = Len(s) - 1
          /\ \A j \in 1 .. Len(s) - 1 : t[j] = IF j < i THEN s[j] ELSE s[j + 1]
      BY Removed
    <2> HIDE DEF t
    <2> QED BY <2>1, <2>2
  <1> HIDE DEF t
  <1>2. \A j \in 1 .. Len(t) : old(j) \in 1 .. Len(s) /\ old(j) # i
    BY <1>1
  <1>3. \A j, k \in 1 .. Len(t) : old(j) = old(k) => j = k
    BY <1>1
  <1>4. Once(t)
    <2> SUFFICES ASSUME NEW j \in 1 .. Len(t), NEW k \in 1 .. Len(t), t[j] = t[k]
                 PROVE  j = k
      BY DEF Once
    <2>1. s[old(j)] = s[old(k)] /\ old(j) \in 1 .. Len(s) /\ old(k) \in 1 .. Len(s)
      BY <1>1, <1>2
    <2> HIDE DEF old
    <2>2. old(j) = old(k)
      BY <2>1 DEF Once
    <2> QED BY <1>3, <2>2
  <1>5. ASSUME NEW d \in Clients PROVE Contains(t, d) <=> Contains(s, d) /\ d # s[i]
    <2>1. ASSUME NEW j \in 1 .. Len(t), t[j] = d PROVE Contains(s, d) /\ d # s[i]
      <3>1. old(j) \in 1 .. Len(s) /\ old(j) # i /\ s[old(j)] = d
        BY <1>1, <1>2, <2>1
      <3> HIDE DEF old
      <3> QED BY <3>1 DEF Once, Contains
    <2>2. ASSUME NEW k \in 1 .. Len(s), s[k] = d, d # s[i] PROVE Contains(t, d)
      <3> DEFINE j == IF k < i THEN k ELSE k - 1
      <3>1. j \in 1 .. Len(t) /\ old(j) = k
        BY <1>1, <2>2
      <3> HIDE DEF j
      <3>2. t[j] = d
        BY <1>1, <2>2, <3>1
      <3> QED BY <3>1, <3>2 DEF Contains
    <2> QED BY <2>1, <2>2 DEF Contains
  <1> QED BY <1>4, <1>5 DEF t

LEMMA TailOnce ==
  ASSUME NEW s \in Seq(Clients), Once(s), s # << >>
  PROVE  /\ Once(Tail(s)) /\ Head(s) \in Clients /\ Contains(s, Head(s))
         /\ \A d \in Clients : Contains(Tail(s), d) <=> Contains(s, d) /\ d # Head(s)
  <1> DEFINE t == Tail(s)
  <1>1. /\ Len(s) \in Nat /\ Len(s) >= 1 /\ Len(t) = Len(s) - 1
        /\ Head(s) = s[1] /\ s[1] \in Clients
        /\ \A j \in 1 .. Len(t) : t[j] = s[j + 1]
    OBVIOUS
  <1> HIDE DEF t
  <1>2. Once(t)
    BY <1>1 DEF Once
  <1>3. ASSUME NEW d \in Clients PROVE Contains(t, d) <=> Contains(s, d) /\ d # s[1]
    <2>1. ASSUME NEW j \in 1 .. Len(t), t[j] = d PROVE Contains(s, d) /\ d # s[1]
      <3>1. j + 1 \in 1 .. Len(s) /\ s[j + 1] = d /\ j + 1 # 1 /\ 1 \in 1 .. Len(s)
        BY <1>1, <2>1
      <3> QED BY <3>1 DEF Once, Contains
    <2>2. ASSUME NEW k \in 1 .. Len(s), s[k] = d, d # s[1] PROVE Contains(t, d)
      <3>1. k - 1 \in 1 .. Len(t) /\ t[k - 1] = s[(k - 1) + 1] /\ (k - 1) + 1 = k
        BY <1>1, <2>2
      <3> QED BY <2>2, <3>1 DEF Contains
    <2> QED BY <2>1, <2>2 DEF Contains
  <1> QED BY <1>1, <1>2, <1>3 DEF t, Contains

LEMMA ClientPlaces ==
  ASSUME IInv, NEW c \in Clients, ClientStep(c)
  PROVE  Placed' /\ Away'
  <1> USE DEF serverVars, contexts, clientVars
  <1>0. Types /\ Placed /\ Away
    BY DEF IInv
  <1>1. CASE Connect(c)
    <2>1. /\ backlog' = Append(backlog, c) /\ link[c] = "none"
          /\ link' = [link EXCEPT ![c] = "queued"]
          /\ cpc' = [cpc EXCEPT ![c] = "idle"]
          /\ UNCHANGED <<pc, list, ready, pos, out, stream>>
      BY <1>1 DEF Connect
    <2>2. ~ Contains(backlog, c) /\ ~ Contains(list, c)
      BY <1>0, <2>1 DEF Placed
    <2>3. /\ Once(backlog') /\ backlog' # << >>
          /\ \A d \in Clients : Contains(backlog', d) <=> Contains(backlog, d) \/ d = c
      <3>1. backlog \in Seq(Clients) /\ Once(backlog)
        BY <1>0 DEF Types, Placed
      <3>2. Append(backlog, c) # << >>
        BY <3>1, AppendProperties
      <3> QED BY <2>1, <2>2, <3>1, <3>2, AppendOnce
    <2>4. \A d \in Clients : link'[d] = IF d = c THEN "queued" ELSE link[d]
      BY <1>0, <2>1 DEF Types
    <2>5. Placed'
      BY <1>0, <2>1, <2>2, <2>3, <2>4 DEF Placed
    <2>6. Away'
      BY <1>0, <2>1, <2>4 DEF Types, Away
    <2> QED BY <2>5, <2>6
  <1>2. CASE ~ Connect(c)
    <2>1. /\ pc' = pc /\ list' = list /\ backlog' = backlog /\ link' = link
          /\ ready' = ready /\ pos' = pos
      BY <1>2 DEF ClientStep, Request, Receive, SendChunk, Close, Vanish, Deliver
    <2>2. Placed'
      BY <1>0, <2>1 DEF Placed
    <2>3. link[c] # "none"
      <3>1. cpc[c] # "off" \/ Deliver(c)
        BY <1>2 DEF ClientStep, Request, Receive, SendChunk, Close, Vanish
      <3>2. CASE Deliver(c)
        <4>1. PICK k \in 1 .. Len(out[c]) : TRUE
          BY <3>2 DEF Deliver
        <4>2. Len(<< >>) = 0
          OBVIOUS
        <4>3. out[c] # << >>
          BY <4>1, <4>2
        <4> QED BY <1>0, <4>3 DEF Away
      <3> QED BY <1>0, <3>1, <3>2 DEF Away
    <2>4. \A d \in Clients \ {c} : cpc'[d] = cpc[d] /\ out'[d] = out[d] /\ stream'[d] = stream[d]
      BY <1>0, <1>2
      DEF ClientStep, Request, Receive, SendChunk, Close, Vanish, Deliver, Send, Types
    <2>5. Away'
      BY <1>0, <2>1, <2>3, <2>4 DEF Away
    <2> QED BY <2>2, <2>5
  <1> QED BY <1>1, <1>2

LEMMA DropPlaces ==
  ASSUME IInv, pos <= Len(list), cpc[Current] = "off", Drop(Current)
  PROVE  Placed' /\ Away'
  <1> DEFINE c == Current
  <1>0. Types /\ Placed /\ Away
    BY DEF IInv
  <1>1. c \in Clients /\ link[c] = "up" /\ pos \in 1 .. Len(list) /\ c = list[pos]
    <2>1. c \in Clients /\ link[c] = "up"
      BY <1>0, AtCurrent
    <2> QED BY <1>0, <2>1 DEF Types, Current
  <1> HIDE DEF c
  <1>2. /\ pc' = "walk" /\ link' = [link EXCEPT ![c] = "none"]
        /\ list' = RemoveAt(list, pos)
        /\ out' = [out EXCEPT ![c] = << >>]
        /\ stream' = [stream EXCEPT ![c] = << >>]
        /\ UNCHANGED <<ready, pos, backlog, cpc>>
    BY DEF Drop, Forget, c, clientVars
  <1>3. /\ Once(list')
        /\ \A d \in Clients : Contains(list', d) <=> Contains(list, d) /\ d # c
    BY <1>0, <1>1, <1>2, RemoveOnce DEF Types, Placed
  <1>4. \A d \in Clients : link'[d] = IF d = c THEN "none" ELSE link[d]
    BY <1>0, <1>2 DEF Types
  <1>5. Placed'
    BY <1>0, <1>1, <1>2, <1>3, <1>4 DEF Placed
  <1>6. Away'
    <2>1. cpc'[c] = "off"
      BY <1>2 DEF c
    <2> QED BY <1>0, <1>1, <1>2, <1>4, <2>1 DEF Away, Types
  <1> QED BY <1>5, <1>6

LEMMA ServerPlaces == ASSUME IInv, ServerStep PROVE Placed' /\ Away'
  <1> USE DEF contexts, clientVars
  <1>0. Types /\ Placed /\ Away
    BY DEF IInv
  <1>1. CASE Select
    <2>1. UNCHANGED <<list, backlog, link, pos, cpc, out, stream>> /\ pc' = "accept"
      BY <1>1 DEF Select
    <2>2. Listener \in ready' => backlog # << >>
      <3>1. ToSet(list) \subseteq Clients
        BY <1>0 DEF Types, ToSet
      <3> QED BY <1>1, <3>1, ListenerAssumption DEF Select
    <2> QED BY <1>0, <2>1, <2>2 DEF Placed, Away
  <1>2. CASE Accept
    <2>1. CASE Listener \in ready
      <3> DEFINE c == Head(backlog)
      <3>1. backlog # << >>
        BY <1>0, <1>2, <2>1 DEF Accept, Placed
      <3>2. /\ backlog' = Tail(backlog) /\ list' = Append(list, c)
            /\ link' = [link EXCEPT ![c] = "up"] /\ pc' = "walk"
            /\ UNCHANGED <<cpc, out, stream>>
        BY <1>2, <2>1 DEF Accept
      <3>3. /\ Once(backlog') /\ c \in Clients /\ Contains(backlog, c)
            /\ \A d \in Clients : Contains(backlog', d) <=> Contains(backlog, d) /\ d # c
        BY <1>0, <3>1, <3>2, TailOnce DEF Types, Placed
      <3> HIDE DEF c
      <3>4. link[c] = "queued" /\ ~ Contains(list, c)
        BY <1>0, <3>3 DEF Placed
      <3>5. /\ Once(list')
            /\ \A d \in Clients : Contains(list', d) <=> Contains(list, d) \/ d = c
        BY <1>0, <3>2, <3>3, <3>4, AppendOnce DEF Types, Placed
      <3>6. \A d \in Clients : link'[d] = IF d = c THEN "up" ELSE link[d]
        BY <1>0, <3>2 DEF Types
      <3>7. Placed'
        BY <1>0, <3>2, <3>3, <3>4, <3>5, <3>6 DEF Placed
      <3>8. Away'
        BY <1>0, <3>2, <3>6 DEF Away
      <3> QED BY <3>7, <3>8
    <2>2. CASE Listener \notin ready
      <3>1. UNCHANGED <<list, backlog, link, cpc, out, stream>> /\ pc' = "walk"
        BY <1>2, <2>2 DEF Accept
      <3> QED BY <1>0, <3>1 DEF Placed, Away
    <2> QED BY <2>1, <2>2
  <1>3. CASE ReadEnd \/ WriteFails
    <2>1. pos <= Len(list) /\ cpc[Current] = "off" /\ Drop(Current)
      BY <1>0, <1>3 DEF ReadEnd, WriteFails, AtReady, Ended, Placed
    <2> QED BY <2>1, DropPlaces
  <1>4. CASE EndWalk \/ Skip \/ Write \/ HandleChunk
    <2>1. UNCHANGED <<list, backlog, link, cpc, out, stream>> /\ pc' \in {"walk", "select"}
      BY <1>4 DEF EndWalk, Skip, Write, HandleChunk, NextClient
    <2> QED BY <1>0, <2>1 DEF Placed, Away
  <1>5. CASE ReadHeaderCut \/ ReadBodyEnd \/ HandleRequest
    <2>1. /\ UNCHANGED <<list, backlog, link, pos, cpc, out, stream>>
          /\ pc' \in {"lost", "write"} /\ pos <= Len(list)
      BY <1>0, <1>5 DEF ReadHeaderCut, ReadBodyEnd, HandleRequest, Lose, AtReady, Placed
    <2> QED BY <1>0, <2>1 DEF Placed, Away
  <1>6. CASE ReadHeader \/ ReadBody
    <2> DEFINE c == Current
    <2>1. pos <= Len(list)
      BY <1>0, <1>6 DEF ReadHeader, ReadBody, AtReady, Placed
    <2>2. c \in Clients /\ link[c] = "up"
      BY <1>0, <2>1, AtCurrent
    <2> HIDE DEF c
    <2>3. /\ UNCHANGED <<list, backlog, link, pos, cpc, out>>
          /\ pc' \in {"body", "handle"}
          /\ \A d \in Clients \ {c} : stream'[d] = stream[d]
      BY <1>0, <1>6 DEF ReadHeader, ReadBody, Types, c
    <2>4. Placed'
      BY <1>0, <2>1, <2>3 DEF Placed
    <2>5. Away'
      BY <1>0, <2>2, <2>3 DEF Away
    <2> QED BY <2>4, <2>5
  <1> QED BY <1>1, <1>2, <1>3, <1>4, <1>5, <1>6 DEF ServerStep

-----------------------------------------------------------------------------
(***************************************************************************)
(* What the steps do to the flows.                                         *)
(***************************************************************************)
LEMMA AskSent ==
  ASSUME NEW t \in Seq(Atoms), NEW b \in Seq(Atoms), ~ HasAsk(t), Body(b)
  PROVE  /\ b[1] = Mode(0) => OneAsk(t \o Framing(b), b[2])
         /\ b[1] = Mode(1) => ~ HasAsk(t \o Framing(b))
  <1> DEFINE L == Len(t)
             u == t \o Framing(b)
  <1>1. /\ Framing(b) \in Seq(Atoms) /\ Len(Framing(b)) = Len(b) + 1
        /\ Framing(b)[1] = Size(Len(b))
        /\ \A i \in 1 .. Len(b) : Framing(b)[i + 1] = b[i]
    BY Kinds DEF Framing
  <1> HIDE DEF Framing
  <1>2. /\ Len(u) = L + (Len(b) + 1) /\ L \in Nat /\ Len(b) \in Nat
        /\ \A i \in 1 .. L : u[i] = t[i]
        /\ \A i \in 1 .. Len(b) + 1 : u[L + i] = Framing(b)[i]
    <2> DEFINE f == Framing(b)
    <2>1. f \in Seq(Atoms) /\ Len(f) = Len(b) + 1 /\ Len(b) \in Nat
      BY <1>1
    <2> HIDE DEF f
    <2>2. /\ Len(t \o f) = Len(t) + Len(f) /\ Len(t) \in Nat
          /\ \A i \in 1 .. Len(t) : (t \o f)[i] = t[i]
          /\ \A i \in 1 .. Len(f) : (t \o f)[Len(t) + i] = f[i]
      BY <2>1, Joined
    <2> QED BY <2>1, <2>2 DEF f
  <1> HIDE DEF u, L
  <1>3. ASSUME NEW i \in 1 .. Len(u), u[i].kind = "json"
        PROVE  i - L - 1 \in 1 .. Len(b) /\ u[i] = b[i - L - 1]
    <2>1. i \notin 1 .. L
      BY <1>2, <1>3 DEF HasAsk, L
    <2>2. i - L \in 1 .. Len(b) + 1 /\ L + (i - L) = i /\ u[i] = Framing(b)[i - L]
      BY <1>2, <2>1
    <2>3. i - L # 1
      BY <1>1, <1>2, <1>3, <2>2, Kinds
    <2>4. i - L - 1 \in 1 .. Len(b) /\ (i - L - 1) + 1 = i - L
      BY <1>2, <2>2, <2>3
    <2> QED BY <1>1, <2>2, <2>4
  <1>4. CASE b[1] = Mode(0)
    <2>1. Len(b) = 2 /\ b[1].kind # "json" /\ b[1] # Mode(1)
      BY <1>4, Kinds, Bodies
    <2>2. ASSUME NEW i \in 1 .. Len(u), u[i].kind = "json"
          PROVE  i = L + 3 /\ u[i] = b[2]
      <3>1. i - L - 1 \in {1, 2} /\ u[i] = b[i - L - 1]
        BY <1>3, <2>1, <2>2
      <3>2. i - L - 1 = 2
        BY <2>1, <2>2, <3>1
      <3> QED BY <1>2, <3>1, <3>2
    <2> QED BY <1>4, <2>1, <2>2 DEF OneAsk, u
  <1>5. CASE b[1] = Mode(1)
    <2>1. \A i \in 1 .. Len(b) : b[i].kind # "json"
      BY <1>5, Kinds, Bodies
    <2>2. b[1] # Mode(0)
      BY <1>5, Kinds
    <2> QED BY <1>3, <1>5, <2>1, <2>2 DEF HasAsk, u
  <1> QED BY <1>4, <1>5

LEMMA AskTaken ==
  ASSUME NEW b \in Seq(Atoms), NEW u \in Seq(Atoms), Body(b)
  PROVE  /\ HasAsk(u) => HasAsk(Framing(b) \o u)
         /\ b[1] = Mode(0) => HasAsk(Framing(b) \o u)
         /\ \A a : OneAsk(Framing(b) \o u, a) =>
              /\ OneAsk(u, a)
              /\ b[1] = Mode(0) => b[2] = a /\ ~ HasAsk(u)
  <1> DEFINE t == Framing(b) \o u
             L == Len(b) + 1
  <1>1. /\ Framing(b) \in Seq(Atoms) /\ Len(Framing(b)) = Len(b) + 1
        /\ \A i \in 1 .. Len(b) : Framing(b)[i + 1] = b[i]
    BY Kinds DEF Framing
  <1> HIDE DEF Framing
  <1>2. /\ Len(t) = L + Len(u) /\ Len(b) \in Nat /\ Len(u) \in Nat
        /\ \A i \in 1 .. L : t[i] = Framing(b)[i]
        /\ \A i \in 1 .. Len(u) : t[L + i] = u[i]
    <2> DEFINE f == Framing(b)
    <2>1. f \in Seq(Atoms) /\ Len(f) = L /\ Len(b) \in Nat
      BY <1>1
    <2> HIDE DEF f
    <2>2. /\ Len(f \o u) = Len(f) + Len(u) /\ Len(u) \in Nat
          /\ \A i \in 1 .. Len(f) : (f \o u)[i] = f[i]
          /\ \A i \in 1 .. Len(u) : (f \o u)[Len(f) + i] = u[i]
      BY <2>1, Joined
    <2> HIDE DEF L
    <2> QED BY <2>1, <2>2 DEF f
  <1> HIDE DEF t
  <1>3. \A i \in 1 .. Len(u) : L + i \in 1 .. Len(t) /\ t[L + i] = u[i]
    BY <1>2
  <1>4. b[1] = Mode(0) => /\ 3 \in 1 .. Len(t) /\ t[3] = b[2] /\ t[3].kind = "json"
                          /\ L = 3
    <2> HAVE b[1] = Mode(0)
    <2>1. Len(b) = 2 /\ b[2].kind = "json"
      BY Bodies, Kinds
    <2>2. Framing(b)[2 + 1] = b[2]
      BY <1>1, <2>1
    <2> QED BY <1>2, <2>1, <2>2
  <1>5. HasAsk(u) => HasAsk(t)
    BY <1>3 DEF HasAsk
  <1>6. b[1] = Mode(0) => HasAsk(t)
    BY <1>4 DEF HasAsk
  <1>7. ASSUME NEW a, OneAsk(t, a)
        PROVE  OneAsk(u, a) /\ (b[1] = Mode(0) => b[2] = a /\ ~ HasAsk(u))
    <2>1. OneAsk(u, a)
      <3>1. ASSUME NEW i \in 1 .. Len(u), NEW j \in 1 .. Len(u),
                   u[i].kind = "json", u[j].kind = "json"
            PROVE  i = j
        <4>1. L + i = L + j
          BY <1>3, <1>7, <3>1 DEF OneAsk
        <4> QED BY <1>2, <4>1
      <3>2. ASSUME NEW i \in 1 .. Len(u), u[i].kind = "json" PROVE u[i] = a
        BY <1>3, <1>7, <3>2 DEF OneAsk
      <3> QED BY <3>1, <3>2 DEF OneAsk
    <2>2. ASSUME b[1] = Mode(0), NEW i \in 1 .. Len(u), u[i].kind = "json" PROVE FALSE
      <3>1. L + i = 3
        BY <1>3, <1>4, <1>7, <2>2 DEF OneAsk
      <3> QED BY <1>4, <2>2, <3>1
    <2>3. b[1] = Mode(0) => b[2] = a
      BY <1>4, <1>7 DEF OneAsk
    <2> QED BY <2>1, <2>2, <2>3 DEF HasAsk
  <1> QED BY <1>5, <1>6, <1>7 DEF t

LEMMA FlowType ==
  ASSUME Types, NEW c \in Clients
  PROVE  /\ Taken(c) \in Seq(Atoms) /\ Flow(c) \in Seq(Atoms)
         /\ stream[c] \in Seq(Atoms) /\ out[c] \in Seq(Atoms)
         /\ stream[c] \o out[c] \in Seq(Atoms)
  <1>1. stream[c] \in Seq(Atoms) /\ out[c] \in Seq(Atoms)
    BY DEF Types
  <1>2. Len(vec) \in Nat /\ pending \in Nat /\ vec \in Seq(Atoms)
    BY DEF Types
  <1>3. Size(Len(vec) + pending) \in Atoms
    BY <1>2, Kinds
  <1>4. <<Size(Len(vec) + pending)>> \in Seq(Atoms)
    BY <1>3
  <1>5. Taken(c) \in Seq(Atoms)
    BY <1>2, <1>4, Joined, EmptySeq DEF Taken
  <1> QED BY <1>1, <1>5, Joined DEF Flow

\* A connection that is closed has no flow, and the server is not at it.
LEMMA NoFlow ==
  ASSUME Types, Placed, Away, NEW c \in Clients, link[c] = "none"
  PROVE  Flow(c) = << >> /\ ~ Answering(c)
  <1>1. pc \in {"body", "handle", "write"} => Current # c
    BY AtCurrent DEF Placed
  <1>2. Taken(c) = << >> /\ ~ Answering(c)
    BY <1>1 DEF Taken, Answering
  <1>3. << >> \o (<< >> \o << >>) = << >>
    OBVIOUS
  <1> QED BY <1>2, <1>3 DEF Flow, Away

LEMMA EmptyFlow == Framed(<< >>) /\ Complete(<< >>) /\ ~ HasAsk(<< >>)
  BY DEF Framed, Complete, Starts, HasAsk

\* A frame that is sent goes behind all that was sent before.
LEMMA SendFlow ==
  ASSUME IInv, NEW c \in Clients, NEW b \in Seq(Atoms), Body(b), cpc[c] # "off",
         Send(c, b), stream' = stream, Taken(c)' = Taken(c)
  PROVE  /\ Flow(c)' = Flow(c) \o Framing(b)
         /\ Framed(Flow(c)') /\ Complete(Flow(c)')
         /\ \A d \in Clients \ {c} : out'[d] = out[d]
  <1> DEFINE T == Taken(c)
             f == <<Size(Len(b))>>
             x == stream[c]
             o == out[c]
  <1>0. Types /\ Flows
    BY DEF IInv
  <1>1. /\ T \in Seq(Atoms) /\ x \in Seq(Atoms) /\ o \in Seq(Atoms)
        /\ f \in Seq(Atoms) /\ b \in Seq(Atoms) /\ Flow(c) \in Seq(Atoms)
    BY <1>0, FlowType, Kinds
  <1>2. /\ out'[c] = o \o f \o b
        /\ \A d \in Clients \ {c} : out'[d] = out[d]
    BY <1>0 DEF Send, Types
  <1>3. Flow(c)' = T \o (x \o (o \o f \o b))
    BY <1>2 DEF Flow
  <1>4. Flow(c) = T \o (x \o o) /\ Framing(b) = f \o b
    BY DEF Flow, Framing
  <1> HIDE DEF T, f, x, o
  <1>5. T \o (x \o (o \o f \o b)) = (T \o (x \o o)) \o (f \o b)
    <2> DEFINE g == f \o b
    <2>1. g \in Seq(Atoms) /\ o \o f \o b = o \o g
      BY <1>1, Joined, ConcatAssociative
    <2> HIDE DEF g
    <2>2. T \o (x \o (o \o g)) = (T \o (x \o o)) \o g
      <3>1. T \in Seq(Atoms)
        BY <1>1
      <3>2. x \in Seq(Atoms)
        BY <1>1
      <3>3. o \in Seq(Atoms)
        BY <1>1
      <3>4. g \in Seq(Atoms)
        BY <2>1
      <3>5. x \o (o \o g) = (x \o o) \o g
        BY <3>2, <3>3, <3>4, Group, Zenon
      <3>6. x \o o \in Seq(Atoms)
        BY <1>1, Joined
      <3>7. T \o ((x \o o) \o g) = (T \o (x \o o)) \o g
        BY <3>1, <3>4, <3>6, Group, Zenon
      <3> QED BY <3>5, <3>7
    <2> QED BY <2>1, <2>2 DEF g
  <1>6. Flow(c)' = Flow(c) \o Framing(b)
    BY <1>3, <1>4, <1>5
  <1>7. Framed(Flow(c)) /\ Complete(Flow(c))
    BY <1>0 DEF Flows
  <1>8. Framed(Flow(c) \o Framing(b)) /\ Complete(Flow(c) \o Framing(b))
    BY <1>1, <1>7, SendFramed
  <1> QED BY <1>2, <1>6, <1>8

\* A step of a client changes its own flow only.
LEMMA ClientOthers ==
  ASSUME IInv, NEW c \in Clients, ClientStep(c)
  PROVE  /\ UNCHANGED <<pc, list, pos, pending, vec, answer>>
         /\ \A d \in Clients : Taken(d)' = Taken(d) /\ Answering(d)' = Answering(d)
         /\ \A d \in Clients \ {c} : /\ Flow(d)' = Flow(d) /\ cpc'[d] = cpc[d]
                                     /\ back'[d] = back[d] /\ asked'[d] = asked[d]
  <1>0. Types
    BY DEF IInv
  <1>1. UNCHANGED <<pc, list, pos, pending, vec, answer>>
    BY DEF ClientStep, Connect, Request, Receive, SendChunk, Close, Vanish, Deliver,
           serverVars
  <1>2. \A d \in Clients : Taken(d)' = Taken(d) /\ Answering(d)' = Answering(d)
    BY <1>1 DEF Taken, Answering, Current
  <1>3. ASSUME NEW d \in Clients \ {c}
        PROVE  /\ out'[d] = out[d] /\ stream'[d] = stream[d]
               /\ cpc'[d] = cpc[d] /\ back'[d] = back[d] /\ asked'[d] = asked[d]
    BY <1>0 DEF Types, ClientStep, Connect, Request, Receive, SendChunk, Close, Vanish,
                Deliver, Send, clientVars
  <1>4. \A d \in Clients \ {c} : Flow(d)' = Flow(d)
    BY <1>2, <1>3 DEF Flow
  <1> QED BY <1>1, <1>2, <1>3, <1>4

\* What a step of a client does to its own flow.
ClientKeeps(c) ==
    /\ Framed(Flow(c)')
    /\ c \notin Unreliable \/ cpc'[c] # "off" => Complete(Flow(c)')
    /\ Turn(c)'

LEMMA SameFlow ==
  ASSUME IInv, NEW c \in Clients, ClientStep(c), UNCHANGED <<out, stream>>
  PROVE  Flow(c)' = Flow(c)
  BY ClientOthers DEF Flow

LEMMA ConnectKeeps ==
  ASSUME IInv, NEW c \in Clients, Connect(c) PROVE ClientKeeps(c)
  <1>1. Types /\ Placed /\ Away /\ Turn(c) /\ ClientStep(c)
    BY DEF IInv, Turns, ClientStep
  <1>2. /\ cpc[c] = "off" /\ link[c] = "none" /\ cpc'[c] = "idle" /\ back'[c] = back[c]
        /\ UNCHANGED <<out, stream>>
    BY <1>1 DEF Connect, Types
  <1>3. Flow(c)' = << >> /\ ~ Answering(c)'
    BY <1>1, <1>2, NoFlow, SameFlow, ClientOthers
  <1>4. Turn(c)'
    BY <1>1, <1>2, <1>3, EmptyFlow DEF Turn, Asking
  <1> QED BY <1>3, <1>4, EmptyFlow DEF ClientKeeps

LEMMA RequestKeeps ==
  ASSUME IInv, NEW c \in Clients,
         NEW topic \in Topics \cup {Upload}, NEW size \in Lengths \cup {0},
         Request(c, topic, size)
  PROVE  ClientKeeps(c)
  <1> DEFINE ask == Ask(topic, seq[c], size)
             b == <<Mode(0), ask>>
  <1>1. Types /\ Turn(c) /\ ClientStep(c)
    BY DEF IInv, Turns, ClientStep
  <1>2. ask \in Asks
    BY <1>1 DEF Ask, Asks, Types
  <1>3. /\ cpc[c] = "idle" /\ Send(c, b) /\ stream' = stream /\ cpc'[c] = "reply"
        /\ asked'[c] = ask /\ back'[c] = back[c]
    BY <1>1 DEF Request, Types
  <1> HIDE DEF ask
  <1>4. /\ b \in Seq(Atoms) /\ Body(b) /\ b[1] = Mode(0) /\ b[2] = ask
    BY <1>2, Kinds DEF Body
  <1> HIDE DEF b
  <1>5. /\ Flow(c)' = Flow(c) \o Framing(b)
        /\ Framed(Flow(c)') /\ Complete(Flow(c)')
    BY <1>1, <1>3, <1>4, ClientOthers, SendFlow
  <1>6. ~ HasAsk(Flow(c)) /\ ~ Answering(c) /\ back[c] = << >>
    BY <1>1, <1>3 DEF Turn, Asking
  <1>7. OneAsk(Flow(c)', ask) /\ ~ Answering(c)'
    BY <1>1, <1>4, <1>5, <1>6, AskSent, FlowType, ClientOthers
  <1>8. Turn(c)'
    BY <1>3, <1>6, <1>7 DEF Turn
  <1> QED BY <1>3, <1>5, <1>8 DEF ClientKeeps

\* A chunk is sent as a frame of the next data of the file.
LEMMA ChunkBody ==
  ASSUME Types, NEW c \in Clients, SendChunk(c)
  PROVE  \E k \in 1 .. Len(left[c]), b \in Seq(Atoms) :
           /\ Body(b) /\ b[1] = Mode(1) /\ Len(b) = k + 1 /\ Send(c, b)
           /\ \A i \in 1 .. k : b[1 + i] = left[c][i]
           /\ left' = [left EXCEPT ![c] = SubSeq(@, k + 1, Len(@))]
  <1> DEFINE k == IF Len(left[c]) > Chunk THEN Chunk ELSE Len(left[c])
             d == SubSeq(left[c], 1, k)
             b == <<Mode(1)>> \o d
  <1>1. left[c] \in Seq(Chunks) /\ left[c] # << >>
    BY DEF Types, SendChunk
  <1>2. k \in Nat /\ k >= 1 /\ k <= Len(left[c]) /\ k <= Chunk
    BY <1>1, ChunkAssumption
  <1>3. Send(c, b) /\ left' = [left EXCEPT ![c] = SubSeq(@, k + 1, Len(@))]
    BY DEF SendChunk
  <1> HIDE DEF k
  <1>4. d \in Seq(Chunks) /\ Len(d) = k /\ \A i \in 1 .. k : d[i] = left[c][i]
    BY <1>1, <1>2
  <1>5. \A a \in Chunks : a \in Atoms /\ a.kind = "data"
    BY Kinds
  <1>6. d \in Seq(Atoms)
    BY <1>4, <1>5, SeqMonotonic
  <1> HIDE DEF d
  <1>7. /\ b \in Seq(Atoms) /\ Len(b) = k + 1 /\ b[1] = Mode(1)
        /\ \A i \in 1 .. k : b[1 + i] = d[i]
    BY <1>4, <1>6, Kinds
  <1> HIDE DEF b
  <1>8. ASSUME NEW i \in 2 .. k + 1 PROVE b[i].kind = "data"
    <2>1. i - 1 \in 1 .. k /\ 1 + (i - 1) = i
      BY <1>2
    <2>2. d[i - 1] \in Chunks
      BY <1>4, <2>1
    <2> QED BY <1>5, <1>7, <2>1, <2>2
  <1>9. Body(b)
    BY <1>2, <1>7, <1>8, ChunkAssumption DEF Body
  <1>10. k \in 1 .. Len(left[c])
    BY <1>1, <1>2
  <1> QED BY <1>3, <1>4, <1>7, <1>9, <1>10

LEMMA SendChunkKeeps ==
  ASSUME IInv, NEW c \in Clients, SendChunk(c) PROVE ClientKeeps(c)
  <1>1. Types /\ Turn(c) /\ ClientStep(c)
    BY DEF IInv, Turns, ClientStep
  <1>2. PICK b \in Seq(Atoms) : Body(b) /\ b[1] = Mode(1) /\ Send(c, b)
    BY <1>1, ChunkBody
  <1>3. /\ cpc[c] = "idle" /\ stream' = stream /\ cpc' = cpc
        /\ back'[c] = back[c]
    BY <1>1 DEF SendChunk
  <1>5. /\ Flow(c)' = Flow(c) \o Framing(b)
        /\ Framed(Flow(c)') /\ Complete(Flow(c)')
    BY <1>1, <1>2, <1>3, ClientOthers, SendFlow
  <1>6. ~ HasAsk(Flow(c)) /\ ~ Answering(c) /\ back[c] = << >>
    BY <1>1, <1>3 DEF Turn, Asking
  <1>7. ~ HasAsk(Flow(c)') /\ ~ Answering(c)'
    BY <1>1, <1>2, <1>5, <1>6, AskSent, FlowType, ClientOthers
  <1>8. Turn(c)'
    BY <1>3, <1>6, <1>7 DEF Turn, Asking
  <1> QED BY <1>5, <1>8 DEF ClientKeeps

LEMMA ReceiveKeeps ==
  ASSUME IInv, NEW c \in Clients, Receive(c) \/ Close(c) PROVE ClientKeeps(c)
  <1>1. Types /\ Flows /\ Turn(c) /\ ClientStep(c)
    BY DEF IInv, Turns, ClientStep
  <1>2. UNCHANGED <<out, stream>>
    BY DEF Receive, Close
  <1>3. Flow(c)' = Flow(c) /\ Answering(c)' = Answering(c)
    BY <1>1, <1>2, SameFlow, ClientOthers
  <1>4. Framed(Flow(c)') /\ (c \notin Unreliable \/ cpc[c] # "off" => Complete(Flow(c)'))
    BY <1>1, <1>3 DEF Flows
  <1>5. CASE Receive(c)
    <2>1. /\ cpc[c] = "reply" /\ back[c] # << >> /\ cpc'[c] = "idle"
          /\ back'[c] = Tail(back[c])
      BY <1>1, <1>5 DEF Receive, Types
    <2>2. ~ Asking(c) /\ ~ Answering(c) /\ Len(back[c]) = 1
      BY <1>1, <2>1 DEF Turn
    <2>3. back'[c] = << >>
      <3>1. back[c] \in Seq(Answers)
        BY <1>1 DEF Types
      <3>2. Tail(back[c]) \in Seq(Answers) /\ Len(Tail(back[c])) = 0
        BY <2>1, <2>2, <3>1, HeadTailProperties
      <3> QED BY <2>1, <3>2, EmptySeq
    <2>4. Turn(c)'
      BY <1>3, <2>1, <2>2, <2>3 DEF Turn, Asking
    <2> QED BY <1>4, <2>1, <2>4 DEF ClientKeeps
  <1>6. CASE Close(c)
    <2>1. cpc[c] = "idle" /\ cpc'[c] = "off" /\ back'[c] = back[c]
      BY <1>1, <1>6 DEF Close, Types
    <2>2. Turn(c)'
      BY <1>1, <2>1 DEF Turn
    <2> QED BY <1>4, <2>1, <2>2 DEF ClientKeeps
  <1> QED BY <1>5, <1>6

\* What has arrived of a flow is its front.
LEMMA VanishFlow ==
  ASSUME IInv, NEW c \in Clients, Vanish(c)
  PROVE  Flow(c)' \in Seq(Atoms) /\ Flow(c) = Flow(c)' \o out[c]
  <1>1. Types /\ ClientStep(c)
    BY DEF IInv, ClientStep
  <1>2. out'[c] = << >> /\ stream' = stream
    BY <1>1 DEF Vanish, Types
  <1> DEFINE p == Taken(c) \o stream[c]
  <1>3. p \in Seq(Atoms) /\ p = Flow(c)' /\ Flow(c) = p \o out[c]
    <2>1. Taken(c) \in Seq(Atoms) /\ stream[c] \in Seq(Atoms) /\ out[c] \in Seq(Atoms)
      BY <1>1, FlowType
    <2>2. Flow(c)' = Taken(c) \o (stream[c] \o << >>)
      BY <1>1, <1>2, ClientOthers DEF Flow
    <2>3. stream[c] \o << >> = stream[c]
      BY <2>1, ConcatEmptySeq
    <2>4. Flow(c) = p \o out[c]
      <3>1. Taken(c) \in Seq(Atoms)
        BY <2>1
      <3>2. stream[c] \in Seq(Atoms)
        BY <2>1
      <3>3. out[c] \in Seq(Atoms)
        BY <2>1
      <3> QED BY <3>1, <3>2, <3>3, Group, Zenon DEF Flow
    <2> QED BY <2>1, <2>2, <2>3, <2>4, Joined
  <1> QED BY <1>3

LEMMA VanishKeeps ==
  ASSUME IInv, NEW c \in Clients, Vanish(c) PROVE ClientKeeps(c)
  <1>1. Types /\ Flows
    BY DEF IInv
  <1>2. c \in Unreliable /\ cpc'[c] = "off" /\ back'[c] = << >>
    BY <1>1 DEF Vanish, Types
  <1>3. /\ Flow(c)' \in Seq(Atoms) /\ out[c] \in Seq(Atoms)
        /\ Framed(Flow(c)' \o out[c])
    BY <1>1, VanishFlow, FlowType DEF Flows
  <1>4. Framed(Flow(c)')
    BY <1>3, CutFramed
  <1>5. Turn(c)'
    BY <1>2 DEF Turn
  <1> QED BY <1>2, <1>4, <1>5 DEF ClientKeeps

\* What is delivered stays in the flow.
LEMMA DeliverFlow ==
  ASSUME IInv, NEW c \in Clients, Deliver(c) PROVE Flow(c)' = Flow(c)
  <1>1. Types /\ ClientStep(c)
    BY DEF IInv, ClientStep
  <1>2. PICK k \in 1 .. Len(out[c]) :
          /\ stream' = [stream EXCEPT ![c] = @ \o SubSeq(out[c], 1, k)]
          /\ out' = [out EXCEPT ![c] = SubSeq(@, k + 1, Len(@))]
    BY DEF Deliver
  <1> DEFINE x == stream[c]
             o == out[c]
             p == SubSeq(o, 1, k)
             q == SubSeq(o, k + 1, Len(o))
  <1>4. x \in Seq(Atoms) /\ o \in Seq(Atoms) /\ stream'[c] = x \o p /\ out'[c] = q
    BY <1>1, <1>2 DEF Types
  <1> HIDE DEF x, o
  <1>5. p \in Seq(Atoms) /\ q \in Seq(Atoms) /\ p \o q = o
    <2>1. k \in 1 .. Len(o) /\ Len(o) \in Nat
      BY <1>4 DEF o
    <2>2. p \in Seq(Atoms) /\ q \in Seq(Atoms)
      BY <1>4, <2>1, Part
    <2>3. SubSeq(o, 1, k) \o SubSeq(o, k + 1, Len(o)) = SubSeq(o, 1, Len(o))
      BY <1>4, <2>1, ConcatAdjacentSubSeq
    <2>4. SubSeq(o, 1, Len(o)) = o
      BY <1>4, SubSeqFull
    <2> QED BY <2>2, <2>3, <2>4
  <1> HIDE DEF p, q
  <1>6. (x \o p) \o q = x \o o
    <2>1. (x \o p) \o q = x \o (p \o q)
      <3>1. x \in Seq(Atoms)
        BY <1>4
      <3>2. p \in Seq(Atoms)
        BY <1>5
      <3>3. q \in Seq(Atoms)
        BY <1>5
      <3> QED BY <3>1, <3>2, <3>3, Group, Zenon
    <2> QED BY <1>5, <2>1
  <1> QED
    BY <1>1, <1>4, <1>6, ClientOthers DEF Flow, x, o

LEMMA DeliverKeeps ==
  ASSUME IInv, NEW c \in Clients, Deliver(c) PROVE ClientKeeps(c)
  <1>1. Flows /\ Turn(c) /\ ClientStep(c)
    BY DEF IInv, Turns, ClientStep
  <1>3. cpc' = cpc /\ back' = back /\ asked' = asked
    BY DEF Deliver, clientVars
  <1>7. Flow(c)' = Flow(c) /\ Answering(c)' = Answering(c)
    BY <1>1, DeliverFlow, ClientOthers
  <1>8. Turn(c)'
    <2>1. UNCHANGED <<pc, vec, answer>>
      BY <1>1, ClientOthers
    <2> QED BY <1>1, <1>3, <1>7, <2>1 DEF Turn, Asking
  <1> QED BY <1>1, <1>3, <1>7, <1>8 DEF ClientKeeps, Flows

LEMMA ClientFlows ==
  ASSUME IInv, NEW c \in Clients, ClientStep(c) PROVE Flows' /\ Turns'
  <1>1. ClientKeeps(c)
    BY ConnectKeeps, RequestKeeps, SendChunkKeeps, ReceiveKeeps, VanishKeeps, DeliverKeeps
    DEF ClientStep
  <1>2. Flows /\ Turns
    BY DEF IInv
  <1>3. Flows'
    BY <1>1, <1>2, ClientOthers DEF Flows, ClientKeeps, Current
  <1>4. Turns'
    BY <1>1, <1>2, ClientOthers DEF Turns, Turn, ClientKeeps, Asking
  <1> QED BY <1>3, <1>4

\* Between two frames the server changes no flow.
LEMMA SameFlows ==
  ASSUME pc # "body", pc' # "body", UNCHANGED <<out, stream>>
  PROVE  \A d \in Clients : Flow(d)' = Flow(d)
  BY DEF Flow, Taken

\* A connection with nothing on its way has an empty flow.
LEMMA NothingFlows ==
  ASSUME NEW c \in Clients, pc' # "body", stream'[c] = << >>, out'[c] = << >>
  PROVE  Flow(c)' = << >>
  <1>1. << >> \o (<< >> \o << >>) = << >>
    OBVIOUS
  <1>2. Taken(c)' = << >>
    BY DEF Taken
  <1>3. Flow(c)' = << >> \o (<< >> \o << >>)
    BY <1>2 DEF Flow
  <1> QED BY <1>1, <1>3

LEMMA QuietFlows ==
  ASSUME IInv, Select \/ Accept \/ EndWalk \/ Skip \/ ReadHeaderCut
  PROVE  Flows' /\ Turns'
  <1>1. Flows /\ Turns
    BY DEF IInv
  <1>2. /\ pc \notin {"body", "handle", "write"} /\ pc' \notin {"body", "handle", "write"}
        /\ UNCHANGED <<out, stream, back, cpc, asked>>
        /\ pc' = "lost" => Current' \in Unreliable
    BY DEF Select, Accept, EndWalk, Skip, ReadHeaderCut, AtReady, NextClient, Lose,
           Current, clientVars
  <1>3. \A d \in Clients : Flow(d)' = Flow(d) /\ ~ Answering(d) /\ ~ Answering(d)'
    BY <1>2, SameFlows DEF Answering
  <1>4. Flows'
    BY <1>1, <1>2, <1>3 DEF Flows
  <1>5. Turns'
    BY <1>1, <1>2, <1>3 DEF Turns, Turn, Asking
  <1> QED BY <1>4, <1>5

LEMMA RequestFlows == ASSUME IInv, HandleRequest PROVE Flows' /\ Turns'
  <1>1. Flows /\ Turns /\ vec \in Seq(Atoms)
    BY DEF IInv, Types
  <1>2. /\ pc = "handle" /\ pc' = "write" /\ vec[1] = Mode(0) /\ answer'.n = vec[2].n
        /\ UNCHANGED <<list, pos, out, stream, back, cpc, asked>>
    <2>1. answer'.n = vec[2].n
      BY DEF HandleRequest, FileUpload
    <2> QED BY <2>1 DEF HandleRequest, clientVars
  <1>3. \A d \in Clients : Flow(d)' = Flow(d) /\ Answering(d)' = Answering(d)
    BY <1>2, SameFlows DEF Answering, Current
  <1>4. Flows'
    BY <1>1, <1>2, <1>3 DEF Flows
  <1>5. ASSUME NEW d \in Clients PROVE Turn(d)'
    <2>1. Turn(d)
      BY <1>1 DEF Turns
    <2>2. cpc[d] = "reply" /\ Answering(d) => answer'.n = asked[d].n
      BY <1>2, <2>1 DEF Turn
    <2> QED BY <1>2, <1>3, <2>1, <2>2 DEF Turn, Asking
  <1> QED BY <1>4, <1>5 DEF Turns

LEMMA WriteFlows == ASSUME IInv, Write PROVE Flows' /\ Turns'
  <1> DEFINE c == Current
  <1>1. Types /\ Placed /\ Flows /\ Turns /\ c \in Clients
    BY AtCurrent DEF IInv, Placed, Write
  <1> HIDE DEF c
  <1>2. /\ pc = "write" /\ pc' = "walk"
        /\ UNCHANGED <<out, stream, cpc, asked>>
        /\ back' = IF cpc[c] = "off" THEN back ELSE [back EXCEPT ![c] = Append(@, answer)]
    BY DEF Write, NextClient, clientVars, c
  <1>3. /\ \A d \in Clients : Flow(d)' = Flow(d) /\ ~ Answering(d)'
        /\ Answering(c)
    BY <1>2, SameFlows DEF Answering, c
  <1>4. Flows'
    BY <1>1, <1>2, <1>3 DEF Flows
  <1>5. ASSUME NEW d \in Clients PROVE Turn(d)'
    <2>1. Turn(d) /\ back[d] \in Seq(Answers) /\ answer \in Answers
      BY <1>1 DEF Turns, Types
    <2>2. CASE d # c \/ cpc[c] = "off"
      <3>1. back'[d] = back[d]
        BY <1>1, <1>2, <2>2 DEF Types
      <3> QED BY <1>2, <1>3, <2>1, <3>1 DEF Turn, Asking
    <2>3. CASE d = c /\ cpc[c] # "off"
      <3>1. /\ cpc[d] = "reply" /\ ~ Asking(d) /\ back[d] = << >>
            /\ answer.n = asked[d].n
        BY <1>1, <1>2, <1>3, <2>1, <2>3 DEF Turn, Types
      <3>2. back'[d] = Append(back[d], answer)
        BY <1>1, <1>2, <2>3 DEF Types
      <3>3. Len(back'[d]) = 1 /\ back'[d][1] = answer
        BY <2>1, <3>1, <3>2
      <3> QED BY <1>2, <1>3, <2>1, <3>1, <3>3 DEF Turn, Asking
    <2> QED BY <2>2, <2>3
  <1> QED BY <1>4, <1>5 DEF Turns

LEMMA ChunkFlows == ASSUME IInv, HandleChunk PROVE Flows' /\ Turns'
  <1>1. Flows /\ Turns
    BY DEF IInv
  <1>2. /\ pc = "handle" /\ pc' = "walk" /\ vec[1] = Mode(1)
        /\ UNCHANGED <<out, stream, back, cpc, asked>>
    BY DEF HandleChunk, NextClient, clientVars
  <1>3. \A d \in Clients : Flow(d)' = Flow(d) /\ ~ Answering(d) /\ ~ Answering(d)'
    BY <1>2, SameFlows, Kinds DEF Answering
  <1>4. Flows'
    BY <1>1, <1>2, <1>3 DEF Flows
  <1>5. Turns'
    BY <1>1, <1>2, <1>3 DEF Turns, Turn, Asking
  <1> QED BY <1>4, <1>5

LEMMA DropFlows ==
  ASSUME IInv, ReadEnd \/ WriteFails, NEW c \in Clients, c = Current
  PROVE  Flows' /\ Turns'
  <1>1. Types /\ Flows /\ Turns
    BY DEF IInv
  <1>2. /\ pc \in {"walk", "write"} /\ pc' = "walk" /\ cpc[c] = "off"
        /\ UNCHANGED <<cpc, asked>>
        /\ out' = [out EXCEPT ![c] = << >>]
        /\ stream' = [stream EXCEPT ![c] = << >>]
        /\ back' = [back EXCEPT ![c] = << >>]
    BY DEF ReadEnd, WriteFails, AtReady, Ended, Drop, Forget, clientVars
  <1>3. /\ out'[c] = << >> /\ stream'[c] = << >> /\ back'[c] = << >>
        /\ \A d \in Clients \ {c} :
             out'[d] = out[d] /\ stream'[d] = stream[d] /\ back'[d] = back[d]
    BY <1>1, <1>2 DEF Types
  <1>4. Flow(c)' = << >>
    BY <1>2, <1>3, NothingFlows
  <1>5. \A d \in Clients \ {c} : Flow(d)' = Flow(d) /\ ~ Answering(d)
    BY <1>2, <1>3 DEF Flow, Taken, Answering
  <1>6. \A d \in Clients : ~ Answering(d)'
    BY <1>2 DEF Answering
  <1>7. ASSUME NEW d \in Clients
        PROVE  /\ Framed(Flow(d)')
               /\ d \notin Unreliable \/ cpc'[d] # "off" => Complete(Flow(d)')
    <2>1. CASE d = c
      BY <1>4, <2>1, EmptyFlow
    <2>2. CASE d # c
      BY <1>1, <1>2, <1>5, <2>2 DEF Flows
    <2> QED BY <2>1, <2>2
  <1>8. Flows'
    BY <1>2, <1>7 DEF Flows
  <1>9. ASSUME NEW d \in Clients PROVE Turn(d)'
    <2>1. CASE d = c
      BY <1>2, <1>3, <2>1 DEF Turn
    <2>2. CASE d # c
      BY <1>1, <1>2, <1>3, <1>5, <1>6, <2>2 DEF Turns, Turn, Asking
    <2> QED BY <2>1, <2>2
  <1> QED BY <1>8, <1>9 DEF Turns

\* What is taken at the current client leaves the flows of the others alone.
LEMMA OtherFlows ==
  ASSUME NEW c \in Clients, c = Current, c = Current', UNCHANGED out,
         \A d \in Clients \ {c} : stream'[d] = stream[d]
  PROVE  \A d \in Clients \ {c} : Flow(d)' = Flow(d)
  BY DEF Flow, Taken

\* The size that was read stays at the front of the flow.
LEMMA HeaderFlow ==
  ASSUME IInv, ReadHeader, NEW c \in Clients, c = Current
  PROVE  \A d \in Clients : Flow(d)' = Flow(d)
  <1> DEFINE x == stream[c]
  <1>1. Types /\ AtReady /\ x # << >>
    BY DEF IInv, ReadHeader
  <1>2. Head(x) = Size(Head(x).n) /\ Head(x).n \in Nat /\ Head(x).n >= 2
    BY HeaderAtHead, <1>1
  <1>3. /\ pc = "walk" /\ pc' = "body" /\ pending' = Head(x).n /\ vec' = << >>
        /\ UNCHANGED <<list, pos, out, back, cpc, asked>>
        /\ stream'[c] = Tail(x) /\ \A d \in Clients \ {c} : stream'[d] = stream[d]
    BY <1>1, <1>2 DEF ReadHeader, AtReady, Types, clientVars
  <1>4. Current' = c
    BY <1>3 DEF Current
  <1>5. x \in Seq(Atoms) /\ out[c] \in Seq(Atoms)
    BY <1>1, FlowType
  <1>6. Flow(c)' = Flow(c)
    <2> DEFINE h == <<Head(x)>>
               o == out[c]
    <2>1. Taken(c)' = h \o << >>
      <3>1. Len(vec') + pending' = Head(x).n
        BY <1>2, <1>3
      <3>2. Taken(c)' = <<Size(Head(x).n)>> \o << >>
        BY <1>3, <1>4, <3>1 DEF Taken
      <3> QED BY <1>2, <3>2
    <2>2. Flow(c)' = (h \o << >>) \o (Tail(x) \o o)
      BY <1>3, <2>1 DEF Flow
    <2>3. Flow(c) = << >> \o (x \o o)
      BY <1>3 DEF Flow, Taken
    <2>4. x \in Seq(Atoms) /\ o \in Seq(Atoms) /\ x # << >>
      BY <1>1, <1>5
    <2> HIDE DEF x, o
    <2>5. h \in Seq(Atoms) /\ Tail(x) \in Seq(Atoms) /\ h \o Tail(x) = x
      BY <2>4
    <2> HIDE DEF h
    <2>6. h \o << >> = h
      BY <2>5, ConcatEmptySeq
    <2>7. << >> \o (x \o o) = x \o o
      BY <2>4, Joined, ConcatEmptySeq
    <2>8. h \o (Tail(x) \o o) = (h \o Tail(x)) \o o
      <3>1. h \in Seq(Atoms)
        BY <2>5
      <3>2. Tail(x) \in Seq(Atoms)
        BY <2>5
      <3>3. o \in Seq(Atoms)
        BY <2>4
      <3> QED BY <3>1, <3>2, <3>3, Group, Zenon
    <2>9. (h \o Tail(x)) \o o = x \o o
      BY <2>5
    <2> QED BY <2>2, <2>3, <2>6, <2>7, <2>8, <2>9, Zenon
  <1>7. \A d \in Clients \ {c} : Flow(d)' = Flow(d)
    BY <1>3, <1>4, OtherFlows
  <1> QED BY <1>6, <1>7

LEMMA HeaderFlows ==
  ASSUME IInv, ReadHeader, NEW c \in Clients, c = Current
  PROVE  Flows' /\ Turns'
  <1>1. Types /\ Flows /\ Turns /\ AtReady /\ stream[c] # << >>
    BY DEF IInv, ReadHeader
  <1>2. Head(stream[c]).n \in Nat /\ Head(stream[c]).n >= 2
    BY HeaderAtHead, <1>1
  <1>3. /\ pc = "walk" /\ pc' = "body" /\ pending' = Head(stream[c]).n
        /\ UNCHANGED <<back, cpc, asked>>
    BY <1>1 DEF ReadHeader, AtReady, clientVars
  <1>7. \A d \in Clients : Flow(d)' = Flow(d)
    BY HeaderFlow
  <1>8. Flows'
    BY <1>1, <1>2, <1>3, <1>7 DEF Flows
  <1>9. \A d \in Clients : ~ Answering(d) /\ ~ Answering(d)'
    BY <1>3 DEF Answering
  <1>10. Turns'
    BY <1>1, <1>3, <1>7, <1>9 DEF Turns, Turn, Asking
  <1> QED BY <1>8, <1>10

\* A flow that ends inside a frame is that of an unreliable client.
LEMMA EndFlows ==
  ASSUME IInv, ReadBodyEnd, NEW c \in Clients, c = Current
  PROVE  Flows' /\ Turns'
  <1>1. Types /\ Flows /\ Turns /\ pc = "body" /\ vec \in Seq(Atoms)
    BY DEF IInv, ReadBodyEnd, Types
  <1>2. /\ cpc[c] = "off" /\ out[c] = << >> /\ stream[c] = << >> /\ pc' = "lost"
        /\ UNCHANGED <<list, pos, out, stream, back, cpc, asked>>
    BY DEF ReadBodyEnd, Ended, Lose, clientVars
  <1>3. Current' = c
    BY <1>2 DEF Current
  <1>4. c \in Unreliable
    <2> DEFINE n == Len(vec) + pending
               t == <<Size(n)>> \o vec
    <2>1. n \in Nat /\ pending > 0 /\ Len(vec) \in Nat /\ pending \in Nat
      BY <1>1 DEF Types, Flows
    <2>2. Size(n) \in Atoms /\ Size(n).kind = "size" /\ Size(n).n = n
      BY <2>1, Kinds
    <2>3. t \in Seq(Atoms) /\ Len(t) = 1 + Len(vec) /\ t[1] = Size(n)
      <3> HIDE DEF n
      <3> QED BY <1>1, <2>2
    <2>4. Flow(c) = t
      <3>1. Flow(c) = t \o (<< >> \o << >>)
        BY <1>1, <1>2 DEF Flow, Taken
      <3> HIDE DEF t
      <3>2. << >> \o << >> = << >> /\ t \o << >> = t
        BY <2>3, ConcatEmptySeq
      <3> QED BY <3>1, <3>2
    <2> HIDE DEF t
    <2>5. ~ Complete(t)
      <3>1. 1 \in 1 .. Len(t) /\ t[1].kind = "size" /\ t[1].n = n
        BY <1>1, <2>2, <2>3
      <3>2. ~ (1 + n <= Len(t))
        BY <2>1, <2>3
      <3> QED BY <3>1, <3>2 DEF Complete
    <2> QED BY <1>1, <2>4, <2>5 DEF Flows
  <1>5. Flow(c)' = << >>
    BY <1>2, NothingFlows
  <1>6. \A d \in Clients \ {c} : Flow(d)' = Flow(d)
    BY <1>2, <1>3, OtherFlows
  <1>7. ASSUME NEW d \in Clients
        PROVE  /\ Framed(Flow(d)')
               /\ d \notin Unreliable \/ cpc'[d] # "off" => Complete(Flow(d)')
    <2>1. CASE d = c
      BY <1>5, <2>1, EmptyFlow
    <2>2. CASE d # c
      BY <1>1, <1>2, <1>6, <2>2 DEF Flows
    <2> QED BY <2>1, <2>2
  <1>8. Flows'
    BY <1>2, <1>3, <1>4, <1>7 DEF Flows
  <1>9. ASSUME NEW d \in Clients PROVE Turn(d)'
    <2>1. ~ Answering(d) /\ ~ Answering(d)'
      BY <1>1, <1>2 DEF Answering
    <2>2. CASE d = c
      BY <1>1, <1>2, <2>2 DEF Turns, Turn
    <2>3. CASE d # c
      BY <1>1, <1>2, <1>6, <2>1, <2>3 DEF Turns, Turn, Asking
    <2> QED BY <2>2, <2>3
  <1> QED BY <1>8, <1>9 DEF Turns

\* The bytes that were read stay in the flow, until the frame is whole.
LEMMA BodyFlow ==
  ASSUME IInv, ReadBody, NEW c \in Clients, c = Current
  PROVE  /\ vec' \in Seq(Atoms) /\ Flow(c)' \in Seq(Atoms)
         /\ UNCHANGED <<list, pos, out, back, cpc, asked>>
         /\ \A d \in Clients \ {c} : stream'[d] = stream[d]
         /\ \/ pc' = "body" /\ pending' > 0 /\ Flow(c)' = Flow(c)
            \/ pc' = "handle" /\ Flow(c) = Framing(vec') \o Flow(c)'
  <1> DEFINE x == stream[c]
             o == out[c]
             n == Len(vec) + pending
             k == IF Len(x) > pending THEN pending ELSE Len(x)
             p == SubSeq(x, 1, k)
             q == SubSeq(x, k + 1, Len(x))
  <1>1. /\ Types /\ Types' /\ pc = "body" /\ vec \in Seq(Atoms) /\ pending \in Nat
        /\ x \in Seq(Atoms) /\ o \in Seq(Atoms)
    <2>1. ServerStep
      BY DEF ServerStep
    <2> QED BY <2>1, ServerTypes, FlowType DEF IInv, ReadBody, Types
  <1>2. /\ vec' = vec \o p /\ pending' = pending - k
        /\ pc' = (IF k = pending THEN "handle" ELSE "body")
        /\ UNCHANGED <<list, pos, out, back, cpc, asked>>
        /\ stream'[c] = q
        /\ \A d \in Clients \ {c} : stream'[d] = stream[d]
    BY <1>1 DEF ReadBody, Types, clientVars
  <1>3. k \in Nat /\ k <= Len(x) /\ k <= pending /\ Current' = c /\ Len(vec) \in Nat
    BY <1>1, <1>2 DEF Current
  <1> HIDE DEF k
  <1>4. p \in Seq(Atoms) /\ q \in Seq(Atoms) /\ Len(p) = k /\ p \o q = x
    <2>1. p \in Seq(Atoms) /\ q \in Seq(Atoms)
      BY <1>1, <1>3, Part
    <2>2. Len(p) = k
      BY <1>1, <1>3
    <2>3. p \o q = SubSeq(x, 1, Len(x)) /\ SubSeq(x, 1, Len(x)) = x
      <3>1. x \in Seq(Atoms) /\ 1 \in 1 .. Len(x) + 1 /\ k \in 1 - 1 .. Len(x)
            /\ Len(x) \in k .. Len(x)
        BY <1>1, <1>3
      <3> HIDE DEF x
      <3>2. SubSeq(x, 1, k) \o SubSeq(x, k + 1, Len(x)) = SubSeq(x, 1, Len(x))
        BY <3>1, ConcatAdjacentSubSeq
      <3>3. SubSeq(x, 1, Len(x)) = x
        BY <3>1, SubSeqFull
      <3> QED BY <3>2, <3>3
    <2> QED BY <2>1, <2>2, <2>3
  <1>5. Flow(c) = (<<Size(n)>> \o vec) \o (x \o o)
    BY <1>1 DEF Flow, Taken
  <1>6. <<Size(n)>> \in Seq(Atoms)
    <2>1. n \in Nat
      BY <1>1, <1>3
    <2> QED BY <2>1, Kinds
  <1>7. Len(vec') = Len(vec) + k
    <2> HIDE DEF p
    <2>1. Len(vec \o p) = Len(vec) + Len(p)
      BY <1>1, <1>4, Joined
    <2> QED BY <1>2, <1>4, <2>1
  <1> HIDE DEF p, q, x, o
  <1>8. Flow(c) = (<<Size(n)>> \o vec') \o (q \o o)
    <2> DEFINE h == <<Size(n)>>
    <2>1. h \in Seq(Atoms)
      BY <1>6
    <2> HIDE DEF h
    <2>2. vec \in Seq(Atoms)
      BY <1>1
    <2>3. p \in Seq(Atoms)
      BY <1>4
    <2>4. q \in Seq(Atoms)
      BY <1>4
    <2>5. o \in Seq(Atoms)
      BY <1>1
    <2> DEFINE r == q \o o
               w == vec \o p
    <2>6. (p \o q) \o o = p \o r
      BY <2>3, <2>4, <2>5, Group, Zenon
    <2>7. r \in Seq(Atoms)
      BY <2>4, <2>5, Joined
    <2>8. w \in Seq(Atoms)
      BY <2>2, <2>3, Joined
    <2> HIDE DEF r
    <2>9. w \o r = vec \o (p \o r)
      BY <2>2, <2>3, <2>7, Group, Zenon
    <2>10. p \o r \in Seq(Atoms)
      BY <2>3, <2>7, Joined
    <2>11. (h \o vec) \o (p \o r) = h \o (vec \o (p \o r))
      BY <2>1, <2>2, <2>10, Group, Zenon
    <2> HIDE DEF w
    <2>12. (h \o w) \o r = h \o (w \o r)
      BY <2>1, <2>7, <2>8, Group, Zenon
    <2>13. Flow(c) = (h \o vec) \o ((p \o q) \o o)
      BY <1>4, <1>5 DEF h
    <2>14. Flow(c) = (h \o w) \o r
      BY <2>6, <2>9, <2>11, <2>12, <2>13, Zenon
    <2> QED BY <1>2, <2>14 DEF h, r, w
  <1>9. vec' \in Seq(Atoms) /\ q \o o \in Seq(Atoms) /\ Flow(c) \in Seq(Atoms)
    BY <1>1, <1>2, <1>4, Joined, FlowType
  <1>10. CASE k # pending
    <2>1. pc' = "body" /\ pending' > 0 /\ Len(vec') + pending' = n
      BY <1>1, <1>2, <1>3, <1>7, <1>10
    <2>2. Taken(c)' = <<Size(n)>> \o vec'
      BY <1>3, <2>1 DEF Taken
    <2>3. Flow(c)' = (<<Size(n)>> \o vec') \o (q \o o)
      BY <1>2, <2>2 DEF Flow, o
    <2> QED BY <1>2, <1>8, <1>9, <2>1, <2>3
  <1>11. CASE k = pending
    <2>1. pc' = "handle" /\ Len(vec') = n
      BY <1>2, <1>7, <1>11
    <2>2. Flow(c)' = << >> \o (q \o o)
      BY <1>2, <2>1 DEF Flow, Taken, o
    <2>3. Flow(c)' = q \o o
      BY <1>9, <2>2, ConcatEmptySeq
    <2> QED BY <1>2, <1>8, <1>9, <2>1, <2>3 DEF Framing
  <1> QED BY <1>10, <1>11

LEMMA BodyFlows ==
  ASSUME IInv, ReadBody, NEW c \in Clients, c = Current
  PROVE  Flows' /\ Turns'
  <1> DEFINE b == vec'
  <1>1. Types /\ Flows /\ Turns /\ pc = "body"
    BY DEF IInv, ReadBody
  <1>2. /\ b \in Seq(Atoms) /\ Flow(c)' \in Seq(Atoms)
        /\ UNCHANGED <<list, pos, out, back, cpc, asked>>
        /\ \A d \in Clients \ {c} : stream'[d] = stream[d]
        /\ \/ pc' = "body" /\ pending' > 0 /\ Flow(c)' = Flow(c)
           \/ pc' = "handle" /\ Flow(c) = Framing(b) \o Flow(c)'
    BY BodyFlow
  <1>3. c = Current'
    BY <1>2 DEF Current
  <1>4. \A d \in Clients \ {c} : Flow(d)' = Flow(d)
    BY <1>2, <1>3, OtherFlows
  <1>5. \A d \in Clients \ {c} : ~ Answering(d) /\ ~ Answering(d)'
    BY <1>1, <1>2, <1>3 DEF Answering
  <1>6. CASE pc' = "body" /\ pending' > 0 /\ Flow(c)' = Flow(c)
    <2>1. \A d \in Clients : Flow(d)' = Flow(d) /\ ~ Answering(d) /\ ~ Answering(d)'
      BY <1>1, <1>4, <1>6 DEF Answering
    <2>2. Flows'
      BY <1>1, <1>2, <1>6, <2>1 DEF Flows
    <2>3. Turns'
      BY <1>1, <1>2, <1>6, <2>1 DEF Turns, Turn, Asking
    <2> QED BY <2>2, <2>3
  <1>7. CASE pc' = "handle" /\ Flow(c) = Framing(b) \o Flow(c)'
    <2>1. Framed(Flow(c)) /\ (c \notin Unreliable \/ cpc[c] # "off" => Complete(Flow(c)))
      BY <1>1 DEF Flows
    <2> DEFINE u == Flow(c)'
    <2>2. b \in Seq(Atoms) /\ u \in Seq(Atoms) /\ Flow(c) = Framing(b) \o u
      BY <1>2, <1>7
    <2> HIDE DEF b, u
    <2>3. Framed(Framing(b) \o u)
      BY <2>1, <2>2
    <2>4. Body(b) /\ Framed(u) /\ (Complete(Framing(b) \o u) => Complete(u))
      BY <2>2, <2>3, TakeFramed
    <2>5. /\ HasAsk(u) => Asking(c)
          /\ b[1] = Mode(0) => Asking(c)
          /\ \A a : OneAsk(Flow(c), a) =>
               OneAsk(u, a) /\ (b[1] = Mode(0) => b[2] = a /\ ~ HasAsk(u))
      BY <2>2, <2>4, AskTaken DEF Asking
    <2>6. Flows'
      <3>1. ASSUME NEW d \in Clients
            PROVE  /\ Framed(Flow(d)')
                   /\ d \notin Unreliable \/ cpc'[d] # "off" => Complete(Flow(d)')
        <4>1. CASE d = c
          BY <1>2, <2>1, <2>2, <2>4, <4>1 DEF u
        <4>2. CASE d # c
          BY <1>1, <1>2, <1>4, <4>2 DEF Flows
        <4> QED BY <4>1, <4>2
      <3> QED BY <1>7, <2>4, <3>1 DEF Flows, b
    <2>7. Answering(c)' <=> b[1] = Mode(0)
      BY <1>3, <1>7 DEF Answering, b
    <2>8. Turn(c)'
      <3>1. Turn(c)
        BY <1>1 DEF Turns
      <3>2. CASE cpc[c] # "reply"
        BY <1>2, <2>5, <2>7, <3>1, <3>2 DEF Turn, Asking, u
      <3>3. CASE cpc[c] = "reply"
        <4>1. OneAsk(Flow(c), asked[c]) /\ (Asking(c) => back[c] = << >>)
          BY <3>1, <3>3 DEF Turn
        <4> QED BY <1>2, <1>7, <2>5, <2>7, <3>1, <3>3, <4>1 DEF Turn, Asking, u, b
      <3> QED BY <3>2, <3>3
    <2>9. ASSUME NEW d \in Clients \ {c} PROVE Turn(d)'
      BY <1>1, <1>2, <1>4, <1>5, <2>9 DEF Turns, Turn, Asking
    <2> QED BY <2>6, <2>8, <2>9 DEF Turns
  <1> QED BY <1>2, <1>6, <1>7

LEMMA ServerFlows == ASSUME IInv, ServerStep PROVE Flows' /\ Turns'
  <1>1. CASE Select \/ Accept \/ EndWalk \/ Skip \/ ReadHeaderCut
    BY <1>1, QuietFlows
  <1>2. CASE HandleRequest \/ Write \/ HandleChunk
    BY <1>2, RequestFlows, WriteFlows, ChunkFlows
  <1>3. CASE ReadHeader \/ ReadBody \/ ReadBodyEnd \/ ReadEnd \/ WriteFails
    <2>1. Types /\ Placed /\ pos <= Len(list)
      BY <1>3 DEF IInv, Placed, ReadHeader, ReadBody, ReadBodyEnd, ReadEnd, WriteFails,
                  AtReady
    <2>2. Current \in Clients
      BY <2>1, AtCurrent
    <2> QED BY <1>3, <2>2, HeaderFlows, BodyFlows, EndFlows, DropFlows
  <1> QED BY <1>1, <1>2, <1>3 DEF ServerStep

-----------------------------------------------------------------------------
(***************************************************************************)
(* The theorems.                                                           *)
(***************************************************************************)
LEMMA InitInv == Init => IInv
  <1> SUFFICES ASSUME Init PROVE IInv
    OBVIOUS
  <1>1. /\ pc = "select" /\ list = << >> /\ backlog = << >> /\ ready = {} /\ pos = 1
        /\ pending = 0 /\ vec = << >> /\ answer = NoAnswer
        /\ link = [c \in Clients |-> "none"] /\ cpc = [c \in Clients |-> "off"]
        /\ out = [c \in Clients |-> << >>] /\ stream = [c \in Clients |-> << >>]
        /\ back = [c \in Clients |-> << >>] /\ left = [c \in Clients |-> << >>]
        /\ seq = [c \in Clients |-> 1 % SeqModulus]
        /\ asked = [c \in Clients |-> NoAsk]
    BY DEF Init
  <1>2. Types
    <2>1. NoAnswer \in Answers /\ NoAsk \in Asks /\ 1 % SeqModulus \in 0 .. SeqModulus - 1
      BY ModulusAssumption DEF NoAnswer, Answers, NoAsk, Ask, Asks
    <2> QED BY <1>1, <2>1, EmptySeq DEF Types
  <1>3. Placed /\ Away
    BY <1>1 DEF Placed, Away, Once, Contains
  <1>4. \A c \in Clients : Flow(c) = << >> /\ ~ Answering(c)
    BY <1>1, <1>2, <1>3, NoFlow
  <1>5. Flows
    BY <1>1, <1>4, EmptyFlow DEF Flows
  <1>6. Turns
    BY <1>1, <1>4, EmptyFlow DEF Turns, Turn, Asking
  <1> QED BY <1>2, <1>3, <1>5, <1>6 DEF IInv

LEMMA Invariant == Spec => []IInv
  <1>1. Init => IInv
    BY InitInv
  <1>2. IInv /\ [Next]_vars => IInv'
    <2> SUFFICES ASSUME IInv, [Next]_vars PROVE IInv'
      OBVIOUS
    <2>1. CASE ServerStep
      BY <2>1, ServerTypes, ServerPlaces, ServerFlows DEF IInv
    <2>2. ASSUME NEW c \in Clients, ClientStep(c) PROVE IInv'
      BY <2>2, ClientTypes, ClientPlaces, ClientFlows DEF IInv
    <2>3. CASE UNCHANGED vars
      BY <2>3 DEF vars, serverVars, clientVars, contexts, IInv, Types, Placed, Away,
                  Flows, Turns, Turn, Asking, Answering, Flow, Taken, Current
    <2> QED BY <2>1, <2>2, <2>3 DEF Next
  <1> QED BY <1>1, <1>2, PTL DEF Spec

\* However connections come and go, each is in the list once, or waits for accept
\* once, or is closed (cf_stp.c:459,479,538).
THEOREM ListsConnections == Spec => []ConnectionsListed
  <1>1. IInv => ConnectionsListed
    <2> SUFFICES ASSUME Types, Placed PROVE ConnectionsListed
      BY DEF IInv
    <2>1. /\ list \in Seq(Clients) /\ backlog \in Seq(Clients)
          /\ \A c \in Clients : ~ (Contains(list, c) /\ Contains(backlog, c))
      BY DEF Types, Placed
    <2>2. IsInjective(list \o backlog)
      <3> DEFINE s == list \o backlog
      <3>1. /\ Len(s) = Len(list) + Len(backlog) /\ DOMAIN s = 1 .. Len(s)
            /\ \A i \in 1 .. Len(list) : s[i] = list[i] /\ list[i] \in Clients
            /\ \A i \in 1 .. Len(backlog) : s[Len(list) + i] = backlog[i]
            /\ Len(list) \in Nat /\ Len(backlog) \in Nat
        BY <2>1
      <3> HIDE DEF s
      <3>2. \A i \in 1 .. Len(list), j \in 1 .. Len(backlog) : list[i] # backlog[j]
        BY <2>1, <3>1 DEF Contains
      <3>3. ASSUME NEW i \in 1 .. Len(s), NEW j \in 1 .. Len(s), s[i] = s[j]
            PROVE  i = j
        <4>1. CASE i <= Len(list) /\ j <= Len(list)
          BY <3>1, <3>3, <4>1 DEF Placed, Once
        <4>2. CASE i > Len(list) /\ j > Len(list)
          <5>1. /\ i - Len(list) \in 1 .. Len(backlog) /\ s[i] = backlog[i - Len(list)]
                /\ j - Len(list) \in 1 .. Len(backlog) /\ s[j] = backlog[j - Len(list)]
            <6>1. \A n \in 1 .. Len(s) : n > Len(list) =>
                    n - Len(list) \in 1 .. Len(backlog) /\ Len(list) + (n - Len(list)) = n
              BY <3>1
            <6> QED BY <3>1, <4>2, <6>1
          <5>2. i - Len(list) = j - Len(list)
            BY <3>3, <5>1 DEF Placed, Once
          <5> QED BY <3>1, <5>2
        <4>3. ASSUME NEW m \in 1 .. Len(s), NEW n \in 1 .. Len(s),
                     m <= Len(list), n > Len(list)
              PROVE  s[m] # s[n]
          <5>1. n - Len(list) \in 1 .. Len(backlog) /\ Len(list) + (n - Len(list)) = n
            BY <3>1, <4>3
          <5>2. s[n] = backlog[n - Len(list)] /\ s[m] = list[m] /\ m \in 1 .. Len(list)
            BY <3>1, <4>3, <5>1
          <5> QED BY <3>2, <5>1, <5>2
        <4> QED BY <3>1, <3>3, <4>1, <4>2, <4>3
      <3> QED BY <3>1, <3>3 DEF IsInjective, s
    <2>3. ToSet(list) = {c \in Clients : link[c] = "up"}
      BY <2>1 DEF ToSet, Contains, Placed
    <2>4. ToSet(backlog) = {c \in Clients : link[c] = "queued"}
      BY <2>1 DEF ToSet, Contains, Placed
    <2> QED BY <2>2, <2>3, <2>4 DEF ConnectionsListed
  <1> QED BY <1>1, Invariant, PTL

\* However the network cuts and merges what is written, the server never handles
\* part of a frame or more than one (cf_stp.c:485-502).
THEOREM HandlesWholeFrames == Spec => []WholeFrames
  <1>1. IInv => WholeFrames
    <2> SUFFICES ASSUME Types, Flows, pc = "handle"
                 PROVE  \/ Len(vec) = 2 /\ vec[1] = Mode(0) /\ vec[2].kind = "json"
                        \/ /\ Len(vec) \in 2 .. Chunk + 1 /\ vec[1] = Mode(1)
                           /\ \A i \in 2 .. Len(vec) : vec[i].kind = "data"
      BY DEF IInv, WholeFrames
    <2>1. vec \in Seq(Atoms) /\ Body(vec)
      BY DEF Types, Flows
    <2> QED BY <2>1, Bodies, Kinds
  <1> QED BY <1>1, Invariant, PTL

\* A client that waits gets one answer, to what it asked last, although it compares
\* no sequence number and however small the counter is (cf_stp.c:199-226).
THEOREM AnswersItsOwn == Spec => []OwnAnswer
  <1>1. IInv => OwnAnswer
    <2> SUFFICES ASSUME IInv, NEW c \in Clients
                 PROVE  /\ back[c] # << >> => cpc[c] = "reply" /\ Len(back[c]) = 1
                        /\ \A i \in 1 .. Len(back[c]) : back[c][i].n = asked[c].n
      BY DEF OwnAnswer
    <2>1. Turn(c) /\ back[c] \in Seq(Answers)
      BY DEF IInv, Turns, Types
    <2> QED BY <2>1 DEF Turn
  <1> QED BY <1>1, Invariant, PTL

\* The server goes on with a connection it has freed, or with part of a size, only
\* where the connection was cut inside a frame (cf_stp.c:473,496).
THEOREM LostOnlyWhenCut == Spec => []LostOnlyByCut
  <1>1. IInv => LostOnlyByCut
    BY DEF IInv, Flows, LostOnlyByCut
  <1> QED BY <1>1, Invariant, PTL

-----------------------------------------------------------------------------
(***************************************************************************)
(* Uploads: the files the server has open are those of its uploads, no     *)
(* data is lost, and an upload that ends has stored the whole file.  So    *)
(* far a flow is made of whole frames.  The invariant of this part numbers *)
(* the data in it: behind what is in the file they continue without gap as *)
(* far as the client has sent, and a request is behind all of them.        *)
(***************************************************************************)

-----------------------------------------------------------------------------
(***************************************************************************)
(* Numbered data.                                                          *)
(***************************************************************************)
DataAt(t) == {i \in 1 .. Len(t) : t[i].kind = "data"}

\* The data in t follow number a, increase, leave no number out and end at b at
\* the latest; data that stand together are consecutive.
Numbered(t, a, b) ==
    /\ \A i \in DataAt(t) : t[i].n \in a + 1 .. b
    /\ \A i, j \in DataAt(t) : i < j => t[i].n < t[j].n
    /\ \A i \in DataAt(t) : \A m \in a + 1 .. t[i].n : \E j \in 1 .. i : t[j] = Data(m)
    /\ \A i, j \in DataAt(t) :
         i <= j /\ i .. j \subseteq DataAt(t) => t[j].n = t[i].n + (j - i)

\* The last number is b itself.
Reaches(t, a, b) == b = a \/ \E i \in 1 .. Len(t) : t[i] = Data(b)

LEMMA DataKind ==
  /\ \A n : Data(n).kind = "data" /\ Data(n).n = n
  /\ \A n, m : Data(n) = Data(m) => n = m
  /\ \A a \in Chunks : a = Data(a.n) /\ a.n \in Nat
  /\ \A a \in Atoms : a.kind = "data" => a = Data(a.n) /\ a.n \in Nat
  BY DEF Data, Chunks, Atoms, Sizes, Modes, Asks

LEMMA NumberedWiden ==
  ASSUME NEW t \in Seq(Atoms), NEW a \in Nat, NEW b \in Nat, NEW c \in Nat, b <= c,
         Numbered(t, a, b)
  PROVE  Numbered(t, a, c)
  <1>1. \A i \in DataAt(t) : t[i].n \in Nat
    BY DataKind DEF DataAt
  <1> QED BY <1>1 DEF Numbered

LEMMA NumberedNone ==
  ASSUME NEW t, NEW a, NEW b, DataAt(t) = {} PROVE Numbered(t, a, b)
  BY DEF Numbered

\* The front of numbered data.
LEMMA NumberedHead ==
  ASSUME NEW p \in Seq(Atoms), NEW q \in Seq(Atoms), NEW a \in Nat, NEW b \in Nat,
         Numbered(p \o q, a, b)
  PROVE  Numbered(p, a, b)
  <1> DEFINE t == p \o q
  <1>1. Len(p) \in Nat /\ Len(q) \in Nat /\ Len(t) = Len(p) + Len(q)
    BY Joined
  <1>2. \A i \in 1 .. Len(p) : i \in 1 .. Len(t) /\ t[i] = p[i]
    BY <1>1, Joined
  <1>3. Numbered(t, a, b)
    OBVIOUS
  <1> HIDE DEF t
  <1>4. \A i \in DataAt(p) : i \in DataAt(t) /\ t[i] = p[i] /\ i \in 1 .. Len(p)
    BY <1>2 DEF DataAt
  <1>5. \A i \in DataAt(p) : p[i].n \in a + 1 .. b
    BY <1>3, <1>4 DEF Numbered
  <1>6. \A i, j \in DataAt(p) : i < j => p[i].n < p[j].n
    BY <1>3, <1>4 DEF Numbered
  <1>7. ASSUME NEW i \in DataAt(p), NEW m \in a + 1 .. p[i].n
        PROVE  \E j \in 1 .. i : p[j] = Data(m)
    <2>1. PICK j \in 1 .. i : t[j] = Data(m)
      BY <1>3, <1>4 DEF Numbered
    <2>2. j \in 1 .. Len(p)
      BY <1>1, <1>4
    <2> QED BY <1>2, <2>1, <2>2
  <1>8. ASSUME NEW i \in DataAt(p), NEW j \in DataAt(p),
               i <= j, i .. j \subseteq DataAt(p)
        PROVE  p[j].n = p[i].n + (j - i)
    <2>1. i .. j \subseteq DataAt(t)
      BY <1>4, <1>8
    <2>2. t[j].n = t[i].n + (j - i)
      BY <1>3, <1>4, <1>8, <2>1 DEF Numbered
    <2> QED BY <1>4, <2>2
  <1> QED BY <1>5, <1>6, <1>7, <1>8 DEF Numbered

\* The rest, when the front holds the first k numbers.
LEMMA NumberedTail ==
  ASSUME NEW p \in Seq(Atoms), NEW q \in Seq(Atoms),
         NEW a \in Nat, NEW b \in Nat, NEW k \in Nat, a <= b,
         Numbered(p \o q, a, b),
         \A i \in DataAt(p) : p[i].n <= a + k,
         k > 0 => \E i \in DataAt(p) : p[i].n = a + k
  PROVE  /\ a + k <= b
         /\ Numbered(q, a + k, b)
         /\ Reaches(p \o q, a, b) => Reaches(q, a + k, b)
  <1> DEFINE t == p \o q
             L == Len(p)
  <1>1. L \in Nat /\ Len(q) \in Nat /\ Len(t) = L + Len(q)
    BY Joined
  <1>2. \A i \in 1 .. L : i \in 1 .. Len(t) /\ t[i] = p[i]
    BY <1>1, Joined
  <1>3. \A i \in 1 .. Len(q) : L + i \in 1 .. Len(t) /\ t[L + i] = q[i]
    BY <1>1, Joined
  <1>4. Numbered(t, a, b)
    OBVIOUS
  <1>5. \A i \in 1 .. L : t[i].kind = "data" => t[i].n <= a + k /\ t[i].n \in Nat
    BY <1>2, DataKind DEF DataAt
  <1>6. k > 0 => \E i \in 1 .. L : i \in DataAt(t) /\ t[i].n = a + k
    BY <1>2 DEF DataAt
  <1>q. \A i \in DataAt(q) :
          /\ i \in 1 .. Len(q) /\ q[i].n \in Nat
          /\ L + i \in DataAt(t) /\ t[L + i] = q[i]
    BY <1>3, DataKind DEF DataAt
  <1> HIDE DEF t
  <1>7. a + k <= b
    BY <1>4, <1>6 DEF Numbered
  <1>8. ASSUME NEW i \in DataAt(q) PROVE q[i].n \in a + k + 1 .. b
    <2>1. t[L + i].n \in a + 1 .. b
      BY <1>4, <1>q DEF Numbered
    <2>2. CASE k = 0
      BY <1>q, <2>1, <2>2
    <2>3. CASE k > 0
      <3>1. PICK h \in 1 .. L : h \in DataAt(t) /\ t[h].n = a + k
        BY <1>6, <2>3
      <3>2. h < L + i
        BY <1>1, <1>q
      <3>3. t[h].n < t[L + i].n
        BY <1>4, <1>q, <3>1, <3>2 DEF Numbered
      <3> QED BY <1>q, <2>1, <3>1, <3>3
    <2> QED BY <2>2, <2>3
  <1>9. \A i, j \in DataAt(q) : i < j => q[i].n < q[j].n
    <2> SUFFICES ASSUME NEW i \in DataAt(q), NEW j \in DataAt(q), i < j
                 PROVE  t[L + i].n < t[L + j].n
      BY <1>q
    <2> QED BY <1>1, <1>4, <1>q DEF Numbered
  <1>10. ASSUME NEW i \in DataAt(q), NEW m \in a + k + 1 .. q[i].n
         PROVE  \E j \in 1 .. i : q[j] = Data(m)
    <2>1. m \in a + 1 .. t[L + i].n
      BY <1>q
    <2>2. PICK j \in 1 .. L + i : t[j] = Data(m)
      BY <1>4, <1>q, <2>1 DEF Numbered
    <2>3. ~ (j <= L)
      BY <1>5, <2>2, DataKind
    <2>4. j - L \in 1 .. i /\ L + (j - L) = j /\ j - L \in 1 .. Len(q)
      BY <1>1, <1>q, <2>3
    <2> QED BY <1>3, <2>2, <2>4
  <1>11. ASSUME NEW i \in DataAt(q), NEW j \in DataAt(q),
                i <= j, i .. j \subseteq DataAt(q)
         PROVE  q[j].n = q[i].n + (j - i)
    <2>1. ASSUME NEW m \in L + i .. L + j PROVE m \in DataAt(t)
      <3>1. m - L \in i .. j /\ L + (m - L) = m
        BY <1>1, <1>q
      <3> QED BY <1>11, <1>q, <3>1
    <2>2. L + i <= L + j /\ L + i .. L + j \subseteq DataAt(t)
      BY <1>1, <1>11, <1>q, <2>1
    <2>3. t[L + j].n = t[L + i].n + ((L + j) - (L + i))
      BY <1>4, <1>q, <2>2 DEF Numbered
    <2>4. (L + j) - (L + i) = j - i
      BY <1>1, <1>q
    <2> QED BY <1>q, <2>3, <2>4
  <1>12. ASSUME Reaches(t, a, b) PROVE Reaches(q, a + k, b)
    <2>1. CASE b = a
      BY <1>7, <2>1 DEF Reaches
    <2>2. ASSUME NEW j \in 1 .. Len(t), t[j] = Data(b) PROVE Reaches(q, a + k, b)
      <3>1. CASE j <= L
        BY <1>5, <1>7, <2>2, <3>1, DataKind DEF Reaches
      <3>2. CASE j > L
        <4>1. j - L \in 1 .. Len(q) /\ L + (j - L) = j
          BY <1>1, <3>2
        <4> QED BY <1>3, <2>2, <4>1 DEF Reaches
      <3> QED BY <1>1, <3>1, <3>2
    <2> QED BY <1>12, <2>1, <2>2 DEF Reaches
  <1> QED BY <1>7, <1>8, <1>9, <1>10, <1>11, <1>12 DEF Numbered, t

\* More data, numbered from m, behind data that reach m.
LEMMA NumberedMore ==
  ASSUME NEW t \in Seq(Atoms), NEW f \in Seq(Atoms),
         NEW a \in Nat, NEW m \in Nat, NEW k \in Nat, a <= m,
         Numbered(t, a, m), Reaches(t, a, m),
         Len(f) = k + 2, f[1].kind # "data", f[2].kind # "data",
         \A i \in 1 .. k : f[2 + i] = Data(m + i)
  PROVE  Numbered(t \o f, a, m + k) /\ Reaches(t \o f, a, m + k)
  <1> DEFINE u == t \o f
             L == Len(t)
  <1>1. L \in Nat /\ Len(u) = L + (k + 2)
    BY Joined
  <1>2. \A i \in 1 .. L : i \in 1 .. Len(u) /\ u[i] = t[i]
    BY <1>1, Joined
  <1>3. \A i \in 1 .. k + 2 : L + i \in 1 .. Len(u) /\ u[L + i] = f[i]
    BY <1>1, Joined
  <1> HIDE DEF u
  <1>4. \A i \in 1 .. k : L + 2 + i \in DataAt(u) /\ u[L + 2 + i] = Data(m + i)
    <2> TAKE i \in 1 .. k
    <2>1. 2 + i \in 1 .. k + 2 /\ L + (2 + i) = L + 2 + i
      BY <1>1
    <2> QED BY <1>3, <2>1, DataKind DEF DataAt
  <1>5. L + 1 \notin DataAt(u) /\ L + 2 \notin DataAt(u)
    <2>1. 1 \in 1 .. k + 2 /\ 2 \in 1 .. k + 2
      OBVIOUS
    <2> QED BY <1>3, <2>1 DEF DataAt
  <1>6. ASSUME NEW i \in DataAt(u)
        PROVE  \/ i \in DataAt(t) /\ u[i] = t[i] /\ i \in 1 .. L
               \/ i - L - 2 \in 1 .. k /\ u[i] = Data(m + (i - L - 2)) /\ i > L
    <2>1. i \in 1 .. Len(u)
      BY DEF DataAt
    <2>2. CASE i <= L
      BY <1>2, <2>1, <2>2 DEF DataAt
    <2>3. CASE i > L
      <3>1. i # L + 1 /\ i # L + 2
        BY <1>5
      <3>2. i - L - 2 \in 1 .. k /\ L + 2 + (i - L - 2) = i
        BY <1>1, <2>1, <2>3, <3>1
      <3> QED BY <1>4, <2>3, <3>2
    <2> QED BY <1>1, <2>1, <2>2, <2>3
  <1>7. \A i \in DataAt(t) : t[i].n \in a + 1 .. m
    BY DEF Numbered
  <1>8. \A i \in DataAt(u) : u[i].n \in a + 1 .. m + k
    <2> TAKE i \in DataAt(u)
    <2>1. CASE i \in DataAt(t) /\ u[i] = t[i]
      BY <1>7, <2>1
    <2>2. CASE i - L - 2 \in 1 .. k /\ u[i] = Data(m + (i - L - 2))
      BY <2>2, DataKind
    <2> QED BY <1>6, <2>1, <2>2
  <1>9. ASSUME NEW i \in DataAt(u), NEW j \in DataAt(u), i < j PROVE u[i].n < u[j].n
    <2>0. i \in Int /\ j \in Int
      BY DEF DataAt
    <2>1. CASE j \in DataAt(t) /\ u[j] = t[j] /\ j \in 1 .. L
      <3>1. i \in DataAt(t) /\ u[i] = t[i]
        BY <1>1, <1>6, <1>9, <2>0, <2>1
      <3> QED BY <1>9, <2>1, <3>1 DEF Numbered
    <2>2. CASE j - L - 2 \in 1 .. k /\ u[j] = Data(m + (j - L - 2))
      <3>1. CASE i \in DataAt(t) /\ u[i] = t[i]
        BY <1>7, <2>2, <3>1, DataKind
      <3>2. CASE i - L - 2 \in 1 .. k /\ u[i] = Data(m + (i - L - 2))
        BY <1>1, <1>9, <2>0, <2>2, <3>2, DataKind
      <3> QED BY <1>6, <3>1, <3>2
    <2> QED BY <1>6, <2>1, <2>2
  <1>10. \A h \in a + 1 .. m : \E j \in 1 .. L : u[j] = Data(h)
    <2> TAKE h \in a + 1 .. m
    <2>1. PICK i \in 1 .. L : t[i] = Data(m)
      BY DEF Reaches
    <2>2. i \in DataAt(t) /\ t[i].n = m
      BY <2>1, DataKind DEF DataAt
    <2>3. PICK j \in 1 .. i : t[j] = Data(h)
      BY <2>2 DEF Numbered
    <2>4. j \in 1 .. L
      BY <1>1
    <2> QED BY <1>2, <2>3, <2>4
  <1>11. ASSUME NEW i \in DataAt(u), NEW h \in a + 1 .. u[i].n
         PROVE  \E j \in 1 .. i : u[j] = Data(h)
    <2>1. CASE i \in DataAt(t) /\ u[i] = t[i] /\ i \in 1 .. L
      <3>1. PICK j \in 1 .. i : t[j] = Data(h)
        BY <2>1 DEF Numbered
      <3>2. j \in 1 .. L
        BY <1>1, <2>1
      <3> QED BY <1>2, <3>1, <3>2
    <2>2. CASE i - L - 2 \in 1 .. k /\ u[i] = Data(m + (i - L - 2)) /\ i > L
      <3>0. i \in Int
        BY DEF DataAt
      <3>1. CASE h <= m
        <4>1. PICK j \in 1 .. L : u[j] = Data(h)
          BY <1>10, <3>1
        <4>2. j \in 1 .. i
          BY <1>1, <2>2, <3>0
        <4> QED BY <4>1, <4>2
      <3>2. CASE h > m
        <4>1. h - m \in 1 .. k /\ m + (h - m) = h /\ h - m <= i - L - 2
          BY <2>2, <3>2, DataKind
        <4>2. L + 2 + (h - m) \in 1 .. i
          BY <1>1, <2>2, <3>0, <4>1
        <4>3. u[L + 2 + (h - m)] = Data(m + (h - m))
          BY <1>4, <4>1
        <4> QED BY <4>1, <4>2, <4>3
      <3> QED BY <3>1, <3>2
    <2> QED BY <1>6, <2>1, <2>2
  <1>12. ASSUME NEW i \in DataAt(u), NEW j \in DataAt(u),
                i <= j, i .. j \subseteq DataAt(u)
         PROVE  u[j].n = u[i].n + (j - i)
    <2>0. i \in Int /\ j \in Int
      BY DEF DataAt
    <2>1. CASE j <= L
      <3>1. ASSUME NEW h \in i .. j PROVE h \in DataAt(t) /\ u[h] = t[h]
        BY <1>1, <1>6, <1>12, <2>0, <2>1
      <3>2. i .. j \subseteq DataAt(t) /\ i \in i .. j /\ j \in i .. j
        BY <1>12, <2>0, <3>1
      <3> QED BY <1>12, <3>1, <3>2 DEF Numbered
    <2>2. CASE j > L
      <3>1. L + 1 \notin i .. j
        BY <1>5, <1>12
      <3>2. i > L
        BY <1>1, <2>0, <2>2, <3>1
      <3>3. /\ i - L - 2 \in 1 .. k /\ u[i] = Data(m + (i - L - 2))
            /\ j - L - 2 \in 1 .. k /\ u[j] = Data(m + (j - L - 2))
        BY <1>1, <1>6, <2>2, <3>2
      <3>4. u[i].n = m + (i - L - 2) /\ u[j].n = m + (j - L - 2)
        BY <3>3, DataKind
      <3> QED BY <1>1, <2>0, <3>4
    <2> QED BY <1>1, <2>0, <2>1, <2>2
  <1>13. Reaches(u, a, m + k)
    <2>1. CASE k = 0
      <3>1. CASE m = a
        BY <2>1, <3>1 DEF Reaches
      <3>2. CASE m # a
        <4>1. PICK i \in 1 .. L : t[i] = Data(m)
          BY <3>2 DEF Reaches
        <4> QED BY <1>2, <2>1, <4>1 DEF Reaches
      <3> QED BY <3>1, <3>2
    <2>2. CASE k > 0
      <3>1. L + 2 + k \in 1 .. Len(u) /\ u[L + 2 + k] = Data(m + k)
        BY <1>1, <1>4, <2>2
      <3> QED BY <3>1 DEF Reaches
    <2> QED BY <2>1, <2>2
  <1> QED BY <1>8, <1>9, <1>11, <1>12, <1>13 DEF Numbered, u

\* What carries no data changes no numbers.
LEMMA NumberedAside ==
  ASSUME NEW t \in Seq(Atoms), NEW f \in Seq(Atoms), NEW a \in Nat, NEW b \in Nat,
         DataAt(f) = {}, Numbered(t, a, b)
  PROVE  Numbered(t \o f, a, b) /\ (Reaches(t, a, b) => Reaches(t \o f, a, b))
  <1> DEFINE u == t \o f
             L == Len(t)
  <1>1. L \in Nat /\ Len(f) \in Nat /\ Len(u) = L + Len(f)
    BY Joined
  <1>2. \A i \in 1 .. L : i \in 1 .. Len(u) /\ u[i] = t[i]
    BY <1>1, Joined
  <1>3. \A i \in 1 .. Len(f) : u[L + i] = f[i] /\ f[i].kind # "data"
    BY Joined DEF DataAt
  <1> HIDE DEF u
  <1>4. \A i \in DataAt(u) : i \in DataAt(t) /\ u[i] = t[i] /\ i \in 1 .. L
    <2> TAKE i \in DataAt(u)
    <2>1. i \in 1 .. Len(u) /\ u[i].kind = "data"
      BY DEF DataAt
    <2>2. i <= L
      <3>1. SUFFICES ASSUME i > L PROVE FALSE
        BY <1>1, <2>1
      <3>2. i - L \in 1 .. Len(f) /\ L + (i - L) = i
        BY <1>1, <2>1, <3>1
      <3> QED BY <1>3, <2>1, <3>2
    <2> QED BY <1>2, <2>1, <2>2 DEF DataAt
  <1>5. \A i \in DataAt(t) : i \in DataAt(u) /\ i \in 1 .. L
    BY <1>2 DEF DataAt
  <1>6. ASSUME NEW i \in DataAt(u), NEW m \in a + 1 .. u[i].n
        PROVE  \E j \in 1 .. i : u[j] = Data(m)
    <2>1. PICK j \in 1 .. i : t[j] = Data(m)
      BY <1>4 DEF Numbered
    <2>2. j \in 1 .. L
      BY <1>1, <1>4
    <2> QED BY <1>2, <2>1, <2>2
  <1>7. ASSUME NEW i \in DataAt(u), NEW j \in DataAt(u),
               i <= j, i .. j \subseteq DataAt(u)
        PROVE  u[j].n = u[i].n + (j - i)
    <2>1. i .. j \subseteq DataAt(t)
      BY <1>4, <1>7
    <2>2. t[j].n = t[i].n + (j - i)
      BY <1>4, <1>7, <2>1 DEF Numbered
    <2> QED BY <1>4, <2>2
  <1>8. /\ \A i \in DataAt(u) : u[i].n \in a + 1 .. b
        /\ \A i, j \in DataAt(u) : i < j => u[i].n < u[j].n
    BY <1>4 DEF Numbered
  <1>9. Reaches(t, a, b) => Reaches(u, a, b)
    BY <1>2 DEF Reaches
  <1> QED BY <1>6, <1>7, <1>8, <1>9 DEF Numbered, u

-----------------------------------------------------------------------------
(***************************************************************************)
(* Numbered data in frames.                                                *)
(***************************************************************************)
LEMMA FrameParts ==
  ASSUME NEW b \in Seq(Atoms)
  PROVE  /\ Framing(b) \in Seq(Atoms) /\ Len(Framing(b)) = Len(b) + 1 /\ Len(b) \in Nat
         /\ Framing(b)[1] = Size(Len(b)) /\ Framing(b)[1].kind = "size"
         /\ \A i \in 1 .. Len(b) : Framing(b)[i + 1] = b[i]
  BY Kinds DEF Framing

LEMMA AskFrame ==
  ASSUME NEW b \in Seq(Atoms), Body(b), b[1] = Mode(0)
  PROVE  /\ DataAt(Framing(b)) = {} /\ Len(Framing(b)) = 3 /\ Framing(b)[3] = b[2]
         /\ Framing(b)[1].kind # "json" /\ Framing(b)[2].kind # "json"
         /\ b[2] \in Asks /\ b[2].kind = "json"
  <1> DEFINE f == Framing(b)
  <1>1. Len(b) = 2 /\ b[2] \in Asks /\ b[2].kind = "json" /\ b[1].kind = "mode"
    BY Bodies, Kinds
  <1>2. Len(f) = 3 /\ f[1].kind = "size" /\ f[2] = b[1] /\ f[3] = b[2]
    <2>1. /\ Len(f) = Len(b) + 1 /\ f[1].kind = "size"
          /\ \A i \in 1 .. Len(b) : f[i + 1] = b[i]
      BY FrameParts
    <2>2. 1 \in 1 .. Len(b) /\ 2 \in 1 .. Len(b) /\ 1 + 1 = 2 /\ 2 + 1 = 3
      BY <1>1
    <2>3. f[1 + 1] = b[1] /\ f[2 + 1] = b[2]
      BY <2>1, <2>2
    <2> QED BY <1>1, <2>1, <2>2, <2>3
  <1> HIDE DEF f
  <1>3. \A i \in 1 .. Len(f) : f[i].kind # "data"
    BY <1>1, <1>2
  <1> QED BY <1>1, <1>2, <1>3 DEF DataAt, f

LEMMA ChunkFrame ==
  ASSUME NEW b \in Seq(Atoms), Body(b), b[1] = Mode(1)
  PROVE  /\ Len(b) >= 2 /\ Len(b) \in Nat /\ Len(Framing(b)) = Len(b) + 1
         /\ Framing(b)[1].kind # "data" /\ Framing(b)[2].kind # "data"
         /\ \A i \in 1 .. Len(b) - 1 :
              Framing(b)[2 + i] = b[1 + i] /\ 2 + i \in DataAt(Framing(b))
         /\ DataAt(Framing(b)) = 3 .. Len(b) + 1
         /\ \A i \in 1 .. Len(Framing(b)) : Framing(b)[i].kind # "json"
  <1> DEFINE f == Framing(b)
  <1>1. Len(b) >= 2 /\ b[1].kind = "mode" /\ \A i \in 2 .. Len(b) : b[i].kind = "data"
    BY Bodies, Kinds
  <1>2. /\ Len(f) = Len(b) + 1 /\ Len(b) \in Nat /\ f[1].kind = "size"
        /\ \A i \in 1 .. Len(b) : f[i + 1] = b[i]
    BY FrameParts
  <1> HIDE DEF f
  <1>3. f[2] = b[1]
    <2>1. f[1 + 1] = b[1]
      BY <1>1, <1>2
    <2> QED BY <2>1
  <1>4. ASSUME NEW i \in 1 .. Len(b) - 1
        PROVE  f[2 + i] = b[1 + i] /\ b[1 + i].kind = "data"
    <2>1. 1 + i \in 2 .. Len(b) /\ 1 + i \in 1 .. Len(b) /\ (1 + i) + 1 = 2 + i
      BY <1>2
    <2> QED BY <1>1, <1>2, <2>1
  <1>5. ASSUME NEW i \in 3 .. Len(b) + 1 PROVE f[i].kind = "data"
    <2>1. i - 2 \in 1 .. Len(b) - 1 /\ 2 + (i - 2) = i
      BY <1>2
    <2> QED BY <1>4, <2>1
  <1>6. DataAt(f) = 3 .. Len(b) + 1
    <2>1. \A i \in 1 .. Len(f) : f[i].kind = "data" <=> i \in 3 .. Len(b) + 1
      BY <1>1, <1>2, <1>3, <1>5
    <2> QED BY <1>1, <1>2, <2>1 DEF DataAt
  <1>7. \A i \in 1 .. Len(f) : f[i].kind # "json"
    BY <1>1, <1>2, <1>3, <1>5
  <1>8. \A i \in 1 .. Len(b) - 1 : 2 + i \in 3 .. Len(b) + 1
    BY <1>2
  <1> QED BY <1>1, <1>2, <1>3, <1>4, <1>6, <1>7, <1>8 DEF f

\* A chunk that is taken away holds the next data.
LEMMA ChunkTaken ==
  ASSUME NEW v \in Seq(Atoms), NEW u \in Seq(Atoms), NEW a \in Nat, NEW b \in Nat,
         a <= b, Body(v), v[1] = Mode(1), Numbered(Framing(v) \o u, a, b)
  PROVE  /\ \A i \in 1 .. Len(v) - 1 : v[1 + i] = Data(a + i)
         /\ a + (Len(v) - 1) <= b
         /\ Numbered(u, a + (Len(v) - 1), b)
         /\ Reaches(Framing(v) \o u, a, b) => Reaches(u, a + (Len(v) - 1), b)
  <1> DEFINE f == Framing(v)
             k == Len(v) - 1
  <1>1. /\ f \in Seq(Atoms) /\ k \in Nat /\ k >= 1 /\ Len(f) = k + 2
        /\ f[1].kind # "data" /\ f[2].kind # "data"
        /\ \A i \in 1 .. k : f[2 + i] = v[1 + i] /\ 2 + i \in DataAt(f)
        /\ DataAt(f) = 3 .. k + 2
    BY FrameParts, ChunkFrame
  <1>2. Numbered(f, a, b)
    BY <1>1, NumberedHead
  <1> HIDE DEF f, k
  <1>3. 3 \in DataAt(f) /\ f[3].n = a + 1
    <2>1. 3 \in DataAt(f)
      BY <1>1
    <2>2. f[3].n \in a + 1 .. b
      BY <1>2, <2>1 DEF Numbered
    <2>3. PICK j \in 1 .. 3 : f[j] = Data(a + 1)
      BY <1>2, <2>1, <2>2 DEF Numbered
    <2>4. j = 3
      BY <1>1, <2>3, DataKind
    <2> QED BY <2>1, <2>3, <2>4, DataKind
  <1>4. ASSUME NEW i \in 1 .. k PROVE f[2 + i].n = a + i /\ v[1 + i] = Data(a + i)
    <2>1. 3 <= 2 + i /\ 3 .. 2 + i \subseteq DataAt(f) /\ 2 + i \in DataAt(f)
      BY <1>1
    <2>2. f[2 + i].n = f[3].n + ((2 + i) - 3)
      BY <1>2, <1>3, <2>1 DEF Numbered
    <2>3. f[2 + i].n = a + i
      BY <1>3, <2>2
    <2>4. f[2 + i] = Data(f[2 + i].n)
      <3>1. 2 + i \in 1 .. Len(f) /\ f[2 + i].kind = "data"
        BY <2>1 DEF DataAt
      <3>2. f[2 + i] \in Atoms
        BY <1>1, <3>1
      <3> QED BY <3>1, <3>2, DataKind
    <2> QED BY <1>1, <2>3, <2>4
  <1>5. ASSUME NEW i \in DataAt(f) PROVE f[i].n <= a + k
    <2>1. i - 2 \in 1 .. k /\ 2 + (i - 2) = i
      BY <1>1
    <2>2. f[i].n = a + (i - 2)
      BY <1>4, <2>1
    <2> QED BY <1>1, <2>1, <2>2
  <1>6. \E i \in DataAt(f) : f[i].n = a + k
    <2>1. k \in 1 .. k
      BY <1>1
    <2> QED BY <1>1, <1>4, <2>1
  <1>7. Numbered(f \o u, a, b)
    BY DEF f
  <1>8. /\ a + k <= b /\ Numbered(u, a + k, b)
        /\ Reaches(f \o u, a, b) => Reaches(u, a + k, b)
    BY <1>1, <1>5, <1>6, <1>7, NumberedTail
  <1> QED BY <1>4, <1>8 DEF f, k

LEMMA AskTakenAway ==
  ASSUME NEW v \in Seq(Atoms), NEW u \in Seq(Atoms), NEW a \in Nat, NEW b \in Nat,
         a <= b, Body(v), v[1] = Mode(0), Numbered(Framing(v) \o u, a, b)
  PROVE  /\ Numbered(u, a, b)
         /\ Reaches(Framing(v) \o u, a, b) => Reaches(u, a, b)
  <1> DEFINE f == Framing(v)
  <1>1. f \in Seq(Atoms) /\ DataAt(f) = {} /\ a + 0 = a
    BY FrameParts, AskFrame
  <1>2. Numbered(f \o u, a, b)
    OBVIOUS
  <1> HIDE DEF f
  <1>3. Numbered(u, a + 0, b) /\ (Reaches(f \o u, a, b) => Reaches(u, a + 0, b))
    <2>1. /\ \A i \in DataAt(f) : f[i].n <= a + 0
          /\ 0 > 0 => \E i \in DataAt(f) : f[i].n = a + 0
      BY <1>1
    <2> QED BY <1>1, <1>2, <2>1, NumberedTail
  <1> QED BY <1>1, <1>3 DEF f

\* A chunk that is sent continues the data.
LEMMA ChunkAdded ==
  ASSUME NEW t \in Seq(Atoms), NEW v \in Seq(Atoms),
         NEW a \in Nat, NEW m \in Nat, a <= m, Body(v), v[1] = Mode(1),
         Numbered(t, a, m), Reaches(t, a, m),
         \A i \in 1 .. Len(v) - 1 : v[1 + i] = Data(m + i)
  PROVE  /\ Numbered(t \o Framing(v), a, m + (Len(v) - 1))
         /\ Reaches(t \o Framing(v), a, m + (Len(v) - 1))
  <1> DEFINE f == Framing(v)
             k == Len(v) - 1
  <1>1. /\ f \in Seq(Atoms) /\ k \in Nat /\ Len(f) = k + 2
        /\ f[1].kind # "data" /\ f[2].kind # "data"
        /\ \A i \in 1 .. k : f[2 + i] = v[1 + i]
    <2>1. f \in Seq(Atoms)
      BY FrameParts
    <2>2. /\ Len(v) >= 2 /\ Len(v) \in Nat /\ Len(f) = Len(v) + 1
          /\ f[1].kind # "data" /\ f[2].kind # "data"
          /\ \A i \in 1 .. Len(v) - 1 : f[2 + i] = v[1 + i]
      BY ChunkFrame
    <2> HIDE DEF f
    <2> QED BY <2>1, <2>2
  <1>v. \A i \in 1 .. k : v[1 + i] = Data(m + i)
    OBVIOUS
  <1> HIDE DEF f, k
  <1>w. \A i \in 1 .. k : f[2 + i] = Data(m + i)
    BY <1>1, <1>v
  <1>2. Numbered(t \o f, a, m + k) /\ Reaches(t \o f, a, m + k)
    BY <1>1, <1>w, NumberedMore
  <1> QED BY <1>2 DEF f, k

-----------------------------------------------------------------------------
(***************************************************************************)
(* Requests behind the data.                                               *)
(***************************************************************************)
\* A request ends the sequence, and a file that it announces is not empty.
Requested(t) ==
    \A i \in 1 .. Len(t) :
        t[i].kind = "json" => i = Len(t) /\ (t[i].topic = Upload => t[i].len # 0)

HasUpload(t) == \E i \in 1 .. Len(t) : t[i].kind = "json" /\ t[i].topic = Upload

LEMMA NoAskNoUpload ==
  ASSUME NEW t, ~ HasAsk(t) PROVE Requested(t) /\ ~ HasUpload(t)
  BY DEF HasAsk, Requested, HasUpload

LEMMA NothingNumbered ==
  ASSUME NEW a
  PROVE  /\ DataAt(<< >>) = {} /\ Requested(<< >>) /\ ~ HasUpload(<< >>)
         /\ Reaches(<< >>, a, a)
  BY DEF DataAt, Requested, HasUpload, Reaches

LEMMA RequestedHead ==
  ASSUME NEW p \in Seq(Atoms), NEW q \in Seq(Atoms), Requested(p \o q)
  PROVE  /\ Requested(p)
         /\ HasUpload(p) => HasUpload(p \o q) /\ Len(p \o q) = Len(p)
  <1> DEFINE t == p \o q
  <1>1. /\ Len(p) \in Nat /\ Len(q) \in Nat /\ Len(t) = Len(p) + Len(q)
        /\ \A i \in 1 .. Len(p) : t[i] = p[i]
    BY Joined
  <1>2. Requested(t)
    OBVIOUS
  <1> HIDE DEF t
  <1>3. \A i \in 1 .. Len(p) : i \in 1 .. Len(t)
    BY <1>1
  <1>4. \A i \in 1 .. Len(p) : p[i].kind = "json" =>
          i = Len(t) /\ (p[i].topic = Upload => p[i].len # 0)
    BY <1>1, <1>2, <1>3 DEF Requested
  <1>5. \A i \in 1 .. Len(p) : i = Len(t) => i = Len(p)
    BY <1>1
  <1> QED BY <1>1, <1>3, <1>4, <1>5 DEF Requested, HasUpload, t

LEMMA RequestedTail ==
  ASSUME NEW p \in Seq(Atoms), NEW q \in Seq(Atoms), Requested(p \o q)
  PROVE  Requested(q) /\ (HasUpload(q) => HasUpload(p \o q))
  <1> DEFINE t == p \o q
             L == Len(p)
  <1>1. /\ L \in Nat /\ Len(q) \in Nat /\ Len(t) = L + Len(q)
        /\ \A i \in 1 .. Len(q) : t[L + i] = q[i]
    BY Joined
  <1>2. Requested(t)
    OBVIOUS
  <1> HIDE DEF t, L
  <1>3. \A i \in 1 .. Len(q) : L + i \in 1 .. Len(t) /\ (L + i = Len(t) => i = Len(q))
    BY <1>1
  <1>4. Requested(q)
    BY <1>1, <1>2, <1>3 DEF Requested
  <1>5. HasUpload(q) => HasUpload(t)
    BY <1>1, <1>3 DEF HasUpload
  <1> QED BY <1>4, <1>5 DEF t

\* A request that is sent is the only one.
LEMMA AskAdded ==
  ASSUME NEW t \in Seq(Atoms), NEW b \in Seq(Atoms), ~ HasAsk(t), Body(b),
         b[1] = Mode(0), b[2].topic = Upload => b[2].len # 0
  PROVE  /\ Requested(t \o Framing(b))
         /\ HasUpload(t \o Framing(b)) => b[2].topic = Upload
  <1> DEFINE f == Framing(b)
             u == t \o f
             L == Len(t)
  <1>1. /\ f \in Seq(Atoms) /\ Len(f) = 3 /\ f[3] = b[2]
        /\ f[1].kind # "json" /\ f[2].kind # "json"
    BY AskFrame, FrameParts
  <1> HIDE DEF f
  <1>2. /\ L \in Nat /\ Len(u) = L + 3
        /\ \A i \in 1 .. L : u[i] = t[i]
        /\ \A i \in 1 .. 3 : u[L + i] = f[i]
    <2>1. f \in Seq(Atoms)
      BY <1>1
    <2>2. /\ L \in Nat /\ Len(u) = L + Len(f)
          /\ \A i \in 1 .. L : u[i] = t[i]
          /\ \A i \in 1 .. Len(f) : u[L + i] = f[i]
      BY <2>1, Joined
    <2> QED BY <1>1, <2>2
  <1> HIDE DEF u
  <1>3. ASSUME NEW i \in 1 .. Len(u), u[i].kind = "json"
        PROVE  i = Len(u) /\ u[i] = b[2]
    <2>1. i \notin 1 .. L
      BY <1>2, <1>3 DEF HasAsk
    <2>2. i - L \in 1 .. 3 /\ L + (i - L) = i
      BY <1>2, <2>1
    <2>3. u[i] = f[i - L]
      BY <1>2, <2>2
    <2>4. i - L # 1 /\ i - L # 2
      BY <1>1, <1>3, <2>3
    <2>5. i - L = 3
      BY <2>2, <2>4
    <2> QED BY <1>1, <1>2, <2>3, <2>5
  <1> QED BY <1>3 DEF Requested, HasUpload, u, f

\* When the server has a request in hand nothing follows it.
LEMMA AskAlone ==
  ASSUME NEW v \in Seq(Atoms), NEW u \in Seq(Atoms), Body(v), v[1] = Mode(0),
         Requested(Framing(v) \o u)
  PROVE  /\ u = << >> /\ DataAt(Framing(v) \o u) = {}
         /\ v[2].topic = Upload => v[2].len # 0 /\ HasUpload(Framing(v) \o u)
  <1> DEFINE f == Framing(v)
             t == f \o u
  <1>1. /\ f \in Seq(Atoms) /\ Len(f) = 3 /\ f[3] = v[2] /\ DataAt(f) = {}
        /\ v[2].kind = "json"
    BY AskFrame, FrameParts
  <1>2. Requested(t)
    OBVIOUS
  <1> HIDE DEF f
  <1>3. /\ Len(u) \in Nat /\ Len(t) = 3 + Len(u)
        /\ \A i \in 1 .. 3 : t[i] = f[i]
    <2>1. f \in Seq(Atoms)
      BY <1>1
    <2>2. /\ Len(u) \in Nat /\ Len(t) = Len(f) + Len(u)
          /\ \A i \in 1 .. Len(f) : t[i] = f[i]
      BY <2>1, Joined
    <2> QED BY <1>1, <2>2
  <1> HIDE DEF t
  <1>4. 3 \in 1 .. Len(t) /\ t[3] = v[2]
    BY <1>1, <1>3
  <1>5. 3 = Len(t) /\ (v[2].topic = Upload => v[2].len # 0 /\ HasUpload(t))
    BY <1>1, <1>2, <1>4 DEF Requested, HasUpload
  <1>6. u = << >>
    BY <1>3, <1>5
  <1>7. DataAt(t) = {}
    <2>1. t = f
      BY <1>1, <1>6, ConcatEmptySeq DEF t
    <2> QED BY <1>1, <2>1
  <1> QED BY <1>5, <1>6, <1>7 DEF t, f

-----------------------------------------------------------------------------
(***************************************************************************)
(* The invariant.                                                          *)
(***************************************************************************)
UploadTypes ==
    /\ fd \in [Clients -> BOOLEAN]
    /\ len \in [Clients -> Nat] /\ offset \in [Clients -> Nat]
    /\ disk \in [Clients -> Seq(Chunks)]

\* The frame the server handles, and all that follows.
Line(c) == IF pc = "handle" /\ Current = c THEN Framing(vec) \o Flow(c) ELSE Flow(c)

Waiting(c) == cpc[c] = "reply" /\ asked[c].topic = Upload

\* The answer to a request for an upload, when it is given but not read.
Ack(c) == IF back[c] # << >> THEN back[c][1].ack ELSE answer.ack

\* The number of the data that were sent last; none was sent while the client does
\* not know that it may.
Granted(c) == ReplyUnread(c) /\ fd[c]
Sent(c) == IF Granted(c) THEN 0 ELSE len[c] - Len(left[c])

Storing(c) ==
    /\ offset[c] < len[c] /\ disk[c] = File(offset[c])
    /\ Numbered(Line(c), offset[c], len[c])
    /\ HasUpload(Line(c)) => Reaches(Line(c), offset[c], len[c])

Sending(c) ==
    /\ Sent(c) \in offset[c] .. len[c]
    /\ Numbered(Line(c), offset[c], Sent(c)) /\ Reaches(Line(c), offset[c], Sent(c))
    /\ \A i \in 1 .. Len(left[c]) : left[c][i] = Data(Sent(c) + i)

\* A client sends data while the server has its file open, and then only.  The
\* next upload is asked for behind the last data.
Uploading(c) ==
    /\ Requested(Line(c))
    /\ link[c] # "up" => ~ fd[c]
    /\ cpc[c] = "off" \/ Waiting(c) => left[c] = << >>
    /\ Waiting(c) => asked[c].len # 0
    /\ ReplyUnread(c) => /\ Ack(c) = "ok" <=> fd[c]
                         /\ fd[c] => len[c] = asked[c].len /\ offset[c] = 0
    /\ ~ fd[c] => DataAt(Line(c)) = {} /\ left[c] = << >>
    /\ fd[c] => Storing(c) /\ (cpc[c] # "off" => Sending(c))

Uploads == \A c \in Clients : Uploading(c)

\* The server has one file open for each of these.
Open == {c \in Clients : fd[c]}
Counted == IsFiniteSet(Open) /\ files = Cardinality(Open)

UInv == UploadTypes /\ Uploads /\ Counted

LEMMA LineType ==
  ASSUME Types, NEW c \in Clients PROVE Line(c) \in Seq(Atoms)
  <1>1. vec \in Seq(Atoms) /\ Flow(c) \in Seq(Atoms)
    BY FlowType DEF Types
  <1>2. Framing(vec) \in Seq(Atoms)
    BY <1>1, FrameParts
  <1> QED BY <1>1, <1>2, Joined DEF Line

LEMMA StillUploading ==
  ASSUME NEW c \in Clients, Uploading(c), Line(c)' = Line(c),
         cpc'[c] = cpc[c], asked'[c] = asked[c], left'[c] = left[c], fd'[c] = fd[c],
         ReplyUnread(c)' = ReplyUnread(c), ReplyUnread(c) => Ack(c)' = Ack(c),
         fd[c] => /\ len'[c] = len[c] /\ offset'[c] = offset[c]
                  /\ disk'[c] = disk[c] /\ link'[c] = "up"
  PROVE  Uploading(c)'
  <1>1. Granted(c)' = Granted(c) /\ Waiting(c)' = Waiting(c)
    BY DEF Granted, Waiting
  <1>2. fd[c] => Sent(c)' = Sent(c)
    BY <1>1 DEF Sent
  <1>3. fd[c] /\ Storing(c) => Storing(c)'
    BY DEF Storing
  <1>4. fd[c] /\ Sending(c) => Sending(c)'
    BY <1>2 DEF Sending
  <1> QED BY <1>1, <1>3, <1>4 DEF Uploading

-----------------------------------------------------------------------------
(***************************************************************************)
(* The clients.                                                            *)
(***************************************************************************)
LEMMA ClientLeaves ==
  ASSUME IInv, UInv, NEW c \in Clients, ClientStep(c)
  PROVE  /\ UNCHANGED <<fd, len, offset, disk, files>>
         /\ Flow(c)' = Flow(c) => Line(c)' = Line(c)
         /\ link'[c] = link[c] \/ link[c] # "up"
         /\ \A d \in Clients \ {c} : Uploading(d)'
  <1>1. Types /\ UploadTypes /\ Uploads
    BY DEF IInv, UInv
  <1>2. UNCHANGED <<fd, len, offset, disk, files>>
    BY DEF ClientStep, Connect, Request, Receive, SendChunk, Close, Vanish, Deliver,
           serverVars, contexts
  <1>3. UNCHANGED <<pc, list, pos, pending, vec, answer>>
    BY ClientOthers
  <1>4. link'[c] = link[c] \/ link[c] # "up"
    BY DEF ClientStep, Connect, Request, Receive, SendChunk, Close, Vanish, Deliver
  <1>5. ASSUME NEW d \in Clients \ {c} PROVE Uploading(d)'
    <2>1. /\ Flow(d)' = Flow(d) /\ cpc'[d] = cpc[d] /\ back'[d] = back[d]
          /\ asked'[d] = asked[d]
      BY ClientOthers
    <2>2. left'[d] = left[d] /\ link'[d] = link[d]
      BY <1>1 DEF Types, ClientStep, Connect, Request, Receive, SendChunk, Close,
                  Vanish, Deliver, clientVars
    <2>3. Line(d)' = Line(d)
      BY <1>3, <2>1 DEF Line, Current
    <2>4. ReplyUnread(d)' = ReplyUnread(d) /\ Ack(d)' = Ack(d)
      BY <1>3, <2>1 DEF ReplyUnread, Ack, Current
    <2>5. Uploading(d) /\ (fd[d] => link'[d] = "up")
      BY <1>1, <2>2 DEF Uploads, Uploading
    <2> QED BY <1>2, <2>1, <2>2, <2>3, <2>4, <2>5, StillUploading
  <1>6. Flow(c)' = Flow(c) => Line(c)' = Line(c)
    BY <1>3 DEF Line, Current
  <1> QED BY <1>2, <1>4, <1>5, <1>6

LEMMA ConnectUploads ==
  ASSUME IInv, UInv, NEW c \in Clients, Connect(c) PROVE Uploading(c)'
  <1>1. Types /\ UploadTypes /\ Uploading(c) /\ ClientStep(c)
    BY DEF IInv, UInv, Uploads, ClientStep
  <1>2. /\ cpc[c] = "off" /\ link[c] = "none" /\ cpc'[c] = "idle"
        /\ UNCHANGED <<out, stream, back, asked, left>>
    BY <1>1 DEF Connect, Types
  <1>3. ~ fd[c] /\ fd' = fd /\ Line(c)' = Line(c)
    BY <1>1, <1>2, ClientLeaves, SameFlow DEF Uploading
  <1>4. ~ Waiting(c)' /\ ~ ReplyUnread(c)'
    BY <1>2 DEF Waiting, ReplyUnread
  <1> QED BY <1>1, <1>2, <1>3, <1>4 DEF Uploading

\* A client that is idle has no request on its way.
LEMMA IdleLine ==
  ASSUME IInv, NEW c \in Clients, cpc[c] = "idle"
  PROVE  /\ ~ HasAsk(Line(c)) /\ Line(c) \in Seq(Atoms)
         /\ back[c] = << >> /\ ~ (pc = "write" /\ Current = c)
  <1>1. Types /\ Turn(c)
    BY DEF IInv, Turns
  <1>2. ~ HasAsk(Flow(c)) /\ ~ Answering(c) /\ back[c] = << >>
    BY <1>1 DEF Turn, Asking
  <1>3. ~ (pc = "write" /\ Current = c)
    BY <1>2 DEF Answering
  <1>4. CASE ~ (pc = "handle" /\ Current = c)
    BY <1>1, <1>2, <1>3, <1>4, LineType DEF Line
  <1>5. CASE pc = "handle" /\ Current = c
    <2>1. vec \in Seq(Atoms) /\ Body(vec) /\ vec[1] # Mode(0)
      BY <1>1, <1>2, <1>5 DEF IInv, Flows, Types, Answering
    <2>2. vec[1] = Mode(1)
      BY <2>1, Bodies
    <2>3. Line(c) = Framing(vec) \o Flow(c)
      BY <1>5 DEF Line
    <2> DEFINE f == Framing(vec)
               u == Flow(c)
    <2>4. f \in Seq(Atoms) /\ \A i \in 1 .. Len(f) : f[i].kind # "json"
      BY <2>1, <2>2, FrameParts, ChunkFrame
    <2>5. u \in Seq(Atoms) /\ ~ HasAsk(u)
      BY <1>1, <1>2, FlowType
    <2> HIDE DEF f, u
    <2>6. ~ HasAsk(f \o u)
      <3>1. /\ Len(f) \in Nat /\ Len(u) \in Nat /\ Len(f \o u) = Len(f) + Len(u)
            /\ \A i \in 1 .. Len(f) : (f \o u)[i] = f[i]
            /\ \A i \in 1 .. Len(u) : (f \o u)[Len(f) + i] = u[i]
        BY <2>4, <2>5, Joined
      <3>2. ASSUME NEW i \in 1 .. Len(f \o u) PROVE (f \o u)[i].kind # "json"
        <4>1. CASE i <= Len(f)
          BY <2>4, <3>1, <4>1
        <4>2. CASE i > Len(f)
          <5>1. i - Len(f) \in 1 .. Len(u) /\ Len(f) + (i - Len(f)) = i
            BY <3>1, <4>2
          <5> QED BY <2>5, <3>1, <5>1 DEF HasAsk
        <4> QED BY <3>1, <4>1, <4>2
      <3> QED BY <3>2 DEF HasAsk
    <2> QED BY <1>1, <1>2, <1>3, <2>3, <2>6, LineType DEF f, u
  <1> QED BY <1>4, <1>5

\* A frame that is sent goes behind all of the line.
LEMMA SendLine ==
  ASSUME IInv, NEW c \in Clients, NEW b \in Seq(Atoms), Body(b), cpc[c] # "off",
         Send(c, b), stream' = stream, ClientStep(c)
  PROVE  Line(c)' = Line(c) \o Framing(b)
  <1>1. Types /\ UNCHANGED <<pc, list, pos, vec>> /\ Taken(c)' = Taken(c)
    BY ClientOthers DEF IInv
  <1>2. Flow(c)' = Flow(c) \o Framing(b)
    BY <1>1, SendFlow
  <1>3. CASE ~ (pc = "handle" /\ Current = c)
    BY <1>1, <1>2, <1>3 DEF Line, Current
  <1>4. CASE pc = "handle" /\ Current = c
    <2>1. Line(c)' = Framing(vec) \o (Flow(c) \o Framing(b))
      BY <1>1, <1>2, <1>4 DEF Line, Current
    <2>2. Line(c) = Framing(vec) \o Flow(c)
      BY <1>4 DEF Line
    <2>3. vec \in Seq(Atoms)
      BY <1>1 DEF Types
    <2>4. Framing(vec) \in Seq(Atoms)
      BY <2>3, FrameParts
    <2>5. Flow(c) \in Seq(Atoms)
      BY <1>1, FlowType
    <2>6. Framing(b) \in Seq(Atoms)
      BY FrameParts
    <2>7. (Framing(vec) \o Flow(c)) \o Framing(b) = Framing(vec) \o (Flow(c) \o Framing(b))
      BY <2>4, <2>5, <2>6, Group, Zenon
    <2> QED BY <2>1, <2>2, <2>7
  <1> QED BY <1>3, <1>4

LEMMA RequestUploads ==
  ASSUME IInv, UInv, NEW c \in Clients,
         NEW topic \in Topics \cup {Upload}, NEW size \in Lengths \cup {0},
         Request(c, topic, size)
  PROVE  Uploading(c)'
  <1> DEFINE ask == Ask(topic, seq[c], size)
             b == <<Mode(0), ask>>
  <1>1. Types /\ UploadTypes /\ Uploading(c) /\ ClientStep(c)
    BY DEF IInv, UInv, Uploads, ClientStep
  <1>2. /\ cpc[c] = "idle" /\ Send(c, b) /\ stream' = stream /\ cpc'[c] = "reply"
        /\ asked'[c] = ask /\ back'[c] = back[c] /\ left'[c] = left[c]
        /\ topic = Upload => left[c] = << >> /\ size # 0
    BY <1>1 DEF Request, Types
  <1>3. ask \in Asks /\ ask.topic = topic /\ ask.len = size
    BY <1>1 DEF Ask, Asks, Types
  <1>4. /\ fd' = fd /\ len' = len /\ offset' = offset /\ disk' = disk
        /\ UNCHANGED <<pc, list, pos>> /\ (fd[c] => link'[c] = "up")
    BY <1>1, ClientLeaves, ClientOthers DEF Uploading
  <1> HIDE DEF ask
  <1>5. b \in Seq(Atoms) /\ Body(b) /\ b[1] = Mode(0) /\ b[2] = ask
    BY <1>3, Kinds DEF Body
  <1> HIDE DEF b
  <1> DEFINE t == Line(c)
             f == Framing(b)
  <1>6. Line(c)' = t \o f
    BY <1>1, <1>2, <1>5, SendLine
  <1>7. t \in Seq(Atoms) /\ ~ HasAsk(t) /\ back[c] = << >> /\ ~ (pc = "write" /\ Current = c)
    BY <1>2, IdleLine
  <1>8. f \in Seq(Atoms) /\ DataAt(f) = {}
    BY <1>5, AskFrame, FrameParts
  <1>9. Requested(t \o f) /\ (HasUpload(t \o f) => topic = Upload)
    BY <1>2, <1>3, <1>5, <1>7, AskAdded
  <1>10. ~ ReplyUnread(c) /\ ~ ReplyUnread(c)'
    BY <1>2, <1>4, <1>7 DEF ReplyUnread, Current
  <1>11. Sent(c)' = Sent(c)
    BY <1>2, <1>4, <1>10 DEF Sent, Granted
  <1>12. fd[c] => Storing(c) /\ Sending(c)
    BY <1>1, <1>2 DEF Uploading
  <1> HIDE DEF t, f
  <1>13. ASSUME fd[c] PROVE Sending(c)'
    <2>1. Sent(c) \in offset[c] .. len[c] /\ offset[c] \in Nat /\ len[c] \in Nat
      BY <1>1, <1>12, <1>13 DEF Sending, UploadTypes
    <2>2. Numbered(t \o f, offset[c], Sent(c)) /\ Reaches(t \o f, offset[c], Sent(c))
      <3>1. Numbered(t, offset[c], Sent(c)) /\ Reaches(t, offset[c], Sent(c))
        BY <1>12, <1>13 DEF Sending, t
      <3>2. Sent(c) \in Nat
        BY <2>1
      <3> QED BY <1>7, <1>8, <2>1, <3>1, <3>2, NumberedAside
    <2> QED BY <1>2, <1>4, <1>6, <1>11, <1>12, <1>13, <2>2 DEF Sending
  <1>14. ASSUME fd[c] PROVE Storing(c)'
    <2>1. Numbered(t \o f, offset[c], len[c])
      <3>1. Numbered(t, offset[c], len[c]) /\ offset[c] \in Nat /\ len[c] \in Nat
        BY <1>1, <1>12, <1>14 DEF Storing, UploadTypes, t
      <3> QED BY <1>7, <1>8, <3>1, NumberedAside
    <2>2. ASSUME topic = Upload PROVE Reaches(t \o f, offset[c], len[c])
      <3>1. Sent(c) = len[c]
        <4>1. Len(left[c]) = 0 /\ len[c] \in Nat
          BY <1>1, <1>2, <2>2 DEF UploadTypes
        <4> QED BY <1>10, <4>1 DEF Sent, Granted
      <3>2. Reaches(t \o f, offset[c], Sent(c))
        BY <1>2, <1>4, <1>6, <1>11, <1>13, <1>14 DEF Sending
      <3> QED BY <3>1, <3>2
    <2> QED BY <1>4, <1>6, <1>9, <1>12, <1>14, <2>1, <2>2 DEF Storing
  <1>15. ~ fd[c] => DataAt(t \o f) = {} /\ left[c] = << >>
    <2> HAVE ~ fd[c]
    <2>1. DataAt(t) = {} /\ left[c] = << >>
      BY <1>1 DEF Uploading, t
    <2>2. Len(t \o f) = Len(t) + Len(f) /\ Len(t) \in Nat /\ Len(f) \in Nat
      BY <1>7, <1>8, Joined
    <2>3. ASSUME NEW i \in 1 .. Len(t \o f) PROVE (t \o f)[i].kind # "data"
      <3>1. CASE i <= Len(t)
        <4>1. i \in 1 .. Len(t) /\ (t \o f)[i] = t[i]
          BY <1>7, <1>8, <2>2, <3>1, Joined
        <4> QED BY <2>1, <4>1 DEF DataAt
      <3>2. CASE i > Len(t)
        <4>1. i - Len(t) \in 1 .. Len(f) /\ Len(t) + (i - Len(t)) = i
          BY <2>2, <3>2
        <4>2. (t \o f)[i] = f[i - Len(t)]
          BY <1>7, <1>8, <4>1, Joined
        <4> QED BY <1>8, <4>1, <4>2 DEF DataAt
      <3> QED BY <2>2, <3>1, <3>2
    <2> QED BY <2>1, <2>3 DEF DataAt
  <1>16. Waiting(c)' => left[c] = << >> /\ size # 0
    BY <1>2, <1>3 DEF Waiting
  <1> QED
    BY <1>2, <1>3, <1>4, <1>6, <1>9, <1>10, <1>13, <1>14, <1>15, <1>16 DEF Uploading

LEMMA ReceiveUploads ==
  ASSUME IInv, UInv, NEW c \in Clients, Receive(c) PROVE Uploading(c)'
  <1>1. Types /\ UploadTypes /\ Uploading(c) /\ ClientStep(c) /\ Turn(c)
    BY DEF IInv, UInv, Uploads, ClientStep, Turns
  <1>2. /\ cpc[c] = "reply" /\ back[c] # << >> /\ cpc'[c] = "idle"
        /\ left'[c] = IF asked[c].topic = Upload /\ Head(back[c]).ack = "ok"
                      THEN File(asked[c].len) ELSE left[c]
        /\ UNCHANGED <<out, stream>>
    BY <1>1 DEF Receive, Types
  <1>3. /\ fd' = fd /\ len' = len /\ offset' = offset /\ disk' = disk
        /\ Line(c)' = Line(c) /\ (fd[c] => link'[c] = "up")
    BY <1>1, <1>2, ClientLeaves, SameFlow DEF Uploading
  <1>4. ~ Waiting(c)' /\ ~ ReplyUnread(c)' /\ ~ Granted(c)'
    BY <1>2 DEF Waiting, ReplyUnread, Granted
  <1>5. Head(back[c]) = back[c][1]
    BY <1>1, <1>2 DEF Types
  <1>6. CASE Waiting(c)
    <2>1. /\ ReplyUnread(c) /\ left[c] = << >>
          /\ left'[c] = IF back[c][1].ack = "ok" THEN File(asked[c].len) ELSE << >>
      BY <1>1, <1>2, <1>5, <1>6 DEF Waiting, ReplyUnread, Uploading
    <2>2. Ack(c) = back[c][1].ack
      BY <1>2 DEF Ack
    <2>3. CASE ~ fd[c]
      <3>1. left'[c] = << >>
        BY <1>1, <2>1, <2>2, <2>3 DEF Uploading
      <3> QED BY <1>1, <1>2, <1>3, <1>4, <2>3, <3>1 DEF Uploading
    <2>4. CASE fd[c]
      <3>1. left'[c] = File(len[c]) /\ Sent(c) = 0 /\ Storing(c) /\ Sending(c)
        BY <1>1, <1>2, <2>1, <2>2, <2>4 DEF Uploading, Sent, Granted
      <3>2. len[c] \in Nat
        BY <1>1 DEF UploadTypes
      <3>3. Len(File(len[c])) = len[c] /\ \A i \in 1 .. len[c] : File(len[c])[i] = Data(0 + i)
        BY <3>2 DEF File
      <3>4. Sent(c)' = 0
        BY <1>3, <1>4, <3>1, <3>2, <3>3 DEF Sent
      <3>5. Sending(c)'
        BY <1>3, <3>1, <3>3, <3>4 DEF Sending
      <3>6. Storing(c)'
        BY <1>3, <3>1 DEF Storing
      <3> QED BY <1>1, <1>2, <1>3, <1>4, <2>4, <3>5, <3>6 DEF Uploading
    <2> QED BY <2>3, <2>4
  <1>7. CASE ~ Waiting(c)
    <2>1. left'[c] = left[c] /\ ~ ReplyUnread(c)
      BY <1>2, <1>7 DEF Waiting, ReplyUnread
    <2>2. Sent(c)' = Sent(c)
      BY <1>3, <1>4, <2>1 DEF Sent, Granted
    <2>3. fd[c] => Storing(c)' /\ Sending(c)'
      BY <1>1, <1>2, <1>3, <2>1, <2>2 DEF Uploading, Storing, Sending
    <2> QED BY <1>1, <1>2, <1>3, <1>4, <2>1, <2>3 DEF Uploading
  <1> QED BY <1>6, <1>7

LEMMA SendChunkUploads ==
  ASSUME IInv, UInv, NEW c \in Clients, SendChunk(c) PROVE Uploading(c)'
  <1>1. Types /\ UploadTypes /\ Uploading(c) /\ ClientStep(c)
    BY DEF IInv, UInv, Uploads, ClientStep
  <1>2. PICK k \in 1 .. Len(left[c]), b \in Seq(Atoms) :
          /\ Body(b) /\ b[1] = Mode(1) /\ Len(b) = k + 1 /\ Send(c, b)
          /\ \A i \in 1 .. k : b[1 + i] = left[c][i]
          /\ left' = [left EXCEPT ![c] = SubSeq(@, k + 1, Len(@))]
    BY <1>1, ChunkBody
  <1>3. /\ cpc[c] = "idle" /\ left[c] # << >> /\ stream' = stream /\ cpc' = cpc
        /\ back' = back /\ asked' = asked
    BY DEF SendChunk
  <1>4. /\ fd' = fd /\ len' = len /\ offset' = offset /\ disk' = disk
        /\ fd[c] /\ link'[c] = "up" /\ Storing(c) /\ Sending(c)
    BY <1>1, <1>3, ClientLeaves DEF Uploading
  <1> DEFINE t == Line(c)
             f == Framing(b)
             m == Sent(c)
             a == offset[c]
  <1>5. Line(c)' = t \o f
    BY <1>1, <1>2, <1>3, SendLine
  <1>6. t \in Seq(Atoms) /\ ~ HasAsk(t) /\ back[c] = << >>
    BY <1>3, IdleLine
  <1>7. ~ ReplyUnread(c) /\ ~ ReplyUnread(c)' /\ ~ Waiting(c)'
    BY <1>3 DEF ReplyUnread, Waiting
  <1>8. /\ left[c] \in Seq(Chunks) /\ left'[c] = SubSeq(left[c], k + 1, Len(left[c]))
        /\ Len(left'[c]) = Len(left[c]) - k
        /\ \A i \in 1 .. Len(left[c]) - k : left'[c][i] = left[c][k + i]
    <2>1. left[c] \in Seq(Chunks) /\ left'[c] = SubSeq(left[c], k + 1, Len(left[c]))
      BY <1>1, <1>2 DEF Types
    <2> QED BY <2>1
  <1>9. /\ m = len[c] - Len(left[c]) /\ len[c] \in Nat /\ a \in Nat
        /\ Len(left[c]) \in Nat /\ m \in a .. len[c]
    BY <1>1, <1>4, <1>7, <1>8 DEF Sent, Granted, UploadTypes, Sending
  <1>k. k \in Nat /\ k <= Len(left[c])
    BY <1>9
  <1>10. Sent(c)' = m + k /\ m + k <= len[c] /\ m \in Nat
    <2>1. Sent(c)' = len[c] - Len(left'[c])
      BY <1>4, <1>7 DEF Sent, Granted
    <2>2. Len(left'[c]) = Len(left[c]) - k
      BY <1>8
    <2> HIDE DEF m, a
    <2> QED BY <1>9, <1>k, <2>1, <2>2
  <1>11. /\ Numbered(t, a, m) /\ Reaches(t, a, m)
         /\ \A i \in 1 .. Len(left[c]) : left[c][i] = Data(m + i)
    BY <1>4 DEF Sending
  <1> HIDE DEF t, f, m, a
  <1>12. Numbered(t \o f, a, m + k) /\ Reaches(t \o f, a, m + k)
    <2>1. k = Len(b) - 1 /\ a <= m
      BY <1>2, <1>9
    <2>2. \A i \in 1 .. Len(b) - 1 : b[1 + i] = Data(m + i)
      <3> TAKE i \in 1 .. Len(b) - 1
      <3>1. i \in 1 .. k /\ i \in 1 .. Len(left[c])
        BY <1>9, <2>1
      <3> QED BY <1>2, <1>11, <3>1
    <2>3. Numbered(t \o f, a, m + (Len(b) - 1)) /\ Reaches(t \o f, a, m + (Len(b) - 1))
      BY <1>2, <1>6, <1>9, <1>10, <1>11, <2>1, <2>2, ChunkAdded DEF f
    <2> QED BY <2>1, <2>3
  <1>13. ~ HasAsk(t \o f) /\ t \o f \in Seq(Atoms)
    <2>1. f \in Seq(Atoms)
      BY FrameParts DEF f
    <2> QED BY <1>2, <1>6, <2>1, AskSent, Joined DEF f
  <1>14. Numbered(t \o f, a, len[c])
    <2>1. m + k \in Nat
      BY <1>10, <1>k
    <2> QED BY <1>9, <1>10, <1>12, <1>13, <2>1, NumberedWiden
  <1>15. Storing(c)'
    BY <1>4, <1>5, <1>13, <1>14, NoAskNoUpload DEF Storing, a
  <1>16. Sending(c)'
    <2>1. m + k \in a .. len[c]
      BY <1>9, <1>10, <1>k
    <2>2. ASSUME NEW i \in 1 .. Len(left'[c]) PROVE left'[c][i] = Data((m + k) + i)
      <3>1. k + i \in 1 .. Len(left[c]) /\ i \in 1 .. Len(left[c]) - k
            /\ m + (k + i) = (m + k) + i
        <4>1. i \in 1 .. Len(left[c]) - k
          BY <1>8
        <4> QED BY <1>9, <1>10, <1>k, <4>1
      <3> QED BY <1>8, <1>11, <3>1
    <2> QED BY <1>4, <1>5, <1>10, <1>12, <2>1, <2>2 DEF Sending, a
  <1>17. Requested(t \o f)
    BY <1>13, NoAskNoUpload
  <1> QED BY <1>3, <1>4, <1>5, <1>7, <1>15, <1>16, <1>17 DEF Uploading

LEMMA CloseUploads ==
  ASSUME IInv, UInv, NEW c \in Clients, Close(c) PROVE Uploading(c)'
  <1>1. Types /\ UploadTypes /\ Uploading(c) /\ ClientStep(c)
    BY DEF IInv, UInv, Uploads, ClientStep
  <1>2. /\ cpc[c] = "idle" /\ cpc'[c] = "off" /\ left'[c] = << >>
        /\ UNCHANGED <<out, stream>>
    BY <1>1 DEF Close, Types
  <1>3. /\ fd' = fd /\ len' = len /\ offset' = offset /\ disk' = disk
        /\ Line(c)' = Line(c) /\ (fd[c] => link'[c] = "up")
    BY <1>1, <1>2, ClientLeaves, SameFlow DEF Uploading
  <1>4. ~ Waiting(c)' /\ ~ ReplyUnread(c)'
    BY <1>2 DEF Waiting, ReplyUnread
  <1>5. fd[c] => Storing(c)'
    BY <1>1, <1>3 DEF Uploading, Storing
  <1> QED BY <1>1, <1>2, <1>3, <1>4, <1>5 DEF Uploading

\* What is lost with a client is behind what the server still reads, and a request
\* at the end is lost first.
LEMMA VanishUploads ==
  ASSUME IInv, UInv, NEW c \in Clients, Vanish(c) PROVE Uploading(c)'
  <1>1. Types /\ UploadTypes /\ Uploading(c) /\ ClientStep(c)
    BY DEF IInv, UInv, Uploads, ClientStep
  <1>2. cpc'[c] = "off" /\ left'[c] = << >>
    BY <1>1 DEF Vanish, Types
  <1>3. /\ fd' = fd /\ len' = len /\ offset' = offset /\ disk' = disk
        /\ UNCHANGED <<pc, list, pos, vec>> /\ (fd[c] => link'[c] = "up")
    BY <1>1, ClientLeaves, ClientOthers DEF Uploading
  <1>4. ~ Waiting(c)' /\ ~ ReplyUnread(c)'
    BY <1>2 DEF Waiting, ReplyUnread
  <1> DEFINE p == Line(c)'
             q == out[c]
  <1>5. p \in Seq(Atoms) /\ q \in Seq(Atoms) /\ Line(c) = p \o q
    <2> DEFINE u == Flow(c)'
    <2>1. u \in Seq(Atoms)
      BY VanishFlow
    <2>2. q \in Seq(Atoms)
      BY <1>1, FlowType
    <2>3. Flow(c) = u \o q
      BY VanishFlow
    <2>4. p = IF pc = "handle" /\ Current = c THEN Framing(vec) \o u ELSE u
      BY <1>3 DEF Line, Current
    <2>5. vec \in Seq(Atoms)
      BY <1>1 DEF Types
    <2>6. Framing(vec) \in Seq(Atoms)
      BY <2>5, FrameParts
    <2> HIDE DEF u, q
    <2>7. (Framing(vec) \o u) \o q = Framing(vec) \o (u \o q)
      BY <2>1, <2>2, <2>6, Group, Zenon
    <2>8. Line(c) = p \o q
      BY <2>3, <2>4, <2>7 DEF Line
    <2> QED BY <2>1, <2>2, <2>4, <2>6, <2>8, Joined
  <1> HIDE DEF p, q
  <1>6. Requested(p \o q)
    BY <1>1, <1>5 DEF Uploading
  <1>7. Requested(p) /\ (HasUpload(p) => HasUpload(p \o q) /\ Len(p \o q) = Len(p))
    BY <1>5, <1>6, RequestedHead
  <1>8. ~ fd[c] => DataAt(p) = {}
    <2> HAVE ~ fd[c]
    <2>1. DataAt(p \o q) = {}
      BY <1>1, <1>5 DEF Uploading
    <2>2. /\ \A i \in 1 .. Len(p) : (p \o q)[i] = p[i]
          /\ Len(p \o q) = Len(p) + Len(q) /\ Len(p) \in Nat /\ Len(q) \in Nat
      BY <1>5, Joined
    <2>3. \A i \in 1 .. Len(p) : i \in 1 .. Len(p \o q)
      BY <2>2
    <2> QED BY <2>1, <2>2, <2>3 DEF DataAt
  <1>9. ASSUME fd[c] PROVE Storing(c)'
    <2>1. /\ Storing(c) /\ offset[c] \in Nat /\ len[c] \in Nat
      BY <1>1, <1>9 DEF Uploading, UploadTypes
    <2>2. Numbered(p \o q, offset[c], len[c])
      BY <1>5, <2>1 DEF Storing
    <2>3. Numbered(p, offset[c], len[c])
      BY <1>5, <2>1, <2>2, NumberedHead
    <2>4. HasUpload(p) => Reaches(p, offset[c], len[c])
      <3> HAVE HasUpload(p)
      <3>1. Reaches(p \o q, offset[c], len[c]) /\ Len(p \o q) = Len(p)
        BY <1>5, <1>7, <2>1 DEF Storing
      <3>2. \A i \in 1 .. Len(p) : (p \o q)[i] = p[i]
        BY <1>5, Joined
      <3> QED BY <3>1, <3>2 DEF Reaches
    <2> QED BY <1>3, <2>1, <2>3, <2>4 DEF Storing, p
  <1> QED BY <1>2, <1>3, <1>4, <1>7, <1>8, <1>9 DEF Uploading, p

LEMMA DeliverUploads ==
  ASSUME IInv, UInv, NEW c \in Clients, Deliver(c) PROVE Uploading(c)'
  <1>1. UploadTypes /\ Uploading(c) /\ ClientStep(c)
    BY DEF UInv, Uploads, ClientStep
  <1>2. UNCHANGED <<pc, list, pos, answer, back, clientVars>>
    BY <1>1, ClientOthers DEF Deliver
  <1>3. /\ UNCHANGED <<fd, len, offset, disk>> /\ Line(c)' = Line(c)
        /\ (fd[c] => link'[c] = "up")
    BY <1>1, ClientLeaves, DeliverFlow DEF Uploading
  <1>4. ReplyUnread(c)' = ReplyUnread(c) /\ Ack(c)' = Ack(c)
    BY <1>2 DEF ReplyUnread, Ack, Current, clientVars
  <1> QED BY <1>1, <1>2, <1>3, <1>4, StillUploading DEF clientVars

LEMMA ClientUploads ==
  ASSUME IInv, UInv, NEW c \in Clients, ClientStep(c) PROVE UInv'
  <1>1. Uploading(c)'
    BY ConnectUploads, RequestUploads, ReceiveUploads, SendChunkUploads, CloseUploads,
       VanishUploads, DeliverUploads
    DEF ClientStep
  <1>2. UNCHANGED <<fd, len, offset, disk, files>>
        /\ \A d \in Clients \ {c} : Uploading(d)'
    BY ClientLeaves
  <1>3. Uploads'
    BY <1>1, <1>2 DEF Uploads
  <1>4. UploadTypes' /\ Counted'
    BY <1>2 DEF UInv, UploadTypes, Counted, Open
  <1> QED BY <1>3, <1>4 DEF UInv

-----------------------------------------------------------------------------
(***************************************************************************)
(* The server.                                                             *)
(***************************************************************************)
LEMMA OpenFile ==
  ASSUME Counted, NEW c \in Clients, UploadTypes, ~ fd[c],
         fd' = [fd EXCEPT ![c] = TRUE], files' = files + 1
  PROVE  Counted'
  <1>1. Open' = Open \cup {c} /\ c \notin Open
    BY DEF Open, UploadTypes
  <1> QED BY <1>1, FS_AddElement DEF Counted

LEMMA CloseFile ==
  ASSUME Counted, NEW c \in Clients, UploadTypes, fd[c],
         fd' = [fd EXCEPT ![c] = FALSE], files' = files - 1
  PROVE  Counted'
  <1>1. Open' = Open \ {c} /\ c \in Open
    BY DEF Open, UploadTypes
  <1> QED BY <1>1, FS_RemoveElement DEF Counted

LEMMA SameFiles ==
  ASSUME Counted, fd' = fd, files' = files PROVE Counted'
  BY DEF Counted, Open

\* The server is at one client at a time.
LEMMA OtherUploading ==
  ASSUME UInv, NEW c \in Clients, c = Current, NEW d \in Clients \ {c},
         Flow(d)' = Flow(d), pc' \in {"handle", "write"} => Current' = c,
         cpc'[d] = cpc[d], asked'[d] = asked[d], left'[d] = left[d],
         back'[d] = back[d], link'[d] = link[d],
         fd'[d] = fd[d], len'[d] = len[d], offset'[d] = offset[d], disk'[d] = disk[d]
  PROVE  Uploading(d)'
  <1>1. Uploading(d)
    BY DEF UInv, Uploads
  <1>2. Line(d)' = Line(d)
    BY DEF Line
  <1>3. ReplyUnread(d)' = ReplyUnread(d) /\ (ReplyUnread(d) => Ack(d)' = Ack(d))
    BY DEF ReplyUnread, Ack
  <1>4. fd[d] => link'[d] = "up"
    BY <1>1 DEF Uploading
  <1> QED BY <1>1, <1>2, <1>3, <1>4, StillUploading

\* Between two frames, and while it reads, the server changes nothing.
LEMMA QuietUploads ==
  ASSUME IInv, UInv, Select \/ EndWalk \/ Skip \/ ReadHeaderCut \/ ReadHeader
  PROVE  UInv'
  <1>1. Types /\ UploadTypes /\ Uploads /\ Counted
    BY DEF IInv, UInv
  <1>2. /\ pc \notin {"body", "handle", "write"} /\ pc' \notin {"handle", "write"}
        /\ UNCHANGED <<out, back, cpc, asked, left, link, fd, len, offset, disk, files>>
    BY DEF Select, EndWalk, Skip, ReadHeaderCut, ReadHeader, AtReady, NextClient, Lose,
           clientVars, contexts
  <1>3. \A d \in Clients : Flow(d)' = Flow(d)
    <2>1. CASE Select \/ EndWalk \/ Skip \/ ReadHeaderCut
      <3>1. pc' # "body" /\ UNCHANGED <<out, stream>>
        BY <2>1 DEF Select, EndWalk, Skip, ReadHeaderCut, AtReady, NextClient, Lose
      <3> QED BY <1>2, <3>1, SameFlows
    <2>2. CASE ReadHeader
      <3>1. Current \in Clients
        BY <1>1, <2>2, AtCurrent DEF IInv, ReadHeader, AtReady
      <3> QED BY <2>2, <3>1, HeaderFlow
    <2> QED BY <2>1, <2>2
  <1>4. ASSUME NEW d \in Clients PROVE Uploading(d)'
    <2>1. Line(d)' = Line(d)
      BY <1>2, <1>3 DEF Line
    <2>2. ReplyUnread(d)' = ReplyUnread(d) /\ (ReplyUnread(d) => Ack(d)' = Ack(d))
      BY <1>2 DEF ReplyUnread, Ack
    <2>3. Uploading(d) /\ (fd[d] => link'[d] = "up")
      BY <1>1, <1>2 DEF Uploads, Uploading
    <2> QED BY <1>2, <2>1, <2>2, <2>3, StillUploading
  <1>5. UploadTypes' /\ Counted'
    BY <1>1, <1>2, SameFiles DEF UploadTypes
  <1> QED BY <1>4, <1>5 DEF UInv, Uploads

\* A client that is accepted has no file yet.
LEMMA AcceptUploads ==
  ASSUME IInv, UInv, Accept PROVE UInv'
  <1>1. Types /\ Placed /\ UploadTypes /\ Uploads /\ Counted
    BY DEF IInv, UInv
  <1>2. /\ pc = "accept" /\ pc' = "walk"
        /\ UNCHANGED <<out, stream, back, cpc, asked, left, disk, files>>
    BY DEF Accept, clientVars
  <1>3. \A d \in Clients : Line(d)' = Line(d)
    BY <1>2, SameFlows DEF Line
  <1>4. \A d \in Clients : ReplyUnread(d)' = ReplyUnread(d) /\
                           (ReplyUnread(d) => Ack(d)' = Ack(d))
    BY <1>2 DEF ReplyUnread, Ack
  <1>5. CASE Listener \notin ready
    <2>1. UNCHANGED <<fd, len, offset, link>>
      BY <1>5 DEF Accept, contexts
    <2>2. ASSUME NEW d \in Clients PROVE Uploading(d)'
      <3>1. Uploading(d) /\ (fd[d] => link'[d] = "up")
        BY <1>1, <2>1 DEF Uploads, Uploading
      <3> QED BY <1>2, <1>3, <1>4, <2>1, <3>1, StillUploading
    <2> QED BY <1>1, <1>2, <2>1, <2>2, SameFiles DEF UInv, Uploads, UploadTypes
  <1>6. CASE Listener \in ready
    <2> DEFINE c == Head(backlog)
    <2>1. c \in Clients /\ link[c] = "queued"
      <3>1. backlog \in Seq(Clients) /\ backlog # << >>
        BY <1>1, <1>2, <1>6 DEF Types, Placed
      <3>2. c = backlog[1] /\ 1 \in 1 .. Len(backlog) /\ c \in Clients
        BY <3>1
      <3> QED BY <1>1, <3>2 DEF Placed, Contains
    <2>2. /\ link' = [link EXCEPT ![c] = "up"]
          /\ fd' = [fd EXCEPT ![c] = FALSE]
          /\ len' = [len EXCEPT ![c] = 0]
          /\ offset' = [offset EXCEPT ![c] = 0]
      BY <1>6 DEF Accept
    <2> HIDE DEF c
    <2>3. ~ fd[c]
      BY <1>1, <2>1 DEF Uploads, Uploading
    <2>4. fd' = fd
      BY <1>1, <2>1, <2>2, <2>3 DEF UploadTypes
    <2>5. ASSUME NEW d \in Clients PROVE Uploading(d)'
      <3>1. Uploading(d)
        BY <1>1 DEF Uploads
      <3>2. fd[d] => /\ len'[d] = len[d] /\ offset'[d] = offset[d]
                     /\ disk'[d] = disk[d] /\ link'[d] = "up"
        BY <1>1, <1>2, <2>1, <2>2, <2>3, <3>1 DEF Uploading, UploadTypes, Types
      <3> QED BY <1>2, <1>3, <1>4, <2>4, <3>1, <3>2, StillUploading
    <2>6. UploadTypes'
      BY <1>1, <1>2, <2>1, <2>2 DEF UploadTypes
    <2> QED BY <1>1, <1>2, <2>4, <2>5, <2>6, SameFiles DEF UInv, Uploads
  <1> QED BY <1>5, <1>6

\* While a frame is read the line of its client stays as it is.
LEMMA BodyUploads ==
  ASSUME IInv, UInv, ReadBody, NEW c \in Clients, c = Current PROVE UInv'
  <1>1. Types /\ UploadTypes /\ Uploads /\ Counted
    BY DEF IInv, UInv
  <1>2. /\ UNCHANGED <<list, pos, out, back, cpc, asked>>
        /\ \A d \in Clients \ {c} : stream'[d] = stream[d]
        /\ \/ pc' = "body" /\ Flow(c)' = Flow(c)
           \/ pc' = "handle" /\ Flow(c) = Framing(vec') \o Flow(c)'
    BY BodyFlow
  <1>3. pc = "body" /\ UNCHANGED <<left, link, answer, fd, len, offset, disk, files>>
    BY DEF ReadBody, clientVars, contexts
  <1>4. c = Current'
    BY <1>2 DEF Current
  <1>5. Line(c)' = Line(c)
    BY <1>2, <1>3, <1>4 DEF Line
  <1>6. Uploading(c)'
    <2>1. Uploading(c) /\ (fd[c] => link'[c] = "up")
      BY <1>1, <1>3 DEF Uploads, Uploading
    <2>2. ReplyUnread(c)' = ReplyUnread(c) /\ Ack(c)' = Ack(c)
      BY <1>2, <1>3 DEF ReplyUnread, Ack
    <2> QED BY <1>2, <1>3, <1>5, <2>1, <2>2, StillUploading
  <1>7. \A d \in Clients \ {c} : Flow(d)' = Flow(d)
    BY <1>2, <1>4, OtherFlows
  <1>8. \A d \in Clients \ {c} : Uploading(d)'
    BY <1>2, <1>3, <1>4, <1>7, OtherUploading
  <1> QED BY <1>1, <1>3, <1>6, <1>8, SameFiles DEF UInv, Uploads, UploadTypes

LEMMA BodyEndUploads ==
  ASSUME IInv, UInv, ReadBodyEnd, NEW c \in Clients, c = Current PROVE UInv'
  <1>1. Types /\ UploadTypes /\ Uploads /\ Counted
    BY DEF IInv, UInv
  <1>2. /\ pc = "body" /\ pc' = "lost"
        /\ cpc[c] = "off" /\ out[c] = << >> /\ stream[c] = << >>
        /\ UNCHANGED <<list, pos, out, stream, back, cpc, asked, left, link, fd, len,
                       offset, disk, files>>
    BY DEF ReadBodyEnd, Ended, Lose, clientVars, contexts
  <1>3. c = Current'
    BY <1>2 DEF Current
  <1>4. Line(c)' = << >>
    BY <1>2, NothingFlows DEF Line
  <1>5. Uploading(c)'
    <2>1. Uploading(c)
      BY <1>1 DEF Uploads
    <2>2. fd[c] => Storing(c)'
      BY <1>2, <1>4, <2>1, NothingNumbered, NumberedNone DEF Uploading, Storing
    <2>3. ~ Waiting(c)' /\ ~ ReplyUnread(c)'
      BY <1>2 DEF Waiting, ReplyUnread
    <2> QED BY <1>2, <1>4, <2>1, <2>2, <2>3, NothingNumbered DEF Uploading
  <1>6. \A d \in Clients \ {c} : Flow(d)' = Flow(d)
    BY <1>2, <1>3, OtherFlows
  <1>7. \A d \in Clients \ {c} : Uploading(d)'
    BY <1>2, <1>3, <1>6, OtherUploading
  <1> QED BY <1>1, <1>2, <1>5, <1>7, SameFiles DEF UInv, Uploads, UploadTypes

LEMMA DropUploads ==
  ASSUME IInv, UInv, ReadEnd \/ WriteFails, NEW c \in Clients, c = Current PROVE UInv'
  <1>1. Types /\ UploadTypes /\ Uploads /\ Counted
    BY DEF IInv, UInv
  <1>2. /\ pc \in {"walk", "write"} /\ pc' = "walk" /\ cpc[c] = "off"
        /\ UNCHANGED <<cpc, asked, left>>
        /\ out' = [out EXCEPT ![c] = << >>]
        /\ stream' = [stream EXCEPT ![c] = << >>]
        /\ back' = [back EXCEPT ![c] = << >>]
        /\ link' = [link EXCEPT ![c] = "none"]
        /\ fd' = [fd EXCEPT ![c] = FALSE]
        /\ len' = [len EXCEPT ![c] = 0]
        /\ offset' = [offset EXCEPT ![c] = 0]
        /\ disk' = [disk EXCEPT ![c] = << >>]
        /\ files' = IF fd[c] THEN files - 1 ELSE files
    BY DEF ReadEnd, WriteFails, AtReady, Ended, Drop, Forget, clientVars
  <1>3. /\ out'[c] = << >> /\ stream'[c] = << >> /\ ~ fd'[c]
        /\ \A d \in Clients \ {c} :
             /\ out'[d] = out[d] /\ stream'[d] = stream[d] /\ back'[d] = back[d]
             /\ link'[d] = link[d] /\ fd'[d] = fd[d] /\ len'[d] = len[d]
             /\ offset'[d] = offset[d] /\ disk'[d] = disk[d]
    BY <1>1, <1>2 DEF Types, UploadTypes
  <1>4. Line(c)' = << >>
    BY <1>2, <1>3, NothingFlows DEF Line
  <1>5. Uploading(c)'
    <2>1. left[c] = << >>
      BY <1>1, <1>2 DEF Uploads, Uploading
    <2>2. ~ Waiting(c)' /\ ~ ReplyUnread(c)'
      BY <1>2 DEF Waiting, ReplyUnread
    <2> QED BY <1>2, <1>3, <1>4, <2>1, <2>2, NothingNumbered DEF Uploading
  <1>6. \A d \in Clients \ {c} : Flow(d)' = Flow(d)
    BY <1>2, <1>3 DEF Flow, Taken
  <1>7. \A d \in Clients \ {c} : Uploading(d)'
    BY <1>2, <1>3, <1>6, OtherUploading
  <1>8. UploadTypes'
    <2>1. << >> \in Seq(Chunks)
      BY EmptySeq
    <2> QED BY <1>1, <1>2, <2>1 DEF UploadTypes
  <1>9. Counted'
    <2>1. CASE fd[c]
      BY <1>1, <1>2, <2>1, CloseFile
    <2>2. CASE ~ fd[c]
      <3>1. fd' = fd
        BY <1>1, <1>2, <2>2 DEF UploadTypes
      <3> QED BY <1>1, <1>2, <2>2, <3>1, SameFiles
    <2> QED BY <2>1, <2>2
  <1> QED BY <1>5, <1>7, <1>8, <1>9 DEF UInv, Uploads

LEMMA WriteUploads ==
  ASSUME IInv, UInv, Write, NEW c \in Clients, c = Current PROVE UInv'
  <1>1. Types /\ UploadTypes /\ Uploads /\ Counted /\ Turn(c)
    BY DEF IInv, UInv, Turns
  <1>2. /\ pc = "write" /\ pc' = "walk"
        /\ UNCHANGED <<out, stream, cpc, asked, left, link, fd, len, offset, disk, files>>
        /\ back' = IF cpc[c] = "off" THEN back ELSE [back EXCEPT ![c] = Append(@, answer)]
    BY DEF Write, NextClient, clientVars, contexts
  <1>3. \A d \in Clients : Flow(d)' = Flow(d)
    BY <1>2, SameFlows
  <1>4. \A d \in Clients \ {c} : back'[d] = back[d]
    BY <1>1, <1>2 DEF Types
  <1>5. \A d \in Clients \ {c} : Uploading(d)'
    BY <1>2, <1>3, <1>4, OtherUploading
  <1>6. Line(c)' = Line(c)
    BY <1>2, <1>3 DEF Line
  <1>7. ReplyUnread(c)' = ReplyUnread(c) /\ (ReplyUnread(c) => Ack(c)' = Ack(c))
    <2>1. CASE cpc[c] = "off"
      BY <1>2, <2>1 DEF ReplyUnread
    <2>2. CASE cpc[c] # "off"
      <3>1. cpc[c] = "reply" /\ back[c] = << >>
        BY <1>1, <1>2, <2>2 DEF Turn, Answering, Types
      <3>2. back'[c] = Append(back[c], answer) /\ back[c] \in Seq(Answers)
            /\ answer \in Answers
        BY <1>1, <1>2, <2>2 DEF Types
      <3>3. back'[c] # << >> /\ back'[c][1] = answer
        BY <3>1, <3>2
      <3> QED BY <1>2, <3>1, <3>3 DEF ReplyUnread, Ack
    <2> QED BY <2>1, <2>2
  <1>8. Uploading(c)'
    <2>1. Uploading(c) /\ (fd[c] => link'[c] = "up")
      BY <1>1, <1>2 DEF Uploads, Uploading
    <2> QED BY <1>2, <1>6, <1>7, <2>1, StillUploading
  <1> QED BY <1>1, <1>2, <1>5, <1>8, SameFiles DEF UInv, Uploads, UploadTypes

\* A request for an upload comes when no file is open: what was announced before
\* has been received.
LEMMA AskHandled ==
  ASSUME IInv, UInv, HandleRequest, NEW c \in Clients, c = Current
  PROVE  /\ vec[2] \in Asks /\ Flow(c) = << >> /\ Line(c)' = << >>
         /\ cpc[c] = "idle" => FALSE
         /\ cpc[c] = "reply" => asked[c] = vec[2] /\ back[c] = << >>
         /\ vec[2].topic = Upload => ~ fd[c] /\ left[c] = << >> /\ vec[2].len # 0
  <1>1. /\ Types /\ UploadTypes /\ Uploading(c) /\ Turn(c)
        /\ vec \in Seq(Atoms) /\ Body(vec) /\ vec[1] = Mode(0) /\ pc = "handle"
    BY DEF IInv, UInv, Uploads, Turns, Flows, Types, HandleRequest
  <1> DEFINE u == Flow(c)
  <1>2. u \in Seq(Atoms) /\ Line(c) = Framing(vec) \o u /\ Requested(Line(c))
    BY <1>1, FlowType DEF Line, Uploading
  <1> HIDE DEF u
  <1>3. /\ u = << >> /\ DataAt(Line(c)) = {}
        /\ vec[2].topic = Upload => vec[2].len # 0 /\ HasUpload(Line(c))
    BY <1>1, <1>2, AskAlone
  <1>4. vec[2] \in Asks
    BY <1>1, AskFrame
  <1>5. Line(c)' = << >>
    <2>1. pc' = "write" /\ UNCHANGED <<out, stream>>
      BY DEF HandleRequest
    <2>2. Flow(c)' = Flow(c)
      BY <1>1, <2>1, SameFlows
    <2> QED BY <1>3, <2>1, <2>2 DEF Line, u
  <1>6. /\ cpc[c] # "idle"
        /\ cpc[c] = "reply" => asked[c] = vec[2] /\ back[c] = << >>
    BY <1>1 DEF Turn, Answering
  <1>7. ASSUME vec[2].topic = Upload PROVE ~ fd[c] /\ left[c] = << >>
    <2>1. SUFFICES ASSUME fd[c] PROVE FALSE
      BY <1>1 DEF Uploading
    <2>2. Reaches(Line(c), offset[c], len[c]) /\ offset[c] < len[c]
      BY <1>1, <1>3, <1>7, <2>1 DEF Uploading, Storing
    <2>3. offset[c] # len[c]
      BY <1>1, <2>2 DEF UploadTypes
    <2>4. PICK i \in 1 .. Len(Line(c)) : Line(c)[i] = Data(len[c])
      BY <2>2, <2>3 DEF Reaches
    <2> QED BY <1>3, <2>4, DataKind DEF DataAt
  <1> QED BY <1>3, <1>4, <1>5, <1>6, <1>7 DEF u

LEMMA RequestHandled ==
  ASSUME IInv, UInv, HandleRequest, NEW c \in Clients, c = Current PROVE UInv'
  <1> DEFINE ask == vec[2]
  <1>1. Types /\ UploadTypes /\ Uploads /\ Counted /\ Uploading(c)
    BY DEF IInv, UInv, Uploads
  <1>2. /\ pc = "handle" /\ pc' = "write"
        /\ UNCHANGED <<list, pos, out, stream, back, cpc, asked, left, link>>
    BY DEF HandleRequest, clientVars
  <1>3. Current' = c /\ \A d \in Clients : Flow(d)' = Flow(d)
    BY <1>2, SameFlows DEF Current
  <1>4. /\ ask \in Asks /\ Flow(c) = << >> /\ Line(c)' = << >>
        /\ cpc[c] # "idle"
        /\ cpc[c] = "reply" => asked[c] = ask /\ back[c] = << >>
        /\ ask.topic = Upload => ~ fd[c] /\ left[c] = << >> /\ ask.len # 0
    BY AskHandled
  <1>5. link[c] = "up"
    BY <1>2, AtCurrent DEF IInv, Placed
  <1>6. CASE ask.topic # Upload
    <2>1. UNCHANGED <<fd, len, offset, files, disk>>
      BY <1>6 DEF HandleRequest, contexts
    <2>2. \A d \in Clients \ {c} : Uploading(d)'
      BY <1>2, <1>3, <2>1, OtherUploading
    <2>3. ~ ReplyUnread(c) /\ ~ ReplyUnread(c)' /\ Waiting(c)' = Waiting(c)
      BY <1>2, <1>4, <1>6 DEF ReplyUnread, Waiting
    <2>4. Sent(c)' = Sent(c)
      BY <1>2, <2>1, <2>3 DEF Sent, Granted
    <2>5. ASSUME fd[c] PROVE Storing(c)' /\ (cpc[c] # "off" => Sending(c)')
      <3>1. /\ Storing(c) /\ (cpc[c] # "off" => Sending(c))
            /\ offset[c] \in Nat /\ len[c] \in Nat
        BY <1>1, <2>5 DEF Uploading, UploadTypes
      <3>2. Numbered(<< >>, offset[c], len[c])
        BY NothingNumbered, NumberedNone
      <3>3. Storing(c)'
        BY <1>4, <2>1, <3>1, <3>2, NothingNumbered DEF Storing
      <3>4. ASSUME cpc[c] # "off" PROVE Sending(c)'
        <4>1. Sent(c) \in offset[c] .. len[c] /\ Reaches(Line(c), offset[c], Sent(c))
          BY <3>1, <3>4 DEF Sending
        <4>2. Sent(c) = offset[c]
          <5>1. SUFFICES ASSUME Sent(c) # offset[c] PROVE FALSE
            OBVIOUS
          <5>2. PICK i \in 1 .. Len(Line(c)) : Line(c)[i] = Data(Sent(c))
            BY <4>1, <5>1 DEF Reaches
          <5>3. DataAt(Line(c)) = {}
            <6>1. vec \in Seq(Atoms) /\ Body(vec) /\ vec[1] = Mode(0)
              BY <1>2 DEF IInv, Flows, Types, HandleRequest
            <6>2. Line(c) = Framing(vec) \o Flow(c) /\ Flow(c) \in Seq(Atoms)
              BY <1>1, <1>2, FlowType DEF Line
            <6>3. Requested(Framing(vec) \o Flow(c))
              BY <1>1, <6>2 DEF Uploading
            <6> QED BY <6>1, <6>2, <6>3, AskAlone
          <5> QED BY <5>2, <5>3, DataKind DEF DataAt
        <4>3. Numbered(<< >>, offset[c], Sent(c)) /\ Reaches(<< >>, offset[c], Sent(c))
          BY <4>2, NothingNumbered, NumberedNone
        <4> QED BY <1>2, <1>4, <2>1, <2>4, <3>1, <3>4, <4>1, <4>3 DEF Sending
      <3> QED BY <3>3, <3>4
    <2>6. Uploading(c)'
      BY <1>1, <1>2, <1>4, <1>5, <2>1, <2>3, <2>5, NothingNumbered DEF Uploading
    <2> QED BY <1>1, <2>1, <2>2, <2>6, SameFiles DEF UInv, Uploads, UploadTypes
  <1>7. CASE ask.topic = Upload
    <2>0. FileUpload(c, ask) /\ ~ fd[c] /\ left[c] = << >> /\ ask.len # 0
      BY <1>4, <1>7 DEF HandleRequest
    <2>1. ReplyUnread(c)' => /\ asked[c] = ask /\ back'[c] = << >>
                             /\ Ack(c)' = answer'.ack
      BY <1>2, <1>4 DEF ReplyUnread, Ack
    <2>2. Waiting(c)' => asked'[c].len # 0
      BY <1>2, <1>4, <2>0 DEF Waiting
    <2>3. ASSUME /\ fd' = [fd EXCEPT ![c] = TRUE]
                 /\ files' = files + 1
                 /\ disk' = [disk EXCEPT ![c] = << >>]
                 /\ offset' = [offset EXCEPT ![c] = 0]
                 /\ len' = [len EXCEPT ![c] = ask.len]
                 /\ answer' = [n |-> ask.n, ack |-> "ok"]
          PROVE  UInv'
      <3>1. ask.len \in Nat /\ ask.len > 0
        BY <1>4, <2>0, AskLength
      <3>2. /\ fd'[c] /\ disk'[c] = << >> /\ offset'[c] = 0 /\ len'[c] = ask.len
            /\ \A d \in Clients \ {c} : /\ fd'[d] = fd[d] /\ len'[d] = len[d]
                                        /\ offset'[d] = offset[d] /\ disk'[d] = disk[d]
        BY <1>1, <2>3 DEF UploadTypes
      <3>3. \A d \in Clients \ {c} : Uploading(d)'
        BY <1>2, <1>3, <3>2, OtherUploading
      <3>4. Storing(c)'
        <4>1. File(0) = << >>
          BY DEF File
        <4>2. Numbered(<< >>, 0, ask.len)
          BY NothingNumbered, NumberedNone
        <4> QED BY <1>4, <3>1, <3>2, <4>1, <4>2, NothingNumbered DEF Storing
      <3>5. ASSUME cpc[c] # "off" PROVE Sending(c)'
        <4>1. cpc[c] = "reply" /\ asked[c] = ask
          BY <1>1, <1>4, <3>5 DEF Types
        <4>2. Granted(c)'
          BY <1>2, <1>3, <1>7, <3>2, <4>1 DEF Granted, ReplyUnread
        <4>3. Sent(c)' = 0
          BY <4>2 DEF Sent
        <4>4. Numbered(<< >>, 0, 0) /\ Reaches(<< >>, 0, 0)
          BY NothingNumbered, NumberedNone
        <4> QED BY <1>2, <1>4, <2>0, <3>1, <3>2, <4>3, <4>4 DEF Sending
      <3>6. Uploading(c)'
        BY <1>2, <1>4, <1>5, <2>0, <2>1, <2>2, <2>3, <3>2, <3>4, <3>5, NothingNumbered
        DEF Uploading
      <3>7. UploadTypes'
        <4>1. << >> \in Seq(Chunks)
          BY EmptySeq
        <4> QED BY <1>1, <2>3, <3>1, <4>1 DEF UploadTypes
      <3>8. Counted'
        BY <1>1, <2>0, <2>3, OpenFile
      <3> QED BY <3>3, <3>6, <3>7, <3>8 DEF UInv, Uploads
    <2>4. ASSUME /\ fd' = [fd EXCEPT ![c] = FALSE]
                 /\ answer' = [n |-> ask.n, ack |-> "error"]
                 /\ UNCHANGED <<files, disk, offset, len>>
          PROVE  UInv'
      <3>1. fd' = fd
        BY <1>1, <2>0, <2>4 DEF UploadTypes
      <3>2. \A d \in Clients \ {c} : Uploading(d)'
        BY <1>2, <1>3, <2>4, <3>1, OtherUploading
      <3>3. Uploading(c)'
        BY <1>2, <1>4, <2>0, <2>1, <2>2, <2>4, <3>1, NothingNumbered DEF Uploading
      <3> QED BY <1>1, <2>4, <3>1, <3>2, <3>3, SameFiles DEF UInv, Uploads, UploadTypes
    <2> QED BY <2>0, <2>3, <2>4 DEF FileUpload
  <1> QED BY <1>6, <1>7

\* A chunk that is handled belongs to an open file, and continues it.
LEMMA ChunkStored ==
  ASSUME IInv, UInv, HandleChunk, NEW c \in Clients, c = Current
  PROVE  /\ fd[c] /\ Storing(c) /\ Len(vec) \in Nat /\ Len(vec) >= 2
         /\ Line(c) = Framing(vec) \o Flow(c) /\ ~ ReplyUnread(c)
         /\ offset[c] + (Len(vec) - 1) <= len[c]
         /\ disk[c] \o Tail(vec) = File(offset[c] + (Len(vec) - 1))
         /\ Numbered(Flow(c), offset[c] + (Len(vec) - 1), len[c])
         /\ Reaches(Line(c), offset[c], len[c]) =>
              Reaches(Flow(c), offset[c] + (Len(vec) - 1), len[c])
         /\ cpc[c] # "off" =>
              /\ offset[c] + (Len(vec) - 1) <= Sent(c)
              /\ Numbered(Flow(c), offset[c] + (Len(vec) - 1), Sent(c))
              /\ Reaches(Flow(c), offset[c] + (Len(vec) - 1), Sent(c))
  <1>1. /\ Types /\ UploadTypes /\ Uploading(c)
        /\ vec \in Seq(Atoms) /\ Body(vec) /\ vec[1] = Mode(1) /\ pc = "handle"
    BY DEF IInv, UInv, Uploads, Flows, Types, HandleChunk
  <1> DEFINE u == Flow(c)
             f == Framing(vec)
             a == offset[c]
             k == Len(vec) - 1
  <1>2. /\ u \in Seq(Atoms) /\ f \in Seq(Atoms) /\ Line(c) = f \o u
        /\ Line(c) \in Seq(Atoms)
    BY <1>1, FlowType, FrameParts, LineType DEF Line
  <1>3. Len(vec) \in Nat /\ Len(vec) >= 2 /\ 3 \in DataAt(f)
    <2>1. Len(vec) >= 2 /\ Len(vec) \in Nat /\ DataAt(f) = 3 .. Len(vec) + 1
      BY <1>1, ChunkFrame
    <2> QED BY <2>1
  <1>4. 3 \in DataAt(Line(c))
    <2> HIDE DEF f, u
    <2>1. /\ Len(f) \in Nat /\ Len(f \o u) = Len(f) + Len(u) /\ Len(u) \in Nat
          /\ \A i \in 1 .. Len(f) : (f \o u)[i] = f[i]
      BY <1>2, Joined
    <2>2. 3 \in 1 .. Len(f) /\ f[3].kind = "data"
      BY <1>3 DEF DataAt
    <2> QED BY <1>2, <2>1, <2>2 DEF DataAt
  <1>5. fd[c] /\ Storing(c) /\ (cpc[c] # "off" => Sending(c))
    BY <1>1, <1>4 DEF Uploading, UploadTypes
  <1>6. a \in Nat /\ len[c] \in Nat /\ a < len[c]
    BY <1>1, <1>5 DEF UploadTypes, Storing
  <1>7. /\ \A i \in 1 .. k : vec[1 + i] = Data(a + i)
        /\ a + k <= len[c] /\ Numbered(u, a + k, len[c])
        /\ Reaches(f \o u, a, len[c]) => Reaches(u, a + k, len[c])
    <2>1. Numbered(f \o u, a, len[c])
      BY <1>2, <1>5 DEF Storing
    <2>2. a <= len[c]
      BY <1>6
    <2> HIDE DEF u, a
    <2> QED BY <1>1, <1>2, <1>6, <2>1, <2>2, ChunkTaken
  <1>8. ASSUME cpc[c] # "off"
        PROVE  a + k <= Sent(c) /\ Numbered(u, a + k, Sent(c)) /\ Reaches(u, a + k, Sent(c))
    <2>1. /\ Sent(c) \in Nat /\ a <= Sent(c)
          /\ Numbered(f \o u, a, Sent(c)) /\ Reaches(f \o u, a, Sent(c))
      BY <1>2, <1>5, <1>6, <1>8 DEF Sending
    <2> HIDE DEF u, a
    <2> QED BY <1>1, <1>2, <1>6, <2>1, ChunkTaken
  <1>9. ~ ReplyUnread(c)
    <2> SUFFICES ASSUME ReplyUnread(c) PROVE FALSE
      OBVIOUS
    <2>1. a = 0 /\ Sent(c) = 0 /\ cpc[c] # "off"
      BY <1>1, <1>5 DEF Uploading, Sent, Granted, ReplyUnread
    <2> QED BY <1>3, <1>8, <2>1
  <1>10. disk[c] \o Tail(vec) = File(a + k)
    <2>1. disk[c] = File(a)
      BY <1>5 DEF Storing
    <2>2. /\ Tail(vec) \in Seq(Atoms) /\ Len(Tail(vec)) = k /\ k \in Nat
          /\ \A i \in 1 .. k : Tail(vec)[i] = vec[i + 1]
      <3>1. vec # << >>
        BY <1>3
      <3> QED BY <1>1, <1>3, <3>1
    <2> DEFINE w == Tail(vec)
               p == File(a)
    <2>3. /\ p \in Seq(Atoms) /\ Len(p) = a /\ \A i \in 1 .. a : p[i] = Data(i)
      <3>1. p \in Seq(Chunks)
        BY <1>6, Files
      <3>2. p \in Seq(Atoms)
        BY <3>1, SeqMonotonic, Kinds
      <3> QED BY <1>6, <3>2 DEF File
    <2>4. \A i \in 1 .. k : w[i] = Data(a + i)
      <3> TAKE i \in 1 .. k
      <3>1. w[i] = vec[i + 1] /\ i + 1 = 1 + i
        BY <2>2
      <3> QED BY <1>7, <3>1
    <2>w. w \in Seq(Atoms) /\ Len(w) = k
      BY <2>2
    <2> HIDE DEF w, p, a, k
    <2>5. /\ p \o w \in Seq(Atoms) /\ Len(p \o w) = a + k
          /\ \A i \in 1 .. a : (p \o w)[i] = p[i]
          /\ \A i \in 1 .. k : (p \o w)[a + i] = w[i]
      <3>1. /\ p \o w \in Seq(Atoms) /\ Len(p \o w) = Len(p) + Len(w)
            /\ \A i \in 1 .. Len(p) : (p \o w)[i] = p[i]
            /\ \A i \in 1 .. Len(w) : (p \o w)[Len(p) + i] = w[i]
        BY <2>3, <2>w, Joined
      <3> QED BY <2>3, <2>w, <3>1
    <2>6. ASSUME NEW i \in 1 .. a + k PROVE (p \o w)[i] = Data(i)
      <3>1. CASE i <= a
        BY <1>6, <2>3, <2>5, <3>1
      <3>2. CASE i > a
        <4>1. i - a \in 1 .. k /\ a + (i - a) = i
          BY <1>6, <2>2, <3>2
        <4> QED BY <2>4, <2>5, <4>1
      <3>3. i <= a \/ i > a
        BY <1>6, <2>2
      <3> QED BY <3>1, <3>2, <3>3
    <2>7. p \o w = [i \in 1 .. a + k |-> Data(i)]
      <3> DEFINE s == p \o w
      <3>1. s \in Seq(Atoms) /\ Len(s) = a + k /\ \A i \in 1 .. a + k : s[i] = Data(i)
        BY <2>5, <2>6
      <3> HIDE DEF s
      <3>2. s = [i \in 1 .. Len(s) |-> s[i]]
        BY <3>1
      <3> QED BY <3>1, <3>2 DEF s
    <2> QED BY <2>1, <2>7 DEF File, p, w
  <1> QED BY <1>2, <1>3, <1>5, <1>7, <1>8, <1>9, <1>10

LEMMA ChunkHandled ==
  ASSUME IInv, UInv, HandleChunk, NEW c \in Clients, c = Current
  PROVE  /\ UInv'
         /\ fd[c] /\ ~ fd'[c] => disk'[c] = File(len[c])
         /\ \A d \in Clients \ {c} : fd'[d] = fd[d]
  <1> DEFINE u == Flow(c)
             n == offset[c] + (Len(vec) - 1)
  <1>1. Types /\ UploadTypes /\ Uploads /\ Counted /\ Uploading(c)
    BY DEF IInv, UInv, Uploads
  <1>2. /\ pc = "handle" /\ pc' = "walk"
        /\ UNCHANGED <<out, stream, back, cpc, asked, left, link, len>>
    BY DEF HandleChunk, NextClient, clientVars
  <1>3. /\ fd[c] /\ Storing(c) /\ Len(vec) \in Nat /\ Len(vec) >= 2
        /\ Line(c) = Framing(vec) \o u /\ ~ ReplyUnread(c)
        /\ n <= len[c] /\ disk[c] \o Tail(vec) = File(n)
        /\ Numbered(u, n, len[c])
        /\ Reaches(Line(c), offset[c], len[c]) => Reaches(u, n, len[c])
        /\ cpc[c] # "off" =>
             n <= Sent(c) /\ Numbered(u, n, Sent(c)) /\ Reaches(u, n, Sent(c))
    BY ChunkStored
  <1>4. n \in Nat /\ offset[c] \in Nat /\ len[c] \in Nat /\ offset[c] + Len(vec) - 1 = n
    BY <1>1, <1>3 DEF UploadTypes
  <1>5. /\ disk' = [disk EXCEPT ![c] = File(n)]
        /\ offset' = [offset EXCEPT ![c] = n]
        /\ fd' = [fd EXCEPT ![c] = n # len[c]]
        /\ files' = IF n = len[c] THEN files - 1 ELSE files
    <2>1. /\ disk' = [disk EXCEPT ![c] = disk[c] \o Tail(vec)]
          /\ offset' = [offset EXCEPT ![c] = offset[c] + Len(vec) - 1]
          /\ fd' = [fd EXCEPT ![c] = fd[c] /\ offset'[c] # len[c]]
          /\ files' = IF fd[c] /\ ~ fd'[c] THEN files - 1 ELSE files
      BY <1>3 DEF HandleChunk
    <2>2. offset' = [offset EXCEPT ![c] = n] /\ offset'[c] = n
      BY <1>1, <1>4, <2>1 DEF UploadTypes
    <2> HIDE DEF n
    <2>3. fd' = [fd EXCEPT ![c] = n # len[c]] /\ fd'[c] = (n # len[c])
      BY <1>1, <1>3, <2>1, <2>2 DEF UploadTypes
    <2> QED BY <1>3, <2>1, <2>2, <2>3
  <1> HIDE DEF n
  <1>6. /\ disk'[c] = File(n) /\ offset'[c] = n /\ fd'[c] = (n # len[c])
        /\ \A d \in Clients \ {c} :
             fd'[d] = fd[d] /\ offset'[d] = offset[d] /\ disk'[d] = disk[d]
    BY <1>1, <1>5 DEF UploadTypes
  <1>7. \A d \in Clients : Flow(d)' = Flow(d)
    BY <1>2, SameFlows
  <1>8. \A d \in Clients \ {c} : Uploading(d)'
    BY <1>2, <1>6, <1>7, OtherUploading
  <1>9. Line(c)' = u /\ ~ ReplyUnread(c)' /\ Waiting(c)' = Waiting(c)
    BY <1>2, <1>3, <1>7 DEF Line, ReplyUnread, Waiting
  <1>10. Requested(u) /\ (HasUpload(u) => HasUpload(Line(c)))
    <2>1. vec \in Seq(Atoms) /\ u \in Seq(Atoms)
      BY <1>1, FlowType DEF Types
    <2>2. Framing(vec) \in Seq(Atoms)
      BY <2>1, FrameParts
    <2>3. Requested(Framing(vec) \o u)
      BY <1>1, <1>3 DEF Uploading
    <2> HIDE DEF u
    <2> QED BY <1>3, <2>1, <2>2, <2>3, RequestedTail
  <1>11. Sent(c)' = Sent(c) /\ Sent(c) = len[c] - Len(left[c])
    BY <1>2, <1>3, <1>9 DEF Sent, Granted
  <1>12. Uploading(c)'
    <2>1. CASE n # len[c]
      <3>1. fd'[c] /\ n < len[c]
        <4>1. n < len[c]
          BY <1>3, <1>4, <2>1
        <4> QED BY <1>6, <2>1, <4>1
      <3>2. HasUpload(u) => Reaches(u, n, len[c])
        BY <1>3, <1>10 DEF Storing
      <3>3. Storing(c)'
        BY <1>2, <1>3, <1>6, <1>9, <3>1, <3>2 DEF Storing
      <3>4. ASSUME cpc[c] # "off" PROVE Sending(c)'
        <4>1. Sending(c)
          BY <1>1, <1>3, <3>4 DEF Uploading
        <4>2. Sent(c) \in n .. len[c]
          BY <1>3, <1>4, <3>4, <4>1 DEF Sending
        <4> QED BY <1>2, <1>3, <1>6, <1>9, <1>11, <3>4, <4>1, <4>2 DEF Sending
      <3> QED BY <1>1, <1>2, <1>3, <1>9, <1>10, <3>1, <3>3, <3>4 DEF Uploading
    <2>2. CASE n = len[c]
      <3>1. ~ fd'[c]
        BY <1>6, <2>2
      <3>2. DataAt(u) = {}
        <4>1. \A i \in DataAt(u) : u[i].n \in len[c] + 1 .. len[c]
          BY <1>3, <2>2 DEF Numbered
        <4> QED BY <1>4, <4>1
      <3>3. left[c] = << >>
        <4>1. CASE cpc[c] = "off"
          BY <1>1, <4>1 DEF Uploading
        <4>2. CASE cpc[c] # "off"
          <5>1. left[c] \in Seq(Chunks) /\ len[c] <= len[c] - Len(left[c])
            BY <1>1, <1>3, <1>11, <2>2, <4>2 DEF Types
          <5> QED BY <1>4, <5>1
        <4> QED BY <4>1, <4>2
      <3> QED BY <1>1, <1>2, <1>9, <1>10, <3>1, <3>2, <3>3 DEF Uploading
    <2> QED BY <2>1, <2>2
  <1>13. UploadTypes'
    <2>1. File(n) \in Seq(Chunks) /\ (n # len[c]) \in BOOLEAN
      BY <1>4, Files
    <2> QED BY <1>1, <1>2, <1>4, <1>5, <2>1 DEF UploadTypes
  <1>14. Counted'
    <2>1. CASE n = len[c]
      <3>1. fd' = [fd EXCEPT ![c] = FALSE] /\ files' = files - 1
        BY <1>5, <2>1
      <3> QED BY <1>1, <1>3, <3>1, CloseFile
    <2>2. CASE n # len[c]
      <3>1. fd' = fd /\ files' = files
        BY <1>1, <1>3, <1>5, <2>2 DEF UploadTypes
      <3> QED BY <1>1, <3>1, SameFiles
    <2> QED BY <2>1, <2>2
  <1> QED BY <1>6, <1>8, <1>12, <1>13, <1>14 DEF UInv, Uploads

LEMMA ServerUploads == ASSUME IInv, UInv, ServerStep PROVE UInv'
  <1>1. CASE Select \/ EndWalk \/ Skip \/ ReadHeaderCut \/ ReadHeader
    BY <1>1, QuietUploads
  <1>2. CASE Accept
    BY <1>2, AcceptUploads
  <1>3. CASE \/ ReadEnd \/ ReadBody \/ ReadBodyEnd
             \/ HandleRequest \/ Write \/ WriteFails \/ HandleChunk
    <2>1. Types /\ Placed /\ pos <= Len(list)
      BY <1>3 DEF IInv, Placed, ReadEnd, ReadBody, ReadBodyEnd, HandleRequest, Write,
                  WriteFails, HandleChunk, AtReady
    <2>2. Current \in Clients
      BY <2>1, AtCurrent
    <2> QED BY <1>3, <2>2, DropUploads, BodyUploads, BodyEndUploads, RequestHandled,
               WriteUploads, ChunkHandled
  <1> QED BY <1>1, <1>2, <1>3 DEF ServerStep

LEMMA InitUploads == Init => UInv
  <1> SUFFICES ASSUME Init PROVE UInv
    OBVIOUS
  <1>1. /\ fd = [c \in Clients |-> FALSE] /\ len = [c \in Clients |-> 0]
        /\ offset = [c \in Clients |-> 0] /\ disk = [c \in Clients |-> << >>]
        /\ files = 0 /\ cpc = [c \in Clients |-> "off"] /\ pc = "select"
        /\ left = [c \in Clients |-> << >>] /\ link = [c \in Clients |-> "none"]
    BY DEF Init
  <1>2. UploadTypes
    <2>1. << >> \in Seq(Chunks)
      BY EmptySeq
    <2> QED BY <1>1, <2>1 DEF UploadTypes
  <1>3. Counted
    <2>1. Open = {}
      BY <1>1 DEF Open
    <2> QED BY <1>1, <2>1, FS_EmptySet DEF Counted
  <1>4. ASSUME NEW c \in Clients PROVE Uploading(c)
    <2>1. IInv
      BY InitInv
    <2>2. Line(c) = << >>
      <3>1. Types /\ Placed /\ Away /\ link[c] = "none" /\ pc # "handle"
        BY <1>1, <2>1 DEF IInv
      <3> QED BY <3>1, NoFlow DEF Line
    <2> QED BY <1>1, <2>2, NothingNumbered DEF Uploading, Waiting, ReplyUnread
  <1> QED BY <1>2, <1>3, <1>4 DEF UInv, Uploads

LEMMA UploadInvariant == Spec => [](IInv /\ UInv)
  <1>1. Init => UInv
    BY InitUploads
  <1>2. IInv /\ UInv /\ [Next]_vars => UInv'
    <2> SUFFICES ASSUME IInv, UInv, [Next]_vars PROVE UInv'
      OBVIOUS
    <2>1. CASE ServerStep
      BY <2>1, ServerUploads
    <2>2. ASSUME NEW c \in Clients, ClientStep(c) PROVE UInv'
      BY <2>2, ClientUploads
    <2>3. CASE UNCHANGED vars
      <3>1. UNCHANGED <<pc, list, pos, pending, vec, answer, fd, len, offset, disk, files,
                        link, out, stream, back, cpc, asked, left>>
        BY <2>3 DEF vars, serverVars, clientVars, contexts
      <3>2. \A c \in Clients : Line(c)' = Line(c)
        BY <3>1 DEF Line, Flow, Taken, Current
      <3>3. \A c \in Clients : ReplyUnread(c)' = ReplyUnread(c) /\ Ack(c)' = Ack(c)
        BY <3>1 DEF ReplyUnread, Ack, Current
      <3>4. Uploads'
        <4> SUFFICES ASSUME NEW c \in Clients PROVE Uploading(c)'
          BY DEF Uploads
        <4>1. Uploading(c) /\ (fd[c] => link'[c] = "up")
          BY <3>1 DEF UInv, Uploads, Uploading
        <4> QED BY <3>1, <3>2, <3>3, <4>1, StillUploading
      <3> QED BY <3>1, <3>4, SameFiles DEF UInv, UploadTypes
    <2> QED BY <2>1, <2>2, <2>3 DEF Next
  <1> QED BY <1>1, <1>2, Invariant, PTL DEF Spec

-----------------------------------------------------------------------------
(***************************************************************************)
(* The data in flight.                                                     *)
(***************************************************************************)
LEMMA CountNumbers ==
  ASSUME NEW t \in Seq(Atoms), NEW a \in Nat, NEW b \in Nat, Numbered(t, a, b),
         NEW S \in SUBSET DataAt(t), NEW m \in Nat, a <= m,
         \A i \in S : t[i].n \in a + 1 .. m,
         \A h \in a + 1 .. m : \E i \in S : t[i].n = h
  PROVE  IsFiniteSet(S) /\ Cardinality(S) = m - a
  <1> DEFINE T == a + 1 .. m
             g == [i \in S |-> t[i].n]
  <1>1. IsFiniteSet(S)
    <2>1. S \in SUBSET (1 .. Len(t)) /\ Len(t) \in Nat
      BY DEF DataAt
    <2>2. IsFiniteSet(1 .. Len(t))
      BY <2>1, FS_Interval
    <2> QED BY <2>1, <2>2, FS_Subset
  <1>2. \A i, j \in S : g[i] = g[j] => i = j
    <2> SUFFICES ASSUME NEW i \in S, NEW j \in S, t[i].n = t[j].n PROVE i = j
      OBVIOUS
    <2>1. i \in Int /\ j \in Int /\ i \in DataAt(t) /\ j \in DataAt(t)
      BY DEF DataAt
    <2>2. t[i].n \in Int /\ t[j].n \in Int
      OBVIOUS
    <2>3. (i < j => t[i].n < t[j].n) /\ (j < i => t[j].n < t[i].n)
      BY <2>1 DEF Numbered
    <2> QED BY <2>1, <2>2, <2>3
  <1>3. g \in [S -> T] /\ \A h \in T : \E i \in S : g[i] = h
    OBVIOUS
  <1>4. g \in Surjection(S, T) /\ g \in Injection(S, T)
    <2>1. DOMAIN g = S
      OBVIOUS
    <2> HIDE DEF g, T
    <2>2. IsInjective(g)
      BY <1>2, <2>1 DEF IsInjective
    <2> QED BY <1>3, <2>2 DEF Surjection, Injection
  <1>5. Cardinality(T) = Cardinality(S)
    BY <1>1, <1>4, FS_Surjection
  <1>6. Cardinality(T) = m - a
    <2>1. a + 1 \in Int /\ m \in Int
      OBVIOUS
    <2>2. Cardinality(T) = IF a + 1 > m THEN 0 ELSE m - (a + 1) + 1
      BY <2>1, FS_Interval
    <2> QED BY <2>2
  <1> QED BY <1>1, <1>5, <1>6

\* The k-th of numbered data that reach b is number a + k.
LEMMA NthData ==
  ASSUME NEW t \in Seq(Atoms), NEW a \in Nat, NEW b \in Nat, a <= b,
         Numbered(t, a, b), Reaches(t, a, b)
  PROVE  /\ Cardinality(DataAt(t)) = b - a
         /\ \A k \in 1 .. b - a :
              LET i == CHOOSE i \in DataAt(t) :
                         Cardinality({j \in DataAt(t) : j <= i}) = k
              IN  t[i] = Data(a + k)
  <1>1. \A i \in DataAt(t) : i \in 1 .. Len(t) /\ t[i] = Data(t[i].n)
                             /\ t[i].n \in a + 1 .. b
    <2>1. \A i \in DataAt(t) : i \in 1 .. Len(t) /\ t[i] = Data(t[i].n)
      BY DataKind DEF DataAt
    <2> QED BY <2>1 DEF Numbered
  <1>2. \A i \in DataAt(t) : \A h \in a + 1 .. t[i].n :
          \E j \in DataAt(t) : j <= i /\ t[j].n = h
    <2> TAKE i \in DataAt(t)
    <2> TAKE h \in a + 1 .. t[i].n
    <2>1. PICK j \in 1 .. i : t[j] = Data(h)
      BY DEF Numbered
    <2>2. j \in 1 .. Len(t)
      BY <1>1
    <2> QED BY <2>1, <2>2, DataKind DEF DataAt
  <1>3. \A h \in a + 1 .. b : \E i \in DataAt(t) : t[i].n = h
    <2> TAKE h \in a + 1 .. b
    <2>1. PICK i \in 1 .. Len(t) : t[i] = Data(b)
      BY DEF Reaches
    <2>2. i \in DataAt(t) /\ t[i].n = b
      BY <2>1, DataKind DEF DataAt
    <2> QED BY <1>2, <2>2
  <1>4. Cardinality(DataAt(t)) = b - a
    <2>1. \A i \in DataAt(t) : t[i].n \in a + 1 .. b
      BY <1>1
    <2> QED BY <1>3, <2>1, CountNumbers
  <1>5. ASSUME NEW i \in DataAt(t)
        PROVE  Cardinality({j \in DataAt(t) : j <= i}) = t[i].n - a
    <2> DEFINE S == {j \in DataAt(t) : j <= i}
               m == t[i].n
    <2>1. m \in Nat /\ a <= m /\ S \in SUBSET DataAt(t)
      BY <1>1
    <2>2. \A j \in S : t[j].n \in a + 1 .. m
      <3> SUFFICES ASSUME NEW j \in DataAt(t), j <= i PROVE t[j].n \in a + 1 .. t[i].n
        OBVIOUS
      <3>1. j \in Int /\ i \in Int /\ t[j].n \in a + 1 .. b /\ t[i].n \in a + 1 .. b
        BY <1>1
      <3>2. j < i => t[j].n < t[i].n
        BY DEF Numbered
      <3>3. j = i \/ j < i
        BY <3>1
      <3> QED BY <3>1, <3>2, <3>3
    <2>3. \A h \in a + 1 .. m : \E j \in S : t[j].n = h
      BY <1>2
    <2> HIDE DEF S, m
    <2>4. Cardinality(S) = m - a
      BY <2>1, <2>2, <2>3, CountNumbers
    <2> QED BY <2>4 DEF S, m
  <1>6. ASSUME NEW k \in 1 .. b - a
        PROVE  LET i == CHOOSE i \in DataAt(t) :
                          Cardinality({j \in DataAt(t) : j <= i}) = k
               IN  t[i] = Data(a + k)
    <2> DEFINE P(i) == Cardinality({j \in DataAt(t) : j <= i}) = k
               i == CHOOSE x \in DataAt(t) : P(x)
    <2>1. \E x \in DataAt(t) : P(x)
      <3>1. a + k \in a + 1 .. b
        OBVIOUS
      <3>2. PICK x \in DataAt(t) : t[x].n = a + k
        BY <1>3, <3>1
      <3>3. (a + k) - a = k
        OBVIOUS
      <3> QED BY <1>5, <3>2, <3>3
    <2>2. i \in DataAt(t) /\ P(i)
      <3> HIDE DEF P
      <3> QED BY <2>1
    <2> HIDE DEF i
    <2>3. t[i].n - a = k
      BY <1>5, <2>2
    <2>4. t[i].n = a + k /\ t[i] = Data(t[i].n)
      BY <1>1, <2>2, <2>3
    <2> QED BY <2>4 DEF i
  <1> QED BY <1>4, <1>6

\* What a client sends and the server stores is one row of data.
LEMMA FlightNumbered ==
  ASSUME IInv, UInv, NEW c \in Clients, NEW a \in Nat, NEW b \in Nat, a <= b,
         Numbered(Line(c), a, b), Reaches(Line(c), a, b)
  PROVE  InFlight(c) = [k \in 1 .. b - a |-> Data(a + k)]
  <1> DEFINE taken == IF pc \in {"body", "handle"} /\ Current = c THEN vec ELSE << >>
             r == stream[c] \o out[c]
             t == taken \o r
  <1>1. Types /\ vec \in Seq(Atoms) /\ pending \in Nat /\ Len(vec) \in Nat
    BY DEF IInv, Types
  <1>2. r \in Seq(Atoms) /\ taken \in Seq(Atoms)
    BY <1>1, FlowType, EmptySeq
  <1>3. t \in Seq(Atoms)
    <2> HIDE DEF r, taken
    <2> QED BY <1>2, Joined
  <1>4. \E p \in Seq(Atoms) : DataAt(p) = {} /\ Line(c) = p \o t
    <2>1. CASE ~ (pc \in {"body", "handle"} /\ Current = c)
      <3>1. taken = << >> /\ Line(c) = << >> \o r
        BY <2>1 DEF Line, Flow, Taken
      <3>2. t = << >> \o r
        BY <3>1
      <3>3. Line(c) = t
        BY <3>1, <3>2
      <3> HIDE DEF t
      <3>4. << >> \o t = t
        BY <1>3, ConcatEmptySeq
      <3> QED BY <3>3, <3>4, NothingNumbered, EmptySeq
    <2>2. CASE pc \in {"body", "handle"} /\ Current = c
      <3>1. PICK n \in Nat : Line(c) = (<<Size(n)>> \o vec) \o r
        <4>1. CASE pc = "body"
          <5>1. Len(vec) + pending \in Nat
            BY <1>1
          <5>2. Line(c) = (<<Size(Len(vec) + pending)>> \o vec) \o r
            BY <2>2, <4>1 DEF Line, Flow, Taken
          <5> QED BY <5>1, <5>2
        <4>2. CASE pc = "handle"
          <5>1. Line(c) = (<<Size(Len(vec))>> \o vec) \o (<< >> \o r)
            BY <2>2, <4>2 DEF Line, Flow, Taken, Framing
          <5> HIDE DEF r
          <5>2. << >> \o r = r
            BY <1>2, ConcatEmptySeq
          <5> QED BY <1>1, <5>1, <5>2
        <4> QED BY <2>2, <4>1, <4>2
      <3> DEFINE p == <<Size(n)>>
      <3>2. p \in Seq(Atoms) /\ DataAt(p) = {}
        <4>1. Size(n) \in Atoms /\ Size(n).kind # "data"
          BY Kinds
        <4> QED BY <4>1 DEF DataAt
      <3>3. t = vec \o r
        BY <2>2
      <3>4. Line(c) = (p \o vec) \o r
        BY <3>1
      <3> HIDE DEF p, r
      <3>5. p \in Seq(Atoms)
        BY <3>2
      <3>6. vec \in Seq(Atoms)
        BY <1>1
      <3>7. r \in Seq(Atoms)
        BY <1>2
      <3>8. (p \o vec) \o r = p \o (vec \o r)
        BY <3>5, <3>6, <3>7, Group, Zenon
      <3> QED BY <3>2, <3>3, <3>4, <3>8
    <2> QED BY <2>1, <2>2
  <1> DEFINE Nth(k) == CHOOSE i \in DataAt(t) :
                         Cardinality({j \in DataAt(t) : j <= i}) = k
  <1>5. InFlight(c) = [k \in 1 .. Cardinality(DataAt(t)) |-> t[Nth(k)]]
    BY DEF InFlight, DataAt
  <1> HIDE DEF t
  <1>6. Numbered(t, a, b) /\ Reaches(t, a, b)
    <2>1. PICK p \in Seq(Atoms) : DataAt(p) = {} /\ Line(c) = p \o t
      BY <1>4
    <2>2. Numbered(p \o t, a, b) /\ Reaches(p \o t, a, b)
      BY <2>1
    <2>3. /\ \A i \in DataAt(p) : p[i].n <= a + 0
          /\ 0 > 0 => \E i \in DataAt(p) : p[i].n = a + 0
      BY <2>1
    <2>4. Numbered(t, a + 0, b) /\ Reaches(t, a + 0, b)
      BY <1>3, <2>2, <2>3, NumberedTail
    <2>5. a + 0 = a
      OBVIOUS
    <2> QED BY <2>4, <2>5
  <1>7. /\ Cardinality(DataAt(t)) = b - a
        /\ \A k \in 1 .. b - a : t[Nth(k)] = Data(a + k)
    BY <1>3, <1>6, NthData
  <1> HIDE DEF Nth
  <1> QED BY <1>5, <1>7

-----------------------------------------------------------------------------
(***************************************************************************)
(* The theorems.                                                           *)
(***************************************************************************)
\* The server has one file open for each listed client that uploads, however the
\* upload ends and whoever comes and goes (cf_stp.c:476,492,535,554).
THEOREM OwnsFiles == Spec => []FilesOwned
  <1>1. IInv /\ UInv => FilesOwned
    <2> SUFFICES ASSUME IInv, UInv PROVE FilesOwned
      OBVIOUS
    <2>1. {c \in ToSet(list) : fd[c]} = Open
      <3>1. Types /\ Placed /\ Uploads
        BY DEF IInv, UInv
      <3>2. ASSUME NEW c \in Clients, fd[c] PROVE c \in ToSet(list)
        <4>1. Contains(list, c)
          BY <3>1, <3>2 DEF Uploads, Uploading, Placed
        <4>2. list \in Seq(Clients)
          BY <3>1 DEF Types
        <4> QED BY <4>1, <4>2 DEF Contains, ToSet
      <3>3. \A c \in ToSet(list) : c \in Clients
        BY <3>1 DEF Types, ToSet
      <3> QED BY <3>2, <3>3 DEF Open
    <2> QED BY <2>1 DEF UInv, Counted, FilesOwned
  <1> QED BY <1>1, UploadInvariant, PTL

\* An upload that ends while its client is connected has stored the whole file, of
\* whatever length and however it was cut into chunks and frames (cf_stp.c:544-556).
THEOREM StoresWhole == Spec => StoredWhole
  <1>1. IInv /\ UInv /\ [Next]_vars =>
          [\A c \in Clients :
             fd[c] /\ ~ fd'[c] /\ link'[c] = "up" => disk'[c] = File(len[c])]_vars
    <2> SUFFICES ASSUME IInv, UInv, Next, NEW c \in Clients,
                        fd[c], ~ fd'[c], link'[c] = "up"
                 PROVE  disk'[c] = File(len[c])
      OBVIOUS
    <2>1. Types /\ Placed /\ UploadTypes /\ Uploading(c)
      BY DEF IInv, UInv, Uploads
    <2>2. ~ \E d \in Clients : ClientStep(d)
      BY ClientLeaves
    <2>3. ServerStep
      BY <2>2 DEF Next
    <2>4. \/ Accept
          \/ (ReadEnd \/ WriteFails \/ HandleRequest \/ HandleChunk) /\ Current \in Clients
      <3>1. \/ Accept \/ ReadEnd \/ WriteFails \/ HandleRequest \/ HandleChunk
        BY <2>3 DEF ServerStep, Select, EndWalk, Skip, ReadHeader, ReadHeaderCut, ReadBody,
                    ReadBodyEnd, Write, Lose, NextClient, contexts
      <3>2. ReadEnd \/ WriteFails \/ HandleRequest \/ HandleChunk => pos <= Len(list)
        BY <2>1 DEF Placed, ReadEnd, WriteFails, HandleRequest, HandleChunk, AtReady
      <3> QED BY <2>1, <3>1, <3>2, AtCurrent
    <2>5. CASE Accept
      <3>1. Listener \in ready /\ pc = "accept" /\ fd' = [fd EXCEPT ![Head(backlog)] = FALSE]
        BY <2>5 DEF Accept, contexts
      <3>2. Head(backlog) = c
        BY <2>1, <3>1 DEF UploadTypes
      <3>3. link[c] = "queued"
        BY <2>1, <3>1, <3>2 DEF Types, Placed, Contains
      <3> QED BY <2>1, <3>3 DEF Uploading
    <2>6. CASE ReadEnd \/ WriteFails
      <3>1. /\ fd' = [fd EXCEPT ![Current] = FALSE]
            /\ link' = [link EXCEPT ![Current] = "none"]
        BY <2>6 DEF ReadEnd, WriteFails, Drop, Forget
      <3> QED BY <2>1, <3>1 DEF UploadTypes, Types
    <2>7. CASE HandleRequest /\ Current \in Clients
      <3>1. fd' = fd \/ (vec[2].topic = Upload /\ FileUpload(Current, vec[2]))
        BY <2>7 DEF HandleRequest, contexts
      <3>2. vec[2].topic = Upload => ~ fd[Current]
        BY <2>7, AskHandled
      <3> QED BY <2>1, <3>1, <3>2 DEF UploadTypes, FileUpload
    <2>8. CASE HandleChunk /\ Current \in Clients
      BY <2>8, ChunkHandled
    <2> QED BY <2>4, <2>5, <2>6, <2>7, <2>8
  <1> QED BY <1>1, UploadInvariant, PTL DEF Spec, StoredWhole

\* Between the start of an upload and its end nothing of the file is lost, doubled or
\* moved: it is stored, in the hands of the server, on the way, or still to be sent
\* (cf_stp.c:250-261,544-556).
THEOREM LosesNothing == Spec => []NothingLost
  <1>1. IInv /\ UInv => NothingLost
    <2> SUFFICES ASSUME IInv, UInv, NEW c \in Clients,
                        fd[c], cpc[c] # "off", ~ ReplyUnread(c)
                 PROVE  disk[c] \o InFlight(c) \o left[c] = File(len[c])
      BY DEF NothingLost
    <2> DEFINE a == offset[c]
               m == Sent(c)
               n == len[c]
               p == disk[c]
               q == InFlight(c)
               r == left[c]
    <2>1. Types /\ UploadTypes /\ Storing(c) /\ Sending(c)
      BY DEF IInv, UInv, Uploads, Uploading
    <2>2. /\ a \in Nat /\ n \in Nat /\ m \in a .. n /\ m = n - Len(r) /\ Len(r) \in Nat
          /\ r \in Seq(Chunks)
      BY <2>1 DEF UploadTypes, Types, Sending, Sent, Granted
    <2>3. Numbered(Line(c), a, m) /\ Reaches(Line(c), a, m)
          /\ \A i \in 1 .. Len(r) : r[i] = Data(m + i)
      BY <2>1 DEF Sending
    <2>4. m \in Nat /\ a <= m /\ m <= n /\ Len(r) = n - m
      <3> HIDE DEF a, m, n, r
      <3> QED BY <2>2
    <2>5. p = [i \in 1 .. a |-> Data(i)]
      BY <2>1 DEF Storing, File
    <2> HIDE DEF a, m, n, p, r
    <2>7. q = [k \in 1 .. m - a |-> Data(a + k)]
      BY <2>2, <2>3, <2>4, FlightNumbered
    <2> HIDE DEF q
    <2>6. Len(q) = m - a /\ \A k \in 1 .. m - a : q[k] = Data(a + k)
      <3>1. m - a \in Nat
        BY <2>2, <2>4
      <3> QED BY <2>7, <3>1
    <2> DEFINE s == [i \in 1 .. n |-> Data(i)]
    <2>8. p \in Seq(Chunks) /\ Len(p) = a /\ \A i \in 1 .. a : p[i] = Data(i)
      BY <2>2, <2>5, Kinds
    <2>9. q \in Seq(Chunks)
      <3>1. \A k \in 1 .. m - a : q[k] \in Chunks
        BY <2>2, <2>4, <2>6, Kinds
      <3>2. m - a \in Nat
        BY <2>2, <2>4
      <3> QED BY <2>7, <3>1, <3>2
    <2>10. /\ p \o q \in Seq(Chunks) /\ Len(p \o q) = m
           /\ \A i \in 1 .. m : (p \o q)[i] = Data(i)
      <3>1. /\ p \o q \in Seq(Chunks) /\ Len(p \o q) = Len(p) + Len(q)
            /\ \A i \in 1 .. Len(p) + Len(q) :
                 (p \o q)[i] = IF i <= Len(p) THEN p[i] ELSE q[i - Len(p)]
        BY <2>8, <2>9, ConcatProperties
      <3>2. a + (m - a) = m
        BY <2>2, <2>4
      <3>3. ASSUME NEW i \in 1 .. m PROVE (p \o q)[i] = Data(i)
        <4>1. CASE i <= a
          BY <2>2, <2>4, <2>6, <2>8, <3>1, <3>2, <4>1
        <4>2. CASE i > a
          <5>1. i - a \in 1 .. m - a /\ a + (i - a) = i
            BY <2>2, <2>4, <4>2
          <5> QED BY <2>2, <2>6, <2>8, <3>1, <3>2, <4>2, <5>1
        <4>3. i <= a \/ i > a
          BY <2>2, <2>4
        <4> QED BY <4>1, <4>2, <4>3
      <3> QED BY <2>6, <2>8, <3>1, <3>2, <3>3
    <2>11. /\ p \o q \o r \in Seq(Chunks) /\ Len(p \o q \o r) = n
           /\ \A i \in 1 .. n : (p \o q \o r)[i] = Data(i)
      <3> DEFINE u == p \o q
      <3>1. u \in Seq(Chunks) /\ Len(u) = m /\ \A i \in 1 .. m : u[i] = Data(i)
        BY <2>10
      <3> HIDE DEF u
      <3>2. /\ u \o r \in Seq(Chunks) /\ Len(u \o r) = Len(u) + Len(r)
            /\ \A i \in 1 .. Len(u) + Len(r) :
                 (u \o r)[i] = IF i <= Len(u) THEN u[i] ELSE r[i - Len(u)]
        BY <2>2, <3>1, ConcatProperties
      <3>3. m + Len(r) = n
        BY <2>2, <2>4
      <3>4. ASSUME NEW i \in 1 .. n PROVE (u \o r)[i] = Data(i)
        <4>1. CASE i <= m
          BY <2>4, <3>1, <3>2, <3>3, <4>1
        <4>2. CASE i > m
          <5>1. i - m \in 1 .. Len(r) /\ m + (i - m) = i
            BY <2>2, <2>4, <4>2
          <5> QED BY <2>3, <3>1, <3>2, <3>3, <4>2, <5>1
        <4>3. i <= m \/ i > m
          BY <2>2, <2>4
        <4> QED BY <4>1, <4>2, <4>3
      <3> QED BY <3>1, <3>2, <3>3, <3>4 DEF u
    <2>12. p \o q \o r = s
      <3> DEFINE u == p \o q \o r
      <3>1. u \in Seq(Chunks) /\ Len(u) = n /\ \A i \in 1 .. n : u[i] = Data(i)
        BY <2>11
      <3> HIDE DEF u
      <3>2. u = [i \in 1 .. Len(u) |-> u[i]]
        BY <3>1
      <3> QED BY <3>1, <3>2 DEF u
    <2> QED BY <2>12 DEF File, n, p, q, r
  <1> QED BY <1>1, UploadInvariant, PTL
=============================================================================
