-------------------------- MODULE AsyncQueueProofs --------------------------
(***************************************************************************)
(* Proofs about AsyncQueue, for every set of threads, items, uses, limits  *)
(* and timeouts.  The invariants come in layers, each proved with the help *)
(* of those before it:                                                     *)
(*                                                                         *)
(*   TypeInv     types, and the item of a push is an item;                 *)
(*   ControlInv  who holds the mutex, who may be asleep, in which call;    *)
(*   LimitInv    a push works with the limit of the queue;                 *)
(*   NoLostWakeup;                                                         *)
(*   OutcomeInv  which calls are decided, and by what a pop may give up.   *)
(*                                                                         *)
(* The last two sections show what the queue promises to its callers, step *)
(* by step: FifoQueue, and FifoQueue without a limit when the limit and    *)
(* the timeout move under the calls.                                       *)
(***************************************************************************)
EXTENDS AsyncQueue, SequenceTheorems, TLAPS

ArgInv == \A t \in Threads : ~Idle(t) /\ op[t] \in Pushes => arg[t] \in Items
TypeInv == TypeOK /\ ArgInv

\* A signal wakes nobody who was not asleep.
LEMMA SignalSubset ==
    ASSUME Signal \/ NoSignal PROVE waiters' \subseteq waiters
  BY DEF Signal, NoSignal

\* A signal empties the condition variable when at most one thread sleeps there.
LEMMA SignalAlone ==
    ASSUME Signal, \A s, t \in waiters : s = t PROVE waiters' = {}
  BY DEF Signal

\* What an enqueueing step does to the queue.
LEMMA EnqueueStep ==
    ASSUME TypeInv, NEW t \in Threads, ~Idle(t), op[t] \in Pushes, Enqueue(t)
    PROVE  /\ queue' \in Seq(Items)
           /\ queue' = Append(queue, arg[t])
           /\ Len(queue') = Len(queue) + 1
           /\ waiters' \subseteq waiters
  <1>1. queue' = Append(queue, arg[t])
    BY DEF Enqueue, Decide
  <1>2. arg[t] \in Items /\ queue \in Seq(Items)
    BY DEF TypeInv, ArgInv, TypeOK
  <1>3. waiters' \subseteq waiters
    BY SignalSubset DEF Enqueue
  <1> QED
    BY <1>1, <1>2, <1>3, AppendProperties

\* What taking the front of a non-empty queue does to it.
LEMMA FrontStep ==
    ASSUME TypeInv, queue # << >>
    PROVE  /\ Head(queue) \in Items
           /\ Tail(queue) \in Seq(Items)
           /\ Len(queue) \in Nat \ {0}
           /\ Len(Tail(queue)) = Len(queue) - 1
  <1>1. queue \in Seq(Items)
    BY DEF TypeInv, TypeOK
  <1> QED
    BY <1>1, HeadTailProperties, EmptySeq, LenProperties

\* Every decision of a call leaves the queue a sequence of items, answers an
\* outcome, and wakes only sleeping threads.
LEMMA DecisionStep ==
    ASSUME TypeInv, NEW t \in Threads, Decision(t)
    PROVE  /\ queue' \in Seq(Items)
           /\ result' \in [Threads -> Outcomes]
           /\ waiters' \subseteq waiters
           /\ pc[t] = "loop"
           /\ pc' = [pc EXCEPT ![t] = "unlock"]
           /\ UNCHANGED <<alive, maxSize, timed, mutex, op, arg, cap, late, ret>>
  <1>t. queue \in Seq(Items) /\ result \in [Threads -> Outcomes]
    BY DEF TypeInv, TypeOK
  <1>1. CASE Push(t)
    <2>1. ~Idle(t) /\ op[t] \in Pushes /\ Enqueue(t)
      BY <1>1 DEF Push, Running, Idle, Pushes
    <2> QED
      BY <1>1, <1>t, <2>1, EnqueueStep
      DEF Push, Running, Enqueue, Decide, Outcomes
  <1>2. CASE TryPush(t)
    <2>1. ~Idle(t) /\ op[t] \in Pushes
      BY <1>2 DEF TryPush, Running, Idle, Pushes
    <2>2. CASE Enqueue(t)
      BY <1>2, <1>t, <2>1, <2>2, EnqueueStep
      DEF TryPush, Running, Enqueue, Decide, Outcomes
    <2>3. CASE Decide(t, Full, queue) /\ NoSignal
      BY <1>2, <1>t, <2>3, SignalSubset DEF TryPush, Running, Decide, Outcomes
    <2> QED
      BY <1>2, <2>2, <2>3 DEF TryPush
  <1>3. CASE PopTake(t)
    <2>1. waiters' \subseteq waiters
      BY <1>3, SignalSubset DEF PopTake
    <2> QED
      BY <1>3, <1>t, <2>1, FrontStep DEF PopTake, Running, Decide, Outcomes
  <1>4. CASE PopGiveUp(t)
    BY <1>4, <1>t, SignalSubset DEF PopGiveUp, Running, Decide, Outcomes
  <1>5. CASE TryPop(t)
    BY <1>5, <1>t, SignalSubset, FrontStep DEF TryPop, Running, Decide, Outcomes
  <1>6. CASE Length(t)
    BY <1>6, <1>t, SignalSubset, LenProperties DEF Length, Running, Decide, Outcomes
  <1> QED
    BY <1>1, <1>2, <1>3, <1>4, <1>5, <1>6 DEF Decision

-----------------------------------------------------------------------------

LEMMA NoItems == << >> \in Seq(Items)
  OBVIOUS

LEMMA TypeInit == Init => TypeInv
  <1> SUFFICES ASSUME Init PROVE TypeInv
    OBVIOUS
  <1>1. queue \in Seq(Items) /\ maxSize \in Int
    BY NoItems DEF Init
  <1>2. op \in [Threads -> Ops \cup {"none"}]
    BY DEF Init
  <1>3. result \in [Threads -> Outcomes]
    BY DEF Init, Outcomes
  <1>4. cap \in [Threads -> Int] /\ late \in [Threads -> BOOLEAN]
    BY DEF Init
  <1>5. pc \in [Threads -> {"idle", "lock", "loop", "wait", "timedwait", "unlock"}]
    BY DEF Init
  <1>6. arg \in [Threads -> Items \cup {NoItem}] /\ ret \in [Threads -> Returns]
    BY DEF Init, Returns
  <1>7. ArgInv
    BY DEF Init, ArgInv, Idle
  <1> QED
    BY <1>1, <1>2, <1>3, <1>4, <1>5, <1>6, <1>7 DEF TypeInv, TypeOK, Init

LEMMA TypeStep == TypeInv /\ [Next]_vars => TypeInv'
  <1> SUFFICES ASSUME TypeInv, [Next]_vars PROVE TypeInv'
    OBVIOUS
  <1> USE DEF TypeInv, TypeOK, ArgInv, Idle
  <1>1. CASE Create
    <2>1. /\ queue' \in Seq(Items) /\ maxSize' \in Int
          /\ mutex' \in Threads \cup {None} /\ waiters' \subseteq Threads
      BY <1>1, NoItems DEF Create
    <2>2. alive' \in BOOLEAN /\ timed' \in BOOLEAN
      BY <1>1 DEF Create
    <2> QED
      BY <1>1, <2>1, <2>2 DEF Create
  <1>2. CASE Delete
    BY <1>2, NoItems DEF Delete
  <1>3. ASSUME NEW n \in QuietSizes \cup LiveSizes, SetMaxSize(n) PROVE TypeInv'
    BY <1>3, SizesAssumption DEF SetMaxSize
  <1>4. ASSUME NEW b \in BOOLEAN, SetTimeout(b) PROVE TypeInv'
    BY <1>4 DEF SetTimeout
  <1>5. ASSUME NEW t \in Threads, NEW o \in Ops, NEW v \in Items \cup {NoItem},
               Call(t, o, v)
        PROVE  TypeInv'
    BY <1>5 DEF Call, Outcomes
  <1>6. ASSUME NEW t \in Threads, Lock(t) PROVE TypeInv'
    BY <1>6 DEF Lock, Returns
  <1>7. ASSUME NEW t \in Threads, Relock(t) PROVE TypeInv'
    BY <1>7 DEF Relock, Asleep
  <1>8. ASSUME NEW t \in Threads, PushWait(t) \/ PopWait(t) PROVE TypeInv'
    BY <1>8 DEF PushWait, PopWait, Running, Sleep
  <1>9. ASSUME NEW t \in Threads, PopInvalid(t) PROVE TypeInv'
    BY <1>9 DEF PopInvalid, Returns
  <1>10. ASSUME NEW t \in Threads, Decision(t) PROVE TypeInv'
    BY <1>10, DecisionStep
  <1>11. ASSUME NEW t \in Threads, Unlock(t) PROVE TypeInv'
    BY <1>11 DEF Unlock, Returns
  <1>12. ASSUME NEW t \in Threads, Timeout(t) \/ Spurious(t) PROVE TypeInv'
    BY <1>12 DEF Timeout, Spurious, Returns
  <1>13. CASE UNCHANGED vars
    BY <1>13 DEF vars
  <1> QED
    BY <1>1, <1>2, <1>3, <1>4, <1>5, <1>6, <1>7, <1>8, <1>9, <1>10, <1>11, <1>12,
       <1>13 DEF Next, Owner, Step

LEMMA TypeInvariant == Spec => []TypeInv
  BY TypeInit, TypeStep, PTL DEF Spec

\* Type correctness of the queue and of the locals of every call.
THEOREM TypeCorrect == Spec => []TypeOK
  <1>1. TypeInv => TypeOK
    BY DEF TypeInv
  <1> QED
    BY <1>1, TypeInvariant, PTL
-----------------------------------------------------------------------------
(***************************************************************************)
(* Who holds the mutex and who sleeps.                                     *)
(***************************************************************************)

Sleepers == \A t \in Threads : /\ t \in waiters => Asleep(t)
                               /\ Asleep(t) => op[t] \in {"push", "pop"}
Allowed == \A t \in Threads : ~Idle(t) => op[t] \in Uses[t]
ControlInv == MutualExclusion /\ Sleepers /\ Allowed /\ (~alive => Quiet)

LEMMA ControlInit == Init => ControlInv
  BY NoneAssumption
  DEF Init, ControlInv, MutualExclusion, Sleepers, Allowed, Quiet, Idle, Asleep

\* A thread that runs is in no sleep and holds the mutex alone.
LEMMA ControlDecision ==
    ASSUME TypeInv, ControlInv, NEW t \in Threads, Decision(t)
    PROVE  ControlInv'
  <1>1. /\ waiters' \subseteq waiters
        /\ pc[t] = "loop"
        /\ pc' = [pc EXCEPT ![t] = "unlock"]
        /\ UNCHANGED <<alive, mutex, op>>
    BY DecisionStep
  <1>2. pc \in [Threads -> {"idle", "lock", "loop", "wait", "timedwait", "unlock"}]
    BY DEF TypeInv, TypeOK
  <1>3. MutualExclusion'
    BY <1>1, <1>2 DEF ControlInv, MutualExclusion
  <1>4. Sleepers'
    BY <1>1, <1>2 DEF ControlInv, Sleepers, Asleep
  <1>5. Allowed'
    BY <1>1, <1>2 DEF ControlInv, Allowed, Idle
  <1>6. alive'
    BY <1>1 DEF ControlInv, Quiet, Idle
  <1> QED
    BY <1>3, <1>4, <1>5, <1>6 DEF ControlInv

LEMMA ControlStep == TypeInv /\ ControlInv /\ [Next]_vars => ControlInv'
  <1> SUFFICES ASSUME TypeInv, ControlInv, [Next]_vars PROVE ControlInv'
    OBVIOUS
  <1> USE NoneAssumption
      DEF TypeInv, TypeOK, ControlInv, MutualExclusion, Sleepers, Allowed, Quiet,
          Idle, Asleep
  <1>1. CASE Create
    BY <1>1 DEF Create
  <1>2. CASE Delete
    BY <1>2 DEF Delete
  <1>3. ASSUME NEW n \in QuietSizes \cup LiveSizes, SetMaxSize(n) PROVE ControlInv'
    BY <1>3 DEF SetMaxSize
  <1>4. ASSUME NEW b \in BOOLEAN, SetTimeout(b) PROVE ControlInv'
    BY <1>4 DEF SetTimeout
  <1>5. ASSUME NEW t \in Threads, NEW o \in Ops, NEW v \in Items \cup {NoItem},
               Call(t, o, v)
        PROVE  ControlInv'
    BY <1>5 DEF Call
  <1>6. ASSUME NEW t \in Threads, Lock(t) PROVE ControlInv'
    BY <1>6 DEF Lock
  <1>7. ASSUME NEW t \in Threads, Relock(t) PROVE ControlInv'
    BY <1>7 DEF Relock
  <1>8. ASSUME NEW t \in Threads, PushWait(t) \/ PopWait(t) PROVE ControlInv'
    BY <1>8 DEF PushWait, PopWait, Running, Sleep
  <1>9. ASSUME NEW t \in Threads, PopInvalid(t) PROVE ControlInv'
    BY <1>9 DEF PopInvalid
  <1>10. ASSUME NEW t \in Threads, Decision(t) PROVE ControlInv'
    BY <1>10, ControlDecision
  <1>11. ASSUME NEW t \in Threads, Unlock(t) PROVE ControlInv'
    BY <1>11 DEF Unlock
  <1>12. ASSUME NEW t \in Threads, Timeout(t) \/ Spurious(t) PROVE ControlInv'
    BY <1>12 DEF Timeout, Spurious
  <1>13. CASE UNCHANGED vars
    BY <1>13 DEF vars
  <1> QED
    BY <1>1, <1>2, <1>3, <1>4, <1>5, <1>6, <1>7, <1>8, <1>9, <1>10, <1>11, <1>12,
       <1>13 DEF Next, Owner, Step

LEMMA ControlInvariant == Spec => []ControlInv
  BY TypeInvariant, ControlInit, ControlStep, PTL DEF Spec

\* The mutex is held by the one thread that is between lock and unlock.
THEOREM MutexExcludes == Spec => []MutualExclusion
  <1>1. ControlInv => MutualExclusion
    BY DEF ControlInv
  <1> QED
    BY <1>1, ControlInvariant, PTL

-----------------------------------------------------------------------------
(***************************************************************************)
(* The limit does not move under a call, so a push works with the limit of *)
(* the queue, and only a limited queue makes a push sleep.                 *)
(***************************************************************************)

LimitInv ==
    LiveSizes = {} =>
      /\ maxSize \in QuietSizes \cup {0}
      /\ \A t \in Threads : /\ pc[t] \notin {"idle", "lock"} => cap[t] = maxSize
                            /\ Asleep(t) /\ op[t] = "push" => maxSize > 0

LEMMA LimitInit == Init => LimitInv
  BY DEF Init, LimitInv, Asleep

LEMMA LimitStep == TypeInv /\ ControlInv /\ LimitInv /\ [Next]_vars => LimitInv'
  <1> SUFFICES ASSUME TypeInv, ControlInv, LimitInv, [Next]_vars, LiveSizes = {}
               PROVE  LimitInv'
    BY DEF LimitInv
  <1>t. /\ pc \in [Threads -> {"idle", "lock", "loop", "wait", "timedwait", "unlock"}]
        /\ cap \in [Threads -> Int]
        /\ op \in [Threads -> Ops \cup {"none"}]
        /\ maxSize \in Int
    BY DEF TypeInv, TypeOK
  <1> USE <1>t DEF LimitInv, Asleep
  <1>1. CASE Create
    BY <1>1 DEF Create, ControlInv, Quiet, Idle
  <1>2. CASE Delete
    BY <1>2 DEF Delete
  <1>3. ASSUME NEW n \in QuietSizes \cup LiveSizes, SetMaxSize(n) PROVE LimitInv'
    BY <1>3 DEF SetMaxSize, Quiet, Idle
  <1>4. ASSUME NEW b \in BOOLEAN, SetTimeout(b) PROVE LimitInv'
    BY <1>4 DEF SetTimeout
  <1>5. ASSUME NEW t \in Threads, NEW o \in Ops, NEW v \in Items \cup {NoItem},
               Call(t, o, v)
        PROVE  LimitInv'
    BY <1>5 DEF Call, Idle
  <1>6. ASSUME NEW t \in Threads, Lock(t) PROVE LimitInv'
    BY <1>6 DEF Lock
  <1>7. ASSUME NEW t \in Threads, Relock(t) PROVE LimitInv'
    BY <1>7 DEF Relock
  <1>8. ASSUME NEW t \in Threads, PushWait(t) \/ PopWait(t) PROVE LimitInv'
    BY <1>8 DEF PushWait, PopWait, Running, Sleep, AtLimit
  <1>9. ASSUME NEW t \in Threads, PopInvalid(t) PROVE LimitInv'
    BY <1>9 DEF PopInvalid
  <1>10. ASSUME NEW t \in Threads, Decision(t) PROVE LimitInv'
    BY <1>10, DecisionStep
  <1>11. ASSUME NEW t \in Threads, Unlock(t) PROVE LimitInv'
    BY <1>11 DEF Unlock
  <1>12. ASSUME NEW t \in Threads, Timeout(t) \/ Spurious(t) PROVE LimitInv'
    BY <1>12 DEF Timeout, Spurious
  <1>13. CASE UNCHANGED vars
    BY <1>13 DEF vars
  <1> QED
    BY <1>1, <1>2, <1>3, <1>4, <1>5, <1>6, <1>7, <1>8, <1>9, <1>10, <1>11, <1>12,
       <1>13 DEF Next, Owner, Step

LEMMA LimitInvariant == Spec => []LimitInv
  BY TypeInvariant, ControlInvariant, LimitInit, LimitStep, PTL DEF Spec

\* A push never lengthens the queue past the limit that is in force.
THEOREM NeverOverfills == Spec => NeverOverfilled
  <1>1. ASSUME TypeInv, ControlInv, LimitInv, [Next]_vars
        PROVE  [(LiveSizes = {} /\ Len(queue') > Len(queue))
                   => (maxSize <= 0 \/ Len(queue') <= maxSize)]_vars
    <2> SUFFICES ASSUME Next, LiveSizes = {}, Len(queue') > Len(queue), maxSize > 0
                 PROVE  Len(queue') <= maxSize
      BY <1>1 DEF TypeInv, TypeOK
    <2>1. queue \in Seq(Items) /\ Len(queue) \in Nat
      BY <1>1, LenProperties DEF TypeInv, TypeOK
    <2>2. queue' # queue /\ queue' # << >>
      BY <2>1, EmptySeq
    <2>3. PICK t \in Threads : Decision(t)
      BY <2>2
      DEF Next, Owner, Create, Delete, SetMaxSize, SetTimeout, Call, Step, Lock,
          Relock, PushWait, PopWait, PopInvalid, Unlock, Timeout, Spurious, Sleep
    <2>4. /\ op[t] \in Pushes /\ ~AtLimit(t) /\ Enqueue(t)
          /\ pc[t] = "loop"
      <3>1. queue # << >> => queue' # Tail(queue)
        BY <1>1, <2>1, FrontStep
      <3> QED
        BY <2>2, <2>3, <3>1
        DEF Decision, Push, TryPush, PopTake, PopGiveUp, TryPop, Length, Running,
            Decide, Pushes
    <2>5. cap[t] = maxSize
      BY <1>1, <2>4 DEF LimitInv
    <2>6. Len(queue') = Len(queue) + 1
      BY <1>1, <2>4, EnqueueStep DEF Idle
    <2> QED
      BY <1>1, <2>1, <2>4, <2>5, <2>6 DEF AtLimit, TypeInv, TypeOK
  <1> QED
    BY <1>1, TypeInvariant, ControlInvariant, LimitInvariant, PTL
    DEF Spec, NeverOverfilled

-----------------------------------------------------------------------------
(***************************************************************************)
(* No lost wakeup.                                                         *)
(***************************************************************************)

\* In a well used queue a sleeping thread is the only one of its kind: there is
\* one pop that waits, and one push that waits for room.
LEMMA SleepersOfAKind ==
    ASSUME WellUsed, TypeInv, ControlInv, LimitInv,
           NEW s \in waiters, NEW t \in waiters, op[s] = op[t]
    PROVE  s = t
  <1>1. /\ s \in Threads /\ t \in Threads
        /\ op[s] \in Uses[s] /\ op[s] \in Uses[t] /\ op[s] \in {"push", "pop"}
    BY DEF TypeInv, TypeOK, ControlInv, Sleepers, Allowed, Asleep, Idle
  <1>2. CASE op[s] = "pop"
    BY <1>1, <1>2 DEF WellUsed, Alone
  <1>3. CASE op[s] = "push"
    <2>1. maxSize > 0 /\ maxSize \in QuietSizes \cup {0}
      BY <1>1, <1>3 DEF WellUsed, LimitInv, ControlInv, Sleepers
    <2>2. ~NoLimit
      BY <2>1, SizesAssumption DEF NoLimit
    <2> QED
      BY <1>1, <1>3, <2>2 DEF WellUsed, Alone
  <1> QED
    BY <1>1, <1>2, <1>3

\* What keeps each kind of sleeper asleep, and what follows for the limit.
LEMMA SleeperReason ==
    ASSUME WellUsed, TypeInv, ControlInv, LimitInv, NoLostWakeup, NEW s \in waiters
    PROVE  /\ s \in Threads
           /\ \/ op[s] = "pop" /\ queue = << >>
              \/ /\ op[s] = "push" /\ Len(queue) >= maxSize /\ maxSize > 0
                 /\ \A t \in Threads : "try_pop" \notin Uses[t]
  <1>1. s \in Threads /\ Asleep(s) /\ op[s] \in {"push", "pop"}
    BY DEF TypeInv, TypeOK, ControlInv, Sleepers
  <1>2. CASE op[s] = "pop"
    BY <1>1, <1>2 DEF NoLostWakeup
  <1>3. CASE op[s] = "push"
    <2>1. maxSize > 0 /\ maxSize \in QuietSizes \cup {0}
      BY <1>1, <1>3 DEF WellUsed, LimitInv
    <2>2. ~NoLimit
      BY <2>1, SizesAssumption DEF NoLimit
    <2> QED
      BY <1>1, <1>3, <2>1, <2>2 DEF WellUsed, NoLostWakeup
  <1> QED
    BY <1>1, <1>2, <1>3

LEMMA WakeDecision ==
    ASSUME WellUsed, TypeInv, ControlInv, LimitInv, NoLostWakeup,
           NEW t \in Threads, Decision(t)
    PROVE  NoLostWakeup'
  <1>1. /\ waiters' \subseteq waiters
        /\ UNCHANGED <<op, maxSize>>
        /\ pc[t] = "loop"
    BY DecisionStep
  <1>2. /\ queue \in Seq(Items) /\ Len(queue) \in Nat
        /\ queue = << >> <=> Len(queue) = 0
        /\ maxSize \in Int
    BY LenProperties, EmptySeq DEF TypeInv, TypeOK
  <1>s. \A s \in waiters :
          \/ op[s] = "pop" /\ Len(queue) = 0
          \/ op[s] = "push" /\ Len(queue) >= maxSize /\ maxSize > 0
    BY <1>2, SleeperReason
  <1>3. CASE UNCHANGED queue
    BY <1>1, <1>3 DEF NoLostWakeup
  <1>4. CASE Enqueue(t) /\ op[t] \in Pushes
    <2>1. Len(queue') = Len(queue) + 1
      BY <1>1, <1>4, EnqueueStep DEF Idle
    <2>2. CASE Len(queue') = 1
      <3>0. Len(queue) = 0
        BY <1>2, <2>1, <2>2
      <3>1. \A s \in waiters : op[s] = "pop"
        BY <1>2, <1>s, <3>0
      <3>2. Signal
        BY <1>4, <2>2 DEF Enqueue
      <3>3. \A r, s \in waiters : r = s
        BY <3>1, SleepersOfAKind
      <3>4. waiters' = {}
        BY <3>2, <3>3, SignalAlone
      <3> QED
        BY <3>4 DEF NoLostWakeup
    <2>3. CASE Len(queue') # 1
      <3>1. \A s \in waiters : op[s] = "push" /\ Len(queue') >= maxSize
        BY <1>2, <1>s, <2>1, <2>3
      <3> QED
        BY <1>1, <3>1 DEF NoLostWakeup
    <2> QED
      BY <2>2, <2>3
  <1>5. CASE PopTake(t)
    <2>1. queue' = Tail(queue) /\ Len(queue') = Len(queue) - 1 /\ queue # << >>
      BY <1>5, FrontStep DEF PopTake, Decide
    <2>2. \A s \in waiters : op[s] = "push" /\ Len(queue) >= maxSize
      BY <2>1, SleeperReason
    <2>3. CASE Len(queue') = maxSize - 1
      <3>1. Signal
        BY <1>5, <2>3 DEF PopTake
      <3>2. \A r, s \in waiters : r = s
        BY <2>2, SleepersOfAKind
      <3>3. waiters' = {}
        BY <3>1, <3>2, SignalAlone
      <3> QED
        BY <3>3 DEF NoLostWakeup
    <2>4. CASE Len(queue') # maxSize - 1
      <3>0. Len(queue) # maxSize /\ Len(queue') = Len(queue) - 1
        BY <1>2, <2>1, <2>4
      <3>1. \A s \in waiters : op[s] = "push" /\ Len(queue') >= maxSize
        BY <1>2, <2>2, <3>0
      <3> QED
        BY <1>1, <3>1 DEF NoLostWakeup
    <2> QED
      BY <2>3, <2>4
  <1>6. CASE TryPop(t) /\ queue # << >>
    <2>1. "try_pop" \in Uses[t]
      BY <1>1, <1>6 DEF TryPop, Running, ControlInv, Allowed, Idle
    <2>2. waiters = {}
      BY <1>6, <2>1, SleeperReason
    <2> QED
      BY <1>1, <2>2 DEF NoLostWakeup
  <1> QED
    BY <1>3, <1>4, <1>5, <1>6
    DEF Decision, Push, TryPush, PopGiveUp, TryPop, Length, Running, Decide, Pushes

LEMMA WakeInit == Init => NoLostWakeup
  BY DEF Init, NoLostWakeup

LEMMA WakeStep ==
    TypeInv /\ ControlInv /\ LimitInv /\ NoLostWakeup /\ [Next]_vars => NoLostWakeup'
  <1> SUFFICES ASSUME TypeInv, ControlInv, LimitInv, NoLostWakeup, [Next]_vars,
                      WellUsed
               PROVE  NoLostWakeup'
    BY DEF NoLostWakeup
  <1>q. Quiet => waiters = {}
    BY DEF TypeInv, TypeOK, ControlInv, Sleepers, Quiet, Idle, Asleep
  <1>t. /\ waiters \subseteq Threads
        /\ op \in [Threads -> Ops \cup {"none"}]
    BY DEF TypeInv, TypeOK
  <1>1. CASE Create \/ Delete
    BY <1>1, <1>q DEF Create, Delete, NoLostWakeup
  <1>2. ASSUME NEW n \in QuietSizes \cup LiveSizes, SetMaxSize(n)
        PROVE  NoLostWakeup'
    BY <1>2, <1>q DEF SetMaxSize, WellUsed, NoLostWakeup
  <1>3. ASSUME NEW b \in BOOLEAN, SetTimeout(b) PROVE NoLostWakeup'
    BY <1>3 DEF SetTimeout, NoLostWakeup
  <1>4. ASSUME NEW t \in Threads, NEW o \in Ops, NEW v \in Items \cup {NoItem},
               Call(t, o, v)
        PROVE  NoLostWakeup'
    <2>1. t \notin waiters
      BY <1>4 DEF Call, ControlInv, Sleepers, Asleep, Idle
    <2> QED
      BY <1>4, <1>t, <2>1 DEF Call, NoLostWakeup
  <1>5. ASSUME NEW t \in Threads, Lock(t) \/ Relock(t) \/ PopInvalid(t) \/ Unlock(t)
        PROVE  NoLostWakeup'
    BY <1>5 DEF Lock, Relock, PopInvalid, Unlock, NoLostWakeup
  <1>6. ASSUME NEW t \in Threads, PushWait(t) PROVE NoLostWakeup'
    <2>1. Len(queue) >= maxSize
      BY <1>6 DEF PushWait, Running, AtLimit, LimitInv, WellUsed
    <2> QED
      BY <1>6, <2>1 DEF PushWait, Running, Sleep, NoLostWakeup
  <1>7. ASSUME NEW t \in Threads, PopWait(t) PROVE NoLostWakeup'
    BY <1>7 DEF PopWait, Running, Sleep, NoLostWakeup
  <1>8. ASSUME NEW t \in Threads, Decision(t) PROVE NoLostWakeup'
    BY <1>8, WakeDecision
  <1>9. ASSUME NEW t \in Threads, Timeout(t) \/ Spurious(t) PROVE NoLostWakeup'
    BY <1>9 DEF Timeout, Spurious, NoLostWakeup
  <1>10. CASE UNCHANGED vars
    BY <1>10 DEF vars, NoLostWakeup
  <1> QED
    BY <1>1, <1>2, <1>3, <1>4, <1>5, <1>6, <1>7, <1>8, <1>9, <1>10
    DEF Next, Owner, Step

\* A thread that nobody has woken has a reason to sleep, for any number of
\* threads, as long as the queue is well used.
THEOREM WakesEveryone == Spec => []NoLostWakeup
  BY TypeInvariant, ControlInvariant, LimitInvariant, WakeInit, WakeStep, PTL
  DEF Spec

-----------------------------------------------------------------------------
(***************************************************************************)
(* A call is undecided from the moment it is made to its last pass under   *)
(* the mutex.  A pop has a reason to give up only in a queue that has had  *)
(* a timeout since the pop began, if the timeout is not moved under it.    *)
(***************************************************************************)

OutcomeInv ==
    \A t \in Threads :
        /\ pc[t] \in {"idle", "unlock"} <=> result[t] # Pending
        /\ pc[t] \in {"idle", "lock"} => ret[t] = "ok"
        /\ LiveTimeouts = {} /\ (pc[t] = "timedwait" \/ ret[t] # "ok") => timed

LEMMA OutcomeInit == Init => OutcomeInv
  BY OutcomesAssumption DEF Init, OutcomeInv

\* What a decision answers is never Pending.
LEMMA DecisionAnswers ==
    ASSUME TypeInv, NEW t \in Threads, Decision(t)
    PROVE  \E r \in Outcomes \ {Pending} : result' = [result EXCEPT ![t] = r]
  <1>1. Len(queue) \in Nat /\ (queue # << >> => Head(queue) \in Items)
    BY FrontStep, LenProperties DEF TypeInv, TypeOK
  <1> QED
    BY <1>1, OutcomesAssumption
    DEF Decision, Push, TryPush, PopTake, PopGiveUp, TryPop, Length, Enqueue, Decide,
        Outcomes

LEMMA OutcomeStep == TypeInv /\ ControlInv /\ OutcomeInv /\ [Next]_vars => OutcomeInv'
  <1> SUFFICES ASSUME TypeInv, ControlInv, OutcomeInv, [Next]_vars PROVE OutcomeInv'
    OBVIOUS
  <1>t. /\ pc \in [Threads -> {"idle", "lock", "loop", "wait", "timedwait", "unlock"}]
        /\ ret \in [Threads -> Returns]
        /\ result \in [Threads -> Outcomes]
    BY DEF TypeInv, TypeOK
  <1> USE <1>t DEF OutcomeInv
  <1>1. CASE Create
    BY <1>1 DEF Create, ControlInv, Quiet, Idle
  <1>2. CASE Delete
    BY <1>2 DEF Delete
  <1>3. ASSUME NEW n \in QuietSizes \cup LiveSizes, SetMaxSize(n) PROVE OutcomeInv'
    BY <1>3 DEF SetMaxSize
  <1>4. ASSUME NEW b \in BOOLEAN, SetTimeout(b) PROVE OutcomeInv'
    BY <1>4 DEF SetTimeout, Quiet, Idle
  <1>5. ASSUME NEW t \in Threads, NEW o \in Ops, NEW v \in Items \cup {NoItem},
               Call(t, o, v)
        PROVE  OutcomeInv'
    BY <1>5 DEF Call, Idle
  <1>6. ASSUME NEW t \in Threads, Lock(t) PROVE OutcomeInv'
    BY <1>6 DEF Lock
  <1>7. ASSUME NEW t \in Threads, Relock(t) PROVE OutcomeInv'
    BY <1>7 DEF Relock, Asleep
  <1>8. ASSUME NEW t \in Threads, PushWait(t) \/ PopWait(t) PROVE OutcomeInv'
    BY <1>8 DEF PushWait, PopWait, Running, Sleep
  <1>9. ASSUME NEW t \in Threads, PopInvalid(t) PROVE OutcomeInv'
    BY <1>9 DEF PopInvalid, Running
  <1>10. ASSUME NEW t \in Threads, Decision(t) PROVE OutcomeInv'
    BY <1>10, DecisionStep, DecisionAnswers
  <1>11. ASSUME NEW t \in Threads, Unlock(t) PROVE OutcomeInv'
    BY <1>11 DEF Unlock
  <1>12. ASSUME NEW t \in Threads, Timeout(t) \/ Spurious(t) PROVE OutcomeInv'
    BY <1>12 DEF Timeout, Spurious
  <1>13. CASE UNCHANGED vars
    BY <1>13 DEF vars
  <1> QED
    BY <1>1, <1>2, <1>3, <1>4, <1>5, <1>6, <1>7, <1>8, <1>9, <1>10, <1>11, <1>12,
       <1>13 DEF Next, Owner, Step

LEMMA OutcomeInvariant == Spec => []OutcomeInv
  BY TypeInvariant, ControlInvariant, OutcomeInit, OutcomeStep, PTL DEF Spec

-----------------------------------------------------------------------------
(***************************************************************************)
(* The refinement.                                                         *)
(***************************************************************************)

\* What a decision does to the fields a caller can see.
LEMMA DecisionCases ==
    ASSUME TypeInv, ControlInv, OutcomeInv, NEW t \in Threads, Decision(t)
    PROVE  /\ result[t] = Pending
           /\ op[t] \in Uses[t]
           /\ UNCHANGED <<alive, maxSize, timed, op, arg>>
           /\ \/ /\ op[t] \in Pushes /\ ~AtLimit(t)
                 /\ queue' = Append(queue, arg[t])
                 /\ result' = [result EXCEPT ![t] = Done]
              \/ /\ op[t] = "try_push" /\ AtLimit(t)
                 /\ queue' = queue
                 /\ result' = [result EXCEPT ![t] = Full]
              \/ /\ op[t] \in {"pop", "try_pop"} /\ queue # << >>
                 /\ queue' = Tail(queue)
                 /\ result' = [result EXCEPT ![t] = Head(queue)]
              \/ /\ \/ op[t] = "try_pop" /\ queue = << >>
                    \/ op[t] = "pop" /\ ret[t] # "ok"
                 /\ queue' = queue
                 /\ result' = [result EXCEPT ![t] = NoItem]
              \/ /\ op[t] = "length"
                 /\ queue' = queue
                 /\ result' = [result EXCEPT ![t] = Len(queue)]
  <1>1. pc[t] = "loop" /\ UNCHANGED <<alive, maxSize, timed, op, arg>>
    BY DecisionStep
  <1>2. result[t] = Pending /\ op[t] \in Uses[t]
    BY <1>1 DEF OutcomeInv, ControlInv, Allowed, Idle
  <1> QED
    BY <1>1, <1>2
    DEF Decision, Push, TryPush, PopTake, PopGiveUp, TryPop, Length, Running, Enqueue,
        Decide, Pushes

\* What every step shows to the callers: a step of the owner, a call, a decision,
\* or nothing.
LEMMA VisibleStep ==
    ASSUME TypeInv, ControlInv, OutcomeInv, [Next]_vars
    PROVE  \/ Create
           \/ Delete /\ \A t \in Threads : result[t] # Pending
           \/ \E n \in QuietSizes \cup LiveSizes : SetMaxSize(n)
           \/ \E b \in BOOLEAN : SetTimeout(b)
           \/ \E t \in Threads, o \in Ops, v \in Items \cup {NoItem} :
                 Call(t, o, v) /\ result[t] # Pending
           \/ \E t \in Threads : Decision(t)
           \/ UNCHANGED <<alive, maxSize, timed, queue, op, arg, result>>
  <1>1. CASE UNCHANGED vars
    BY <1>1 DEF vars
  <1>2. CASE Owner
    BY <1>2 DEF Owner, Delete, Quiet, Idle, OutcomeInv
  <1>3. ASSUME NEW t \in Threads, NEW o \in Ops, NEW v \in Items \cup {NoItem},
               Call(t, o, v)
        PROVE  result[t] # Pending
    BY <1>3 DEF Call, Idle, OutcomeInv
  <1>4. ASSUME NEW t \in Threads,
               \/ Lock(t) \/ Relock(t) \/ PushWait(t) \/ PopWait(t) \/ PopInvalid(t)
               \/ Unlock(t) \/ Timeout(t) \/ Spurious(t)
        PROVE  UNCHANGED <<alive, maxSize, timed, queue, op, arg, result>>
    BY <1>4
    DEF Lock, Relock, PushWait, PopWait, PopInvalid, Unlock, Timeout, Spurious, Sleep
  <1> QED
    BY <1>1, <1>2, <1>3, <1>4 DEF Next, Step

\* A queue that is configured while no call is in progress is a FIFO queue: every
\* call takes effect at once at some moment between its start and its return, a
\* push only when there is room, a pop with the oldest item, and a pop gives up
\* only when the queue has a timeout (cf_async_queue_push to _length).
THEOREM QueueIsFifo ==
    ASSUME LiveSizes = {}, LiveTimeouts = {} PROVE Spec => ImplementsFifo
  <1>1. Init => Fifo!Init
    <2>1. Init => maxSize \in Int /\ timed \in BOOLEAN
      BY TypeInit DEF TypeInv, TypeOK
    <2> QED
      BY <2>1 DEF Init, Fifo!Init
  <1>2. TypeInv /\ ControlInv /\ LimitInv /\ OutcomeInv /\ [Next]_vars
          => [Fifo!Next]_(Fifo!fifoVars)
    <2> SUFFICES ASSUME TypeInv, ControlInv, LimitInv, OutcomeInv, [Next]_vars
                 PROVE  [Fifo!Next]_(Fifo!fifoVars)
      OBVIOUS
    <2> USE DEF Fifo!Next, Fifo!fifoVars
    <2>1. CASE Create
      <3>1. maxSize' \in Int /\ timed' \in BOOLEAN
        BY TypeStep DEF TypeInv, TypeOK
      <3> QED
        BY <2>1, <3>1 DEF Create, Fifo!Create
    <2>2. CASE Delete /\ \A t \in Threads : result[t] # Pending
      BY <2>2 DEF Delete, Fifo!Delete, Fifo!Quiet
    <2>3. ASSUME NEW n \in QuietSizes \cup LiveSizes, SetMaxSize(n) PROVE Fifo!Configure
      BY <2>3, SizesAssumption
      DEF SetMaxSize, Fifo!Configure, Fifo!Quiet, TypeInv, TypeOK, OutcomeInv, Quiet, Idle
    <2>4. ASSUME NEW b \in BOOLEAN, SetTimeout(b) PROVE Fifo!Configure
      BY <2>4
      DEF SetTimeout, Fifo!Configure, Fifo!Quiet, TypeInv, TypeOK, OutcomeInv, Quiet, Idle
    <2>5. ASSUME NEW t \in Threads, NEW o \in Ops, NEW v \in Items \cup {NoItem},
                 Call(t, o, v), result[t] # Pending
          PROVE  Fifo!Next
      BY <2>5 DEF Call, Fifo!Call, Ops, Fifo!Ops
    <2>6. ASSUME NEW t \in Threads, Decision(t)
          PROVE  Fifo!Put(t) \/ Fifo!Refuse(t) \/ Fifo!Take(t) \/ Fifo!TakeNothing(t)
                   \/ Fifo!Measure(t)
      <3>1. cap[t] = maxSize /\ maxSize \in Int /\ Len(queue) \in Nat
        BY <2>6, DecisionStep, LenProperties DEF LimitInv, TypeInv, TypeOK
      <3>2. AtLimit(t) <=> ~Fifo!HasRoom
        BY <3>1 DEF AtLimit, Fifo!HasRoom
      <3>3. ret[t] # "ok" => timed
        BY DEF OutcomeInv
      <3> QED
        BY <2>6, <3>2, <3>3, DecisionCases
        DEF Fifo!Put, Fifo!Refuse, Fifo!Take, Fifo!TakeNothing, Fifo!Measure,
            Fifo!Effect, Fifo!Pushes, Pushes
    <2> QED
      BY <2>1, <2>2, <2>3, <2>4, <2>5, <2>6, VisibleStep
  <1> QED
    BY <1>1, <1>2, TypeInvariant, ControlInvariant, LimitInvariant, OutcomeInvariant, PTL
    DEF Spec, ImplementsFifo, Fifo!Spec

\* Whatever the two setters, which do not take the mutex, change under the calls,
\* no item is lost, duplicated or overtaken, as long as nobody calls try_push,
\* which alone reports that the queue is full (cf_async_queue_set_maxsize and
\* _set_timeout against the calls in progress).
THEOREM KeepsItemsInOrder ==
    ASSUME \A t \in Threads : "try_push" \notin Uses[t] PROVE Spec => ItemsInOrder
  <1>1. Init => Unlimited!Init
    BY DEF Init, Unlimited!Init
  <1>2. TypeInv /\ ControlInv /\ OutcomeInv /\ [Next]_vars
          => [Unlimited!Next]_(Unlimited!fifoVars)
    <2> SUFFICES ASSUME TypeInv, ControlInv, OutcomeInv, [Next]_vars
                 PROVE  [Unlimited!Next]_(Unlimited!fifoVars)
      OBVIOUS
    <2> USE DEF Unlimited!Next, Unlimited!fifoVars
    <2>1. CASE Create
      <3>1. 0 \in Int /\ TRUE \in BOOLEAN
        OBVIOUS
      <3> QED
        BY <2>1, <3>1 DEF Create, Unlimited!Create
    <2>2. CASE Delete /\ \A t \in Threads : result[t] # Pending
      BY <2>2 DEF Delete, Unlimited!Delete, Unlimited!Quiet
    <2>3. ASSUME NEW n \in QuietSizes \cup LiveSizes, SetMaxSize(n)
          PROVE  UNCHANGED Unlimited!fifoVars
      BY <2>3 DEF SetMaxSize
    <2>4. ASSUME NEW b \in BOOLEAN, SetTimeout(b) PROVE UNCHANGED Unlimited!fifoVars
      BY <2>4 DEF SetTimeout
    <2>5. ASSUME NEW t \in Threads, NEW o \in Ops, NEW v \in Items \cup {NoItem},
                 Call(t, o, v), result[t] # Pending
          PROVE  Unlimited!Next
      BY <2>5 DEF Call, Unlimited!Call, Ops, Unlimited!Ops
    <2>6. ASSUME NEW t \in Threads, Decision(t)
          PROVE  \/ Unlimited!Put(t) \/ Unlimited!Take(t) \/ Unlimited!TakeNothing(t)
                 \/ Unlimited!Measure(t)
      BY <2>6, DecisionCases
      DEF Unlimited!Put, Unlimited!Take, Unlimited!TakeNothing, Unlimited!Measure,
          Unlimited!Effect, Unlimited!Pushes, Unlimited!HasRoom, Pushes
    <2> QED
      BY <2>1, <2>2, <2>3, <2>4, <2>5, <2>6, VisibleStep
  <1> QED
    BY <1>1, <1>2, TypeInvariant, ControlInvariant, OutcomeInvariant, PTL
    DEF Spec, ItemsInOrder, Unlimited!Spec
=============================================================================
