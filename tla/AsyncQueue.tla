----------------------------- MODULE AsyncQueue -----------------------------
(***************************************************************************)
(* src/cf_async_queue/cf_async_queue.c: a FIFO queue of pointers shared by *)
(* threads, with an optional limit on its length and an optional timeout   *)
(* of its pops.  One mutex protects it, and ONE condition variable serves  *)
(* both the pops that wait for an item and the pushes that wait for room;  *)
(* it is signalled, never broadcast, and only when the length becomes 1 by *)
(* a push or m_max_size - 1 by a pop.                                      *)
(*                                                                         *)
(* A call runs in the steps between which another thread can interfere:    *)
(* the call itself, taking the mutex, each pass of its waiting loop, the   *)
(* sleep, taking the mutex again, and the unlock it returns from.  What a  *)
(* call does between two of these it does alone, because it holds the      *)
(* mutex; only the two setters write a field without it.                   *)
(***************************************************************************)
EXTENDS Integers, Sequences, FiniteSets

CONSTANTS
    Threads,        \* the threads that share the queue
    Items,          \* the pointers they exchange
    Uses,           \* Uses[t]: the operations thread t calls
    QuietSizes,     \* the limits set while no call is in progress
    LiveSizes,      \* the limits set while calls are in progress
    QuietTimeouts,  \* whether the timeouts set while no call is in progress
                    \* are positive
    LiveTimeouts,   \* the same, while calls are in progress
    MaxLoad,        \* bound of the model: items queued or being pushed
    None,           \* no thread holds the mutex
    NoItem, Pending, Done, Full     \* outcomes, as in FifoQueue

Ops == {"push", "try_push", "pop", "try_pop", "length"}
Pushes == {"push", "try_push"}
Returns == {"ok", "ETIMEDOUT", "EINVAL"}
Outcomes == Items \cup Nat \cup {NoItem, Pending, Done, Full}

ASSUME UsesAssumption == Uses \in [Threads -> SUBSET Ops]
ASSUME SizesAssumption == QuietSizes \subseteq Int /\ LiveSizes \subseteq Int
ASSUME TimeoutsAssumption ==
    QuietTimeouts \subseteq BOOLEAN /\ LiveTimeouts \subseteq BOOLEAN
ASSUME MaxLoadAssumption == MaxLoad \in Nat
ASSUME NoneAssumption == None \notin Threads
ASSUME OutcomesAssumption ==
    /\ {NoItem, Done, Full} \cap {Pending} = {}
    /\ Pending \notin Items \cup Nat
    /\ NoItem \notin Items

VARIABLES
    alive,          \* the queue has been created and not deleted
    maxSize,        \* m_max_size
    timed,          \* m_timeout > 0
    queue,          \* m_queue
    mutex,          \* the holder of m_mutex, or None
    waiters,        \* the threads asleep on m_condition
    pc,             \* where each thread is in its call
    op, arg,        \* the call it makes or made last, and its item
    cap,            \* max_size, the local copy of the limit a push works with
    late,           \* the deadline computed by a pop is not a valid timespec
    ret,            \* ret, what the last wait of a pop returned
    result          \* the outcome of the call, Pending until it is decided

vars == <<alive, maxSize, timed, queue, mutex, waiters, pc, op, arg, cap, late,
          ret, result>>

Idle(t) == pc[t] = "idle"
Quiet == \A t \in Threads : Idle(t)
\* The items that are in the queue or that a push in progress may still add.
Load == Len(queue)
          + Cardinality({t \in Threads : ~Idle(t) /\ op[t] \in Pushes
                                                  /\ result[t] = Pending})

\* pthread_cond_signal wakes any one of the sleeping threads, if there is one.
Signal == IF waiters = {} THEN waiters' = {}
                          ELSE \E w \in waiters : waiters' = waiters \ {w}
NoSignal == waiters' = waiters

Init ==
    /\ alive = FALSE
    /\ maxSize = 0
    /\ timed = FALSE
    /\ queue = << >>
    /\ mutex = None
    /\ waiters = {}
    /\ pc = [t \in Threads |-> "idle"]
    /\ op = [t \in Threads |-> "none"]
    /\ arg = [t \in Threads |-> NoItem]
    /\ cap = [t \in Threads |-> 0]
    /\ late = [t \in Threads |-> FALSE]
    /\ ret = [t \in Threads |-> "ok"]
    /\ result = [t \in Threads |-> NoItem]

(***************************************************************************)
(* The owner of the queue.                                                 *)
(***************************************************************************)
\* The allocator zeroes the structure, so m_max_size starts at 0.
Create ==
    /\ ~alive
    /\ alive' = TRUE
    /\ maxSize' = 0
    /\ timed' = FALSE
    /\ queue' = << >>
    /\ mutex' = None
    /\ waiters' = {}
    /\ UNCHANGED <<pc, op, arg, cap, late, ret, result>>

\* Deleting a queue that a thread is using is undefined: the comment over push
\* says it is not handled.  The list is destroyed with the items still in it.
Delete ==
    /\ alive /\ Quiet
    /\ alive' = FALSE
    /\ queue' = << >>
    /\ UNCHANGED <<maxSize, timed, mutex, waiters, pc, op, arg, cap, late, ret,
                   result>>

\* Neither setter takes the mutex.
SetMaxSize(n) ==
    /\ alive
    /\ n \in LiveSizes \/ (n \in QuietSizes /\ Quiet)
    /\ maxSize' = n
    /\ UNCHANGED <<alive, timed, queue, mutex, waiters, pc, op, arg, cap, late,
                   ret, result>>

SetTimeout(b) ==
    /\ alive
    /\ b \in LiveTimeouts \/ (b \in QuietTimeouts /\ Quiet)
    /\ timed' = b
    /\ UNCHANGED <<alive, maxSize, queue, mutex, waiters, pc, op, arg, cap, late,
                   ret, result>>

(***************************************************************************)
(* Entering and leaving a call.                                            *)
(***************************************************************************)
\* Mutant: the item does not reach the call.
CallWithoutItem(t, o, v) ==
    /\ alive /\ Idle(t) /\ o \in Uses[t]
    /\ IF o \in Pushes THEN v \in Items /\ Load < MaxLoad ELSE v = NoItem
    /\ pc' = [pc EXCEPT ![t] = "lock"]
    /\ op' = [op EXCEPT ![t] = o]
    /\ result' = [result EXCEPT ![t] = Pending]
    /\ UNCHANGED <<alive, maxSize, timed, queue, mutex, waiters, arg, cap, late,
                   ret>>

Call(t, o, v) ==
    /\ alive
    /\ Idle(t)
    /\ o \in Uses[t]
    /\ IF o \in Pushes THEN v \in Items /\ Load < MaxLoad ELSE v = NoItem
    /\ pc' = [pc EXCEPT ![t] = "lock"]
    /\ op' = [op EXCEPT ![t] = o]
    /\ arg' = [arg EXCEPT ![t] = v]
    /\ result' = [result EXCEPT ![t] = Pending]
    /\ UNCHANGED <<alive, maxSize, timed, queue, mutex, waiters, cap, late, ret>>

\* The pushes copy the limit here, and a pop computes its deadline.  The sum of
\* a positive timeout may come out with tv_nsec = 1000000000, see PopDeadline.
Lock(t) ==
    /\ pc[t] = "lock"
    /\ mutex = None
    /\ mutex' = t
    /\ pc' = [pc EXCEPT ![t] = "loop"]
    /\ cap' = [cap EXCEPT ![t] = maxSize]
    /\ \E b \in BOOLEAN : /\ b => op[t] = "pop" /\ timed
                          /\ late' = [late EXCEPT ![t] = b]
    /\ ret' = [ret EXCEPT ![t] = "ok"]
    /\ UNCHANGED <<alive, maxSize, timed, queue, waiters, op, arg, result>>

\* The locals of the call go out of scope.
Unlock(t) ==
    /\ pc[t] = "unlock"
    /\ mutex' = None
    /\ pc' = [pc EXCEPT ![t] = "idle"]
    /\ cap' = [cap EXCEPT ![t] = 0]
    /\ late' = [late EXCEPT ![t] = FALSE]
    /\ ret' = [ret EXCEPT ![t] = "ok"]
    /\ UNCHANGED <<alive, maxSize, timed, queue, waiters, op, arg, result>>

(***************************************************************************)
(* The steps under the mutex.                                              *)
(***************************************************************************)
Running(t, o) == pc[t] = "loop" /\ op[t] = o

\* Thread t's call is decided: the outcome is r and the queue becomes q.
Decide(t, r, q) ==
    /\ result' = [result EXCEPT ![t] = r]
    /\ queue' = q
    /\ pc' = [pc EXCEPT ![t] = "unlock"]
    /\ UNCHANGED <<alive, maxSize, timed, mutex, op, arg, cap, late, ret>>

\* pthread_cond_wait or pthread_cond_timedwait: sleep and release the mutex.
Sleep(t, how) ==
    /\ mutex' = None
    /\ waiters' = waiters \cup {t}
    /\ pc' = [pc EXCEPT ![t] = how]
    /\ UNCHANGED <<alive, maxSize, timed, queue, op, arg, cap, late, ret, result>>

\* Mutants: the length is tested before the push; the item goes to the front.
EnqueueTestedBefore(t) ==
    /\ Decide(t, Done, Append(queue, arg[t]))
    /\ IF Len(queue) = 1 THEN Signal ELSE NoSignal
EnqueueInFront(t) ==
    /\ Decide(t, Done, << arg[t] >> \o queue)
    /\ IF Len(queue') = 1 THEN Signal ELSE NoSignal

\* Both pushes append and wake one sleeping thread if the length is now 1.
Enqueue(t) ==
    /\ Decide(t, Done, Append(queue, arg[t]))
    /\ IF Len(queue') = 1 THEN Signal ELSE NoSignal

\* Mutant: > for >=.
BeyondLimit(t) == cap[t] > 0 /\ Len(queue) > cap[t]

AtLimit(t) == cap[t] > 0 /\ Len(queue) >= cap[t]

PushWait(t) == Running(t, "push") /\ AtLimit(t) /\ Sleep(t, "wait")

Push(t) == Running(t, "push") /\ ~AtLimit(t) /\ Enqueue(t)

TryPush(t) ==
    /\ Running(t, "try_push")
    /\ \/ AtLimit(t) /\ Decide(t, Full, queue) /\ NoSignal
       \/ ~AtLimit(t) /\ Enqueue(t)

\* Mutant: the timeout is ignored.
PopWaitUntimed(t) ==
    /\ Running(t, "pop") /\ queue = << >> /\ ret[t] = "ok"
    /\ Sleep(t, "wait")

\* The kind of wait follows m_timeout as it is now.
PopWait(t) ==
    /\ Running(t, "pop") /\ queue = << >> /\ ret[t] = "ok"
    /\ \/ ~timed /\ Sleep(t, "wait")
       \/ timed /\ ~late[t] /\ Sleep(t, "timedwait")

\* pthread_cond_timedwait refuses the timespec without releasing the mutex.
PopInvalid(t) ==
    /\ Running(t, "pop") /\ queue = << >> /\ ret[t] = "ok"
    /\ timed /\ late[t]
    /\ ret' = [ret EXCEPT ![t] = "EINVAL"]
    /\ UNCHANGED <<alive, maxSize, timed, queue, mutex, waiters, pc, op, arg, cap,
                   late, result>>

\* Mutant: the length is compared with the limit itself.
PopTakeAtLimit(t) ==
    /\ Running(t, "pop") /\ queue # << >> /\ ret[t] = "ok"
    /\ Decide(t, Head(queue), Tail(queue))
    /\ IF Len(queue') = maxSize THEN Signal ELSE NoSignal

PopTake(t) ==
    /\ Running(t, "pop") /\ queue # << >> /\ ret[t] = "ok"
    /\ Decide(t, Head(queue), Tail(queue))
    /\ IF Len(queue') = maxSize - 1 THEN Signal ELSE NoSignal

\* After a timeout or an error the queue is not looked at again.
PopGiveUp(t) ==
    /\ Running(t, "pop") /\ ret[t] # "ok"
    /\ Decide(t, NoItem, queue)
    /\ NoSignal

\* Mutant: the front is read and not taken.
TryPopLeaves(t) ==
    /\ Running(t, "try_pop")
    /\ \/ queue # << >> /\ Decide(t, Head(queue), queue)
       \/ queue = << >> /\ Decide(t, NoItem, queue)
    /\ NoSignal

\* Takes an item without waking a push that waits for room.
TryPop(t) ==
    /\ Running(t, "try_pop")
    /\ \/ queue # << >> /\ Decide(t, Head(queue), Tail(queue))
       \/ queue = << >> /\ Decide(t, NoItem, queue)
    /\ NoSignal

Length(t) ==
    /\ Running(t, "length")
    /\ Decide(t, Len(queue), queue)
    /\ NoSignal

(***************************************************************************)
(* The condition variable.                                                 *)
(***************************************************************************)
Asleep(t) == pc[t] \in {"wait", "timedwait"}

\* A thread that was woken, by a signal or not, holds the mutex again before
\* the wait returns.
Relock(t) ==
    /\ Asleep(t) /\ t \notin waiters
    /\ mutex = None
    /\ mutex' = t
    /\ pc' = [pc EXCEPT ![t] = "loop"]
    /\ UNCHANGED <<alive, maxSize, timed, queue, waiters, op, arg, cap, late, ret,
                   result>>

\* POSIX allows a wait to return without a signal.
Spurious(t) ==
    /\ t \in waiters
    /\ waiters' = waiters \ {t}
    /\ UNCHANGED <<alive, maxSize, timed, queue, mutex, pc, op, arg, cap, late, ret,
                   result>>

Timeout(t) ==
    /\ pc[t] = "timedwait" /\ t \in waiters
    /\ waiters' = waiters \ {t}
    /\ ret' = [ret EXCEPT ![t] = "ETIMEDOUT"]
    /\ UNCHANGED <<alive, maxSize, timed, queue, mutex, pc, op, arg, cap, late,
                   result>>

(***************************************************************************)
(* The specification.                                                      *)
(***************************************************************************)
Owner ==
    \/ Create \/ Delete
    \/ \E n \in QuietSizes \cup LiveSizes : SetMaxSize(n)
    \/ \E b \in BOOLEAN : SetTimeout(b)

Decision(t) ==
    \/ Push(t) \/ TryPush(t) \/ PopTake(t) \/ PopGiveUp(t) \/ TryPop(t)
    \/ Length(t)

Step(t) ==
    \/ Lock(t) \/ Relock(t) \/ PushWait(t) \/ PopWait(t) \/ PopInvalid(t)
    \/ Decision(t) \/ Unlock(t) \/ Timeout(t)

Next ==
    \/ Owner
    \/ \E t \in Threads :
          \/ \E o \in Ops, v \in Items \cup {NoItem} : Call(t, o, v)
          \/ Step(t)
          \/ Spurious(t)

Spec == Init /\ [][Next]_vars

(***************************************************************************)
(* The scheduler runs every thread that can run, and a mutex that is free  *)
(* again and again is eventually taken by each thread that wants it.  The  *)
(* deadline of a pop is absolute and computed once, so that its timed      *)
(* waits time out in the end, however often they are cut short before.     *)
(* Nobody is obliged to call, except the threads of Loopers, which pop     *)
(* again as soon as a pop returns, as the consumer loop of                 *)
(* src/cf_test/test_async_queue.c does.  No wait is sure to be cut short   *)
(* without a signal.                                                       *)
(***************************************************************************)
Fairness(Loopers) ==
    /\ \A t \in Threads : /\ WF_vars(Step(t))
                          /\ SF_vars(Lock(t)) /\ SF_vars(Relock(t))
                          /\ SF_vars(Timeout(t))
    /\ \A t \in Loopers : WF_vars(Call(t, "pop", NoItem))

(***************************************************************************)
(* Properties.                                                             *)
(***************************************************************************)
\* Every field and local keeps the values its declaration gives it.
TypeOK ==
    /\ alive \in BOOLEAN
    /\ maxSize \in Int
    /\ timed \in BOOLEAN
    /\ queue \in Seq(Items)
    /\ mutex \in Threads \cup {None}
    /\ waiters \subseteq Threads
    /\ pc \in [Threads -> {"idle", "lock", "loop", "wait", "timedwait", "unlock"}]
    /\ op \in [Threads -> Ops \cup {"none"}]
    /\ arg \in [Threads -> Items \cup {NoItem}]
    /\ cap \in [Threads -> Int]
    /\ late \in [Threads -> BOOLEAN]
    /\ ret \in [Threads -> Returns]
    /\ result \in [Threads -> Outcomes]

\* How the queue has to be used for its signals to be enough: a single thread
\* pops and waits, the limit is not moved under a call, and, when there is a
\* limit, a single thread pushes and waits and nobody uses try_pop.
Alone(o) == \A s, t \in Threads : o \in Uses[s] /\ o \in Uses[t] => s = t
NoLimit == \A n \in QuietSizes : n <= 0
WellUsed ==
    /\ LiveSizes = {}
    /\ Alone("pop")
    /\ NoLimit \/ (Alone("push") /\ \A t \in Threads : "try_pop" \notin Uses[t])

\* No lost wakeup: in a well used queue a thread that nobody has woken has a
\* reason to sleep.  A pop sleeps only on an empty queue and a push only on a
\* full one, although pushes and pops share the condition variable, signal it
\* only when the length passes 1 or the limit, and wake any one thread.
NoLostWakeup ==
    WellUsed => \A t \in waiters : /\ op[t] = "pop" => queue = << >>
                                   /\ op[t] = "push" => Len(queue) >= maxSize

\* A push never lengthens the queue past the limit, whatever woke it and
\* whoever else pushed meanwhile, unless the limit was moved under the push,
\* which works with the copy it took.
NeverOverfilled ==
    [][(LiveSizes = {} /\ Len(queue') > Len(queue))
          => (maxSize <= 0 \/ Len(queue') <= maxSize)]_vars

\* The mutex excludes: a thread is between lock and unlock exactly when the mutex
\* is held by it, so that no two threads are.
MutualExclusion ==
    \A t \in Threads : pc[t] \in {"loop", "unlock"} <=> mutex = t

Fifo == INSTANCE FifoQueue

\* Seen from its callers the queue is the FIFO queue of FifoQueue.tla, for any
\* number of producers and consumers, as long as it is configured while no call
\* is in progress.
ImplementsFifo == Fifo!Spec

Unlimited == INSTANCE FifoQueue WITH maxSize <- 0, timed <- TRUE

\* Even when the limit and the timeout change under the calls, which the setters
\* do without the mutex, no item is lost, duplicated or overtaken: what remains
\* is a FIFO queue without a limit whose pops may give up.
ItemsInOrder == Unlimited!Spec

\* Every push that starts waiting for room eventually returns.
EveryPushReturns ==
    \A t \in Threads : (~Idle(t) /\ op[t] = "push") ~> Idle(t)

\* Items do not stay in the queue for ever: whatever its length, it changes.
Served == \A k \in 1 .. MaxLoad : Len(queue) = k ~> Len(queue) # k

\* A pop of a queue with a timeout returns, however often it is woken for an
\* item that somebody else takes first, and although its deadline may be refused.
TimedPopReturns ==
    \A t \in Threads : (timed /\ ~Idle(t) /\ op[t] = "pop") ~> Idle(t)

\* cf_async_queue.h, line 12: a push is blocked when the length has reached the
\* limit.  So a push does not stay asleep for ever while there is room.
BlockedOnlyWhenFull ==
    \A t \in Threads :
        (t \in waiters /\ op[t] = "push" /\ Len(queue) < maxSize)
            ~> (t \notin waiters \/ Len(queue) >= maxSize)
=============================================================================
