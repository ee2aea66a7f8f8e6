----------------------------- MODULE FifoQueue -----------------------------
(***************************************************************************)
(* What a cf_async_queue promises to the threads that share it, with no    *)
(* mutex, no condition variable and no sleeping thread: every call takes   *)
(* effect in one indivisible step between its invocation and its return.   *)
(*                                                                         *)
(*  - a push appends its item at a moment when the queue has room;         *)
(*  - a pop takes the oldest item, and answers NULL only when the queue    *)
(*    has a timeout;                                                       *)
(*  - try_push and try_pop never wait: they fail exactly when the queue is *)
(*    full or empty;                                                       *)
(*  - the limit and the timeout change only when no call is in progress.   *)
(*                                                                         *)
(* AsyncQueue.tla is the code; it is shown to implement this module.       *)
(***************************************************************************)
EXTENDS Integers, Sequences

CONSTANTS
    Threads,        \* the threads that share the queue
    Items,          \* the pointers they exchange
    NoItem,         \* NULL
    Pending,        \* the outcome of a call that has not taken effect yet
    Done,           \* push returned, or try_push returned true
    Full            \* try_push returned false

Ops == {"push", "try_push", "pop", "try_pop", "length"}
Pushes == {"push", "try_push"}

VARIABLES
    alive,          \* the queue has been created and not deleted
    maxSize,        \* the limit; no limit when it is not positive
    timed,          \* whether a pop may give up
    queue,          \* the items, oldest first
    op,             \* op[t]: the call thread t makes or made last
    arg,            \* arg[t]: the item it pushes
    result          \* result[t]: its outcome, Pending until it takes effect

fifoVars == <<alive, maxSize, timed, queue, op, arg, result>>

Quiet == \A t \in Threads : result[t] # Pending
HasRoom == maxSize <= 0 \/ Len(queue) < maxSize

Init ==
    /\ alive = FALSE
    /\ maxSize \in Int
    /\ timed \in BOOLEAN
    /\ queue = << >>
    /\ op = [t \in Threads |-> "none"]
    /\ arg = [t \in Threads |-> NoItem]
    /\ result = [t \in Threads |-> NoItem]

Create ==
    /\ ~alive
    /\ alive' = TRUE /\ queue' = << >>
    /\ maxSize' \in Int /\ timed' \in BOOLEAN
    /\ UNCHANGED <<op, arg, result>>

Delete ==
    /\ alive /\ Quiet
    /\ alive' = FALSE /\ queue' = << >>
    /\ UNCHANGED <<maxSize, timed, op, arg, result>>

Configure ==
    /\ alive /\ Quiet
    /\ maxSize' \in Int /\ timed' \in BOOLEAN
    /\ UNCHANGED <<alive, queue, op, arg, result>>

Call(t, o, v) ==
    /\ alive
    /\ result[t] # Pending
    /\ op' = [op EXCEPT ![t] = o]
    /\ arg' = [arg EXCEPT ![t] = v]
    /\ result' = [result EXCEPT ![t] = Pending]
    /\ UNCHANGED <<alive, maxSize, timed, queue>>

\* Thread t's pending call takes effect with outcome r and leaves queue q.
Effect(t, r, q) ==
    /\ result[t] = Pending
    /\ result' = [result EXCEPT ![t] = r]
    /\ queue' = q
    /\ UNCHANGED <<alive, maxSize, timed, op, arg>>

Put(t) ==
    /\ op[t] \in Pushes /\ HasRoom
    /\ Effect(t, Done, Append(queue, arg[t]))

Refuse(t) ==
    /\ op[t] = "try_push" /\ ~HasRoom
    /\ Effect(t, Full, queue)

Take(t) ==
    /\ op[t] \in {"pop", "try_pop"} /\ queue # << >>
    /\ Effect(t, Head(queue), Tail(queue))

TakeNothing(t) ==
    /\ \/ op[t] = "try_pop" /\ queue = << >>
       \/ op[t] = "pop" /\ timed
    /\ Effect(t, NoItem, queue)

Measure(t) ==
    /\ op[t] = "length"
    /\ Effect(t, Len(queue), queue)

Next ==
    \/ Create \/ Delete \/ Configure
    \/ \E t \in Threads :
          \/ \E o \in Ops, v \in Items \cup {NoItem} : Call(t, o, v)
          \/ Put(t) \/ Refuse(t) \/ Take(t) \/ TakeNothing(t) \/ Measure(t)

Spec == Init /\ [][Next]_fifoVars
=============================================================================
