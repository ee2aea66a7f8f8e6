----------------------------- MODULE ThreadPool -----------------------------
(***************************************************************************)
(* src/cf_threadpool/cf_threadpool.c: cf_threadpool_run hands a function   *)
(* and its argument to the first worker of the global pool that is free.   *)
(* A worker is free when its mutex is not locked: the submitter locks it   *)
(* with trylock, leaves the argument in m_data and the function in the     *)
(* worker's queue, and the worker unlocks it after the function returned.  *)
(*                                                                         *)
(* The pool is created by the first call, without a lock around the test   *)
(* of the static pointer.  A client creates at most one pool, which is     *)
(* named after it here.  A task may itself submit tasks, so the actors are *)
(* the clients and the workers.  The queue of a worker has no limit, no    *)
(* timeout and one consumer: AsyncQueue shows that it is the FIFO queue    *)
(* used here and that its consumer is woken.                               *)
(***************************************************************************)
EXTENDS Integers, Sequences, FiniteSets

CONSTANTS
    Clients,        \* the threads of the program that submit tasks
    N,              \* CF_THREADPOOL_GLOBAL_COUNT
    Tasks,          \* a task is a function and the argument meant for it
    Nesting,        \* the tasks whose function submits tasks
    Null

ASSUME CountAssumption == N \in Nat \ {0}
ASSUME NullAssumption == Null \notin Tasks \cup Clients
ASSUME NestingAssumption == Nesting \subseteq Tasks
ASSUME ActorsAssumption == Clients \cap (Clients \X (1 .. N)) = {}

Workers == Clients \X (1 .. N)
Actors == Clients \cup Workers

VARIABLES
    instance,       \* the static pointer of cf_threadpool_global_instance
    created,        \* the clients that created a pool
    locked,         \* the workers whose m_mutex is locked
    data,           \* m_data of each worker
    fns,            \* m_queue of each worker: the functions it has to call
    wpc,            \* where each worker is in _thread_item_run
    func, param,    \* the function it calls, and the argument it passes
    pc,             \* where each actor is in cf_threadpool_run
    task,           \* what it submits
    pool, pos,      \* the pool and the worker it looks at
    spare,          \* auxiliary: the workers that were free when the scan began
                    \* and that nobody has locked since
    status          \* auxiliary: where each task is, as in TaskPool

workerVars == <<wpc, func, param>>
vars == <<instance, created, locked, data, fns, wpc, func, param, pc, task, pool,
          pos, spare, status>>

At(s) == <<pool[s], pos[s]>>

Init ==
    /\ instance = Null
    /\ created = {}
    /\ locked = {}
    /\ data = [w \in Workers |-> Null]
    /\ fns = [w \in Workers |-> << >>]
    /\ wpc = [w \in Workers |-> "pop"]
    /\ func = [w \in Workers |-> Null]
    /\ param = [w \in Workers |-> Null]
    /\ pc = [s \in Actors |-> "idle"]
    /\ task = [s \in Actors |-> Null]
    /\ pool = [s \in Actors |-> Null]
    /\ pos = [s \in Actors |-> 1]
    /\ spare = [s \in Actors |-> {}]
    /\ status = [k \in Tasks |-> "out"]

(***************************************************************************)
(* Submitting a task.                                                      *)
(***************************************************************************)
Goto(s, from, to) == pc[s] = from /\ pc' = [pc EXCEPT ![s] = to]

\* A client submits when it likes, a worker while it runs a nesting task.
MaySubmit(s) ==
    \/ s \in Clients
    \/ s \in Workers /\ wpc[s] = "run" /\ func[s] \in Nesting

Run(s, k) ==
    /\ Goto(s, "idle", "test")
    /\ MaySubmit(s)
    /\ status[k] = "out" /\ \A r \in Actors : task[r] # k
    /\ task' = [task EXCEPT ![s] = k]
    /\ UNCHANGED <<instance, created, locked, data, fns, workerVars, pool, pos,
                   spare, status>>

TestInstance(s) ==
    /\ Goto(s, "test", IF instance = Null THEN "create" ELSE "fetch")
    /\ UNCHANGED <<instance, created, locked, data, fns, workerVars, task, pool,
                   pos, spare, status>>

\* The workers of the new pool start to wait for functions.
CreatePool(s) ==
    /\ Goto(s, "create", "store")
    /\ created' = created \cup {s}
    /\ UNCHANGED <<instance, locked, data, fns, workerVars, task, pool, pos, spare,
                   status>>

StoreInstance(s) ==
    /\ Goto(s, "store", "fetch")
    /\ instance' = s
    /\ UNCHANGED <<created, locked, data, fns, workerVars, task, pool, pos, spare,
                   status>>

\* The pointer is read again to return it.
FetchInstance(s) ==
    /\ Goto(s, "fetch", "scan")
    /\ pool' = [pool EXCEPT ![s] = instance]
    /\ pos' = [pos EXCEPT ![s] = 1]
    /\ spare' = [spare EXCEPT ![s] = ({instance} \X (1 .. N)) \ locked]
    /\ UNCHANGED <<instance, created, locked, data, fns, workerVars, task, status>>

\* Mutants: the result of trylock is ignored; the scan goes one worker too far.
TryLockIgnored(s) ==
    /\ Goto(s, "scan", "data")
    /\ pos[s] <= N
    /\ locked' = locked \cup {At(s)}
    /\ spare' = [r \in Actors |-> spare[r] \ {At(s)}]
    /\ UNCHANGED <<instance, created, data, fns, workerVars, task, pool, pos,
                   status>>
TryLockTooFar(s) ==
    /\ Goto(s, "scan", "data")
    /\ pos[s] <= N + 1 /\ At(s) \notin locked
    /\ locked' = locked \cup {At(s)}
    /\ UNCHANGED <<instance, created, data, fns, workerVars, task, pool, pos,
                   spare, status>>

TryLock(s) ==
    /\ Goto(s, "scan", "data")
    /\ pos[s] <= N /\ At(s) \notin locked
    /\ locked' = locked \cup {At(s)}
    /\ spare' = [r \in Actors |-> spare[r] \ {At(s)}]
    /\ UNCHANGED <<instance, created, data, fns, workerVars, task, pool, pos,
                   status>>

\* Mutants: the iterator advances twice, or never.
NextWorkerTwice(s) ==
    /\ pc[s] = "scan"
    /\ pos[s] <= N /\ At(s) \in locked
    /\ pos' = [pos EXCEPT ![s] = @ + 2]
    /\ UNCHANGED <<instance, created, locked, data, fns, workerVars, pc, task, pool,
                   spare, status>>
SameWorker(s) ==
    /\ pc[s] = "scan"
    /\ pos[s] <= N /\ At(s) \in locked
    /\ UNCHANGED vars

NextWorker(s) ==
    /\ pc[s] = "scan"
    /\ pos[s] <= N /\ At(s) \in locked
    /\ pos' = [pos EXCEPT ![s] = @ + 1]
    /\ UNCHANGED <<instance, created, locked, data, fns, workerVars, pc, task, pool,
                   spare, status>>

\* The call is over: its locals are gone.
Return(s) ==
    /\ pc' = [pc EXCEPT ![s] = "idle"]
    /\ task' = [task EXCEPT ![s] = Null]
    /\ pool' = [pool EXCEPT ![s] = Null]
    /\ pos' = [pos EXCEPT ![s] = 1]
    /\ spare' = [spare EXCEPT ![s] = {}]

\* The scan found nobody: the call returns -1 and the task is dropped.
Reject(s) ==
    /\ pc[s] = "scan"
    /\ pos[s] > N
    /\ Return(s)
    /\ UNCHANGED <<instance, created, locked, data, fns, workerVars, status>>

SetData(s) ==
    /\ Goto(s, "data", "push")
    /\ data' = [data EXCEPT ![At(s)] = task[s]]
    /\ UNCHANGED <<instance, created, locked, fns, workerVars, task, pool, pos,
                   spare, status>>

PushFunction(s) ==
    /\ pc[s] = "push"
    /\ fns' = [fns EXCEPT ![At(s)] = Append(@, task[s])]
    /\ status' = [status EXCEPT ![task[s]] = "accepted"]
    /\ Return(s)
    /\ UNCHANGED <<instance, created, locked, data, workerVars>>

(***************************************************************************)
(* The loop of a worker.                                                   *)
(***************************************************************************)
WorkerGoto(w, from, to) == wpc[w] = from /\ wpc' = [wpc EXCEPT ![w] = to]

\* Mutant: the function stays in the queue.
PopLeaves(w) ==
    /\ WorkerGoto(w, "pop", "call")
    /\ fns[w] # << >>
    /\ func' = [func EXCEPT ![w] = Head(fns[w])]
    /\ UNCHANGED <<instance, created, locked, data, fns, param, pc, task, pool, pos,
                   spare, status>>

Pop(w) ==
    /\ WorkerGoto(w, "pop", "call")
    /\ fns[w] # << >>
    /\ func' = [func EXCEPT ![w] = Head(fns[w])]
    /\ fns' = [fns EXCEPT ![w] = Tail(@)]
    /\ UNCHANGED <<instance, created, locked, data, param, pc, task, pool, pos,
                   spare, status>>

Invoke(w) ==
    /\ WorkerGoto(w, "call", "run")
    /\ param' = [param EXCEPT ![w] = data[w]]
    /\ status' = [status EXCEPT ![func[w]] = "running"]
    /\ UNCHANGED <<instance, created, locked, data, fns, func, pc, task, pool, pos,
                   spare>>

\* Mutant: the mutex is unlocked before m_data is cleared.
FinishUnlocks(w) ==
    /\ WorkerGoto(w, "run", "clear")
    /\ pc[w] = "idle"
    /\ locked' = locked \ {w}
    /\ status' = [status EXCEPT ![func[w]] = "out"]
    /\ UNCHANGED <<instance, created, data, fns, func, param, pc, task, pool, pos,
                   spare>>

Finish(w) ==
    /\ WorkerGoto(w, "run", "clear")
    /\ pc[w] = "idle"
    /\ status' = [status EXCEPT ![func[w]] = "out"]
    /\ func' = [func EXCEPT ![w] = Null]
    /\ param' = [param EXCEPT ![w] = Null]
    /\ UNCHANGED <<instance, created, locked, data, fns, pc, task, pool, pos, spare>>

ClearData(w) ==
    /\ WorkerGoto(w, "clear", "unlock")
    /\ data' = [data EXCEPT ![w] = Null]
    /\ UNCHANGED <<instance, created, locked, fns, func, param, pc, task, pool, pos,
                   spare, status>>

\* Mutant: the worker runs one task and ends.
UnlockAndEnd(w) ==
    /\ WorkerGoto(w, "unlock", "end")
    /\ locked' = locked \ {w}
    /\ UNCHANGED <<instance, created, data, fns, func, param, pc, task, pool, pos,
                   spare, status>>

\* The mutex was locked by the submitter and is unlocked here by another thread.
Unlock(w) ==
    /\ WorkerGoto(w, "unlock", "pop")
    /\ locked' = locked \ {w}
    /\ UNCHANGED <<instance, created, data, fns, func, param, pc, task, pool, pos,
                   spare, status>>

(***************************************************************************)
(* The specification.                                                      *)
(***************************************************************************)
SubmitStep(s) ==
    \/ TestInstance(s) \/ CreatePool(s) \/ StoreInstance(s) \/ FetchInstance(s)
    \/ TryLock(s) \/ NextWorker(s) \/ Reject(s) \/ SetData(s) \/ PushFunction(s)

WorkerStep(w) == Pop(w) \/ Invoke(w) \/ ClearData(w) \/ Unlock(w)

Next ==
    \/ \E s \in Actors : SubmitStep(s) \/ \E k \in Tasks : Run(s, k)
    \/ \E w \in Workers : WorkerStep(w) \/ Finish(w)

Spec == Init /\ [][Next]_vars

\* Every thread keeps running its own code, but a task may run for ever and
\* nobody has to submit anything.
FairSpec ==
    /\ Spec
    /\ \A s \in Actors : WF_vars(SubmitStep(s))
    /\ \A w \in Workers : WF_vars(WorkerStep(w))

(***************************************************************************)
(* Properties.                                                             *)
(***************************************************************************)
TypeOK ==
    /\ instance \in Clients \cup {Null}
    /\ created \subseteq Clients
    /\ locked \subseteq Workers
    /\ data \in [Workers -> Tasks \cup {Null}]
    /\ fns \in [Workers -> Seq(Tasks)]
    /\ wpc \in [Workers -> {"pop", "call", "run", "clear", "unlock"}]
    /\ func \in [Workers -> Tasks \cup {Null}]
    /\ param \in [Workers -> Tasks \cup {Null}]
    /\ pc \in [Actors -> {"idle", "test", "create", "store", "fetch", "scan",
                          "data", "push"}]
    /\ task \in [Actors -> Tasks \cup {Null}]
    /\ pool \in [Actors -> Clients \cup {Null}]
    /\ pos \in [Actors -> 1 .. N + 1]
    /\ spare \in [Actors -> SUBSET Workers]
    /\ status \in [Tasks -> {"out", "accepted", "running"}]

\* m_data and m_queue are written one after the other, and read one after the
\* other by another thread, yet no function is called with the argument of
\* another task.
RightArgument == \A w \in Workers : wpc[w] = "run" => param[w] = func[w]

\* Who has to do with worker w: the submitters that locked it, the functions in
\* its queue, and the worker itself between pop and unlock.
Engagements(w) ==
    Cardinality({s \in Actors : pc[s] \in {"data", "push"} /\ At(s) = w})
      + Len(fns[w]) + (IF wpc[w] = "pop" THEN 0 ELSE 1)

\* The mutex of a worker is handed over from the submitter through the queue to
\* the worker: it is locked as long as exactly one of them has it, so two tasks
\* never share a worker and no task is dropped on the way.
HandOver == \A w \in Workers : Engagements(w) = IF w \in locked THEN 1 ELSE 0

\* cf_threadpool_run returns -1 only if each worker of the pool was busy at some
\* moment of the scan: one that stays free is found, however the others change.
HonestRejection ==
    \A s \in Actors : pc[s] = "scan" /\ pos[s] > N => spare[s] = {}

Abstract == INSTANCE TaskPool WITH workers <- N * Cardinality(created)

\* Every accepted task is executed once, and there are never more of them than
\* workers, pools that lost the race for the static pointer included.
ImplementsTaskPool == Abstract!Spec

\* An accepted task is eventually started, even by a pool that no later call
\* can find.
AcceptedStarts ==
    \A k \in Tasks : status[k] = "accepted" ~> status[k] = "running"

\* cf_threadpool_run returns, however busy the pool is.
SubmissionReturns == \A s \in Actors : pc[s] # "idle" ~> pc[s] = "idle"
=============================================================================
