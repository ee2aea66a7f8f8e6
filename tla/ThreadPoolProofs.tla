-------------------------- MODULE ThreadPoolProofs --------------------------
(***************************************************************************)
(* Proofs about ThreadPool, for every number of clients, workers and       *)
(* tasks.  HandOver counts; what is inductive is ChainInv, which says for  *)
(* each worker who has its mutex and what this one has already written.    *)
(***************************************************************************)
EXTENDS ThreadPool, SequenceTheorems, FiniteSetTheorems, TLAPS

\* Actor s has locked worker w and not yet pushed its function.
Claims(s, w) == pc[s] \in {"data", "push"} /\ At(s) = w

\* A scanning actor looks at a worker of a pool that exists.
ScanInv ==
    /\ \A s \in Actors :
          /\ pc[s] \in {"scan", "data", "push"} => pool[s] \in Clients
          /\ pc[s] \in {"data", "push"} => pos[s] \in 1 .. N
          /\ pc[s] \in {"fetch", "scan", "data", "push"} => instance \in Clients
          /\ pc[s] \in {"create", "store"} => s \in Clients
          /\ pc[s] # "idle" => task[s] \in Tasks
    /\ \A s \in Workers : pc[s] # "idle" => instance \in Clients
    /\ \A w \in Workers : wpc[w] \in {"call", "run"} => func[w] \in Tasks
    /\ (\E w \in Workers : wpc[w] # "pop" \/ fns[w] # << >>) => instance \in Clients

TypeInv == TypeOK /\ ScanInv

LEMMA ActorTypes ==
    /\ Clients \subseteq Actors /\ Workers \subseteq Actors
    /\ \A s \in Actors : s \in Clients \/ s \in Workers
    /\ \A s \in Clients : s \notin Workers
  BY ActorsAssumption DEF Actors, Workers

LEMMA NoFunctions == << >> \in Seq(Tasks)
  OBVIOUS

LEMMA AtWorker ==
    ASSUME TypeInv, NEW s \in Actors, pc[s] \in {"scan", "data", "push"},
           pos[s] <= N
    PROVE  At(s) \in Workers
  BY CountAssumption DEF TypeInv, TypeOK, ScanInv, At, Workers

LEMMA TypeInit == Init => TypeInv
  <1> SUFFICES ASSUME Init PROVE TypeInv
    OBVIOUS
  <1>a. fns \in [Workers -> Seq(Tasks)]
    BY NoFunctions DEF Init
  <1>b. pos \in [Actors -> 1 .. N + 1]
    BY CountAssumption DEF Init
  <1>c. /\ data \in [Workers -> Tasks \cup {Null}]
        /\ func \in [Workers -> Tasks \cup {Null}]
        /\ param \in [Workers -> Tasks \cup {Null}]
        /\ task \in [Actors -> Tasks \cup {Null}]
        /\ pool \in [Actors -> Clients \cup {Null}]
    BY DEF Init
  <1>d. /\ wpc \in [Workers -> {"pop", "call", "run", "clear", "unlock"}]
        /\ pc \in [Actors -> {"idle", "test", "create", "store", "fetch", "scan",
                              "data", "push"}]
        /\ status \in [Tasks -> {"out", "accepted", "running"}]
    BY DEF Init
  <1>e. spare \in [Actors -> SUBSET Workers]
    BY DEF Init
  <1>1. TypeOK
    BY <1>a, <1>b, <1>c, <1>d, <1>e DEF Init, TypeOK
  <1>2. ScanInv
    BY ActorTypes DEF Init, ScanInv
  <1> QED
    BY <1>1, <1>2 DEF TypeInv

LEMMA TypeSubmit ==
    ASSUME TypeInv, NEW s \in Actors, SubmitStep(s) \/ \E k \in Tasks : Run(s, k)
    PROVE  TypeInv'
  <1> USE ActorTypes, CountAssumption DEF TypeInv, TypeOK, ScanInv, Goto
  <1>1. ASSUME NEW k \in Tasks, Run(s, k) PROVE TypeInv'
    <2>1. s \in Workers => instance \in Clients
      BY <1>1 DEF Run, MaySubmit
    <2> QED
      BY <1>1, <2>1 DEF Run, workerVars
  <1>2. CASE TestInstance(s)
    <2>1. instance = Null => s \in Clients
      BY <1>2, NullAssumption DEF TestInstance
    <2>2. instance # Null => instance \in Clients
      OBVIOUS
    <2>3. CASE instance = Null
      BY <1>2, <2>1, <2>3 DEF TestInstance, workerVars
    <2>4. CASE instance # Null
      BY <1>2, <2>2, <2>4 DEF TestInstance, workerVars
    <2> QED
      BY <2>3, <2>4
  <1>3. CASE CreatePool(s)
    BY <1>3 DEF CreatePool, workerVars
  <1>4. CASE StoreInstance(s)
    BY <1>4 DEF StoreInstance, workerVars
  <1>5. CASE FetchInstance(s)
    BY <1>5 DEF FetchInstance, workerVars, Workers
  <1>6. CASE TryLock(s)
    BY <1>6, AtWorker DEF TryLock, workerVars
  <1>7. CASE NextWorker(s)
    BY <1>7 DEF NextWorker, workerVars
  <1>8. CASE Reject(s)
    BY <1>8 DEF Reject, Return, workerVars
  <1>9. CASE SetData(s)
    BY <1>9, AtWorker DEF SetData, workerVars
  <1>10. CASE PushFunction(s)
    BY <1>10, AtWorker, AppendProperties DEF PushFunction, Return, workerVars
  <1> QED
    BY <1>1, <1>2, <1>3, <1>4, <1>5, <1>6, <1>7, <1>8, <1>9, <1>10 DEF SubmitStep

LEMMA TypeWorker ==
    ASSUME TypeInv, NEW w \in Workers, WorkerStep(w) \/ Finish(w)
    PROVE  TypeInv'
  <1> USE DEF TypeInv, TypeOK, ScanInv, WorkerGoto
  <1>1. CASE Pop(w)
    <2>1. Head(fns[w]) \in Tasks /\ Tail(fns[w]) \in Seq(Tasks)
      BY <1>1, HeadTailProperties DEF Pop
    <2> QED
      BY <1>1, <2>1 DEF Pop
  <1>2. CASE Invoke(w)
    BY <1>2 DEF Invoke
  <1>3. CASE Finish(w)
    BY <1>3 DEF Finish
  <1>4. CASE ClearData(w)
    BY <1>4 DEF ClearData
  <1>5. CASE Unlock(w)
    BY <1>5 DEF Unlock
  <1> QED
    BY <1>1, <1>2, <1>3, <1>4, <1>5 DEF WorkerStep

LEMMA TypeInvariant == Spec => []TypeInv
  <1>1. TypeInv /\ [Next]_vars => TypeInv'
    <2>1. TypeInv /\ UNCHANGED vars => TypeInv'
      BY DEF vars, workerVars, TypeInv, TypeOK, ScanInv
    <2> QED
      BY <2>1, TypeSubmit, TypeWorker DEF Next
  <1> QED
    BY <1>1, TypeInit, PTL DEF Spec

\* Type correctness of the pools and of the calls that use them.
THEOREM TypeCorrect == Spec => []TypeOK
  <1>1. TypeInv => TypeOK
    BY DEF TypeInv
  <1> QED
    BY <1>1, TypeInvariant, PTL

-----------------------------------------------------------------------------
(***************************************************************************)
(* The chain from the submitter that locks a worker to the worker that     *)
(* unlocks itself.                                                         *)
(***************************************************************************)

\* A submitter that has claimed a worker is its only one and nothing of an
\* earlier task is left; a queued function belongs to the argument in m_data;
\* and so does the function the worker calls.
ClaimInv ==
    \A s \in Actors, w \in Workers :
        Claims(s, w) =>
            /\ w \in locked /\ fns[w] = << >> /\ wpc[w] = "pop"
            /\ \A r \in Actors : Claims(r, w) => r = s
            /\ pc[s] = "push" => data[w] = task[s]

QueueInv ==
    \A w \in Workers :
        /\ fns[w] # << >> => /\ w \in locked /\ wpc[w] = "pop"
                             /\ fns[w] = << data[w] >>
        /\ wpc[w] # "pop" => w \in locked
        /\ wpc[w] = "call" => func[w] = data[w]
        /\ w \in locked => \/ fns[w] # << >> \/ wpc[w] # "pop"
                           \/ \E s \in Actors : Claims(s, w)

ChainInv == ClaimInv /\ QueueInv /\ RightArgument

LEMMA ChainInit == Init => ChainInv
  BY DEF Init, ChainInv, ClaimInv, QueueInv, RightArgument, Claims

\* A step that claims nothing, gives up no claim and touches no worker.
LEMMA ChainStutter ==
    ASSUME ChainInv,
           \A s \in Actors, w \in Workers : Claims(s, w)' <=> Claims(s, w),
           \A s \in Actors, w \in Workers :
               Claims(s, w) => (pc'[s] = pc[s] /\ task'[s] = task[s]),
           UNCHANGED <<locked, data, fns, workerVars>>
    PROVE  ChainInv'
  BY DEF ChainInv, ClaimInv, QueueInv, RightArgument, workerVars

LEMMA ChainSubmit ==
    ASSUME TypeInv, ChainInv, NEW s \in Actors,
           SubmitStep(s) \/ \E k \in Tasks : Run(s, k)
    PROVE  ChainInv'
  <1>t. /\ pc \in [Actors -> {"idle", "test", "create", "store", "fetch", "scan",
                              "data", "push"}]
        /\ task \in [Actors -> Tasks \cup {Null}]
        /\ pool \in [Actors -> Clients \cup {Null}]
        /\ pos \in [Actors -> 1 .. N + 1]
        /\ data \in [Workers -> Tasks \cup {Null}]
        /\ fns \in [Workers -> Seq(Tasks)]
        /\ N \in Nat
    BY CountAssumption DEF TypeInv, TypeOK
  <1>1. CASE \/ \E k \in Tasks : Run(s, k)
             \/ TestInstance(s) \/ CreatePool(s) \/ StoreInstance(s)
             \/ FetchInstance(s) \/ NextWorker(s) \/ Reject(s)
    <2>1. UNCHANGED <<locked, data, fns, workerVars>>
      BY <1>1 DEF Run, TestInstance, CreatePool, StoreInstance, FetchInstance,
                  NextWorker, Reject
    <2>2. \A r \in Actors :
             /\ pc[r] \in {"data", "push"} <=> pc'[r] \in {"data", "push"}
             /\ pc[r] \in {"data", "push"} =>
                   /\ r # s /\ pc'[r] = pc[r] /\ task'[r] = task[r]
                   /\ pool'[r] = pool[r] /\ pos'[r] = pos[r]
      BY <1>t, <1>1
      DEF Run, TestInstance, CreatePool, StoreInstance, FetchInstance, NextWorker,
          Reject, Return, Goto
    <2> QED
      BY <2>1, <2>2, ChainStutter DEF Claims, At
  <1>2. CASE TryLock(s)
    <2>1. /\ At(s) \in Workers /\ At(s) \notin locked
          /\ locked' = locked \cup {At(s)}
          /\ pc[s] = "scan" /\ pc' = [pc EXCEPT ![s] = "data"]
          /\ UNCHANGED <<data, fns, wpc, func, param, task>>
          /\ \A r \in Actors : At(r)' = At(r)
      BY <1>2, <1>t, AtWorker DEF TryLock, Goto, workerVars, At
    <2>2. \A r \in Actors, w \in Workers :
             Claims(r, w)' <=> Claims(r, w) \/ (r = s /\ w = At(s))
      BY <1>t, <2>1 DEF Claims
    <2>3. ClaimInv'
      BY <1>t, <2>1, <2>2 DEF ChainInv, ClaimInv, QueueInv, Claims
    <2>4. QueueInv'
      BY <1>t, <2>1, <2>2 DEF ChainInv, QueueInv
    <2> QED
      BY <2>1, <2>3, <2>4 DEF ChainInv, RightArgument
  <1>3. CASE SetData(s)
    <2>1. /\ At(s) \in Workers /\ Claims(s, At(s))
          /\ data' = [data EXCEPT ![At(s)] = task[s]]
          /\ pc[s] = "data" /\ pc' = [pc EXCEPT ![s] = "push"]
          /\ UNCHANGED <<locked, fns, wpc, func, param, task>>
          /\ \A r \in Actors : At(r)' = At(r)
      <3>1. pos[s] <= N
        BY <1>3, <1>t DEF SetData, Goto, TypeInv, ScanInv
      <3> QED
        BY <1>3, <1>t, <3>1, AtWorker DEF SetData, Goto, workerVars, At, Claims
    <2>2. \A r \in Actors, w \in Workers : Claims(r, w)' <=> Claims(r, w)
      BY <1>t, <2>1 DEF Claims
    <2>3. ClaimInv'
      BY <1>t, <2>1, <2>2 DEF ChainInv, ClaimInv, Claims
    <2>4. QueueInv'
      BY <1>t, <2>1, <2>2 DEF ChainInv, ClaimInv, QueueInv
    <2> QED
      BY <2>1, <2>3, <2>4 DEF ChainInv, RightArgument
  <1>4. CASE PushFunction(s)
    <2>1. /\ At(s) \in Workers /\ Claims(s, At(s)) /\ pc[s] = "push"
          /\ task[s] \in Tasks
          /\ fns' = [fns EXCEPT ![At(s)] = Append(@, task[s])]
          /\ pc' = [pc EXCEPT ![s] = "idle"]
          /\ UNCHANGED <<locked, data, wpc, func, param>>
          /\ \A r \in Actors \ {s} : At(r)' = At(r) /\ task'[r] = task[r]
      <3>1. pos[s] <= N /\ task[s] \in Tasks
        BY <1>4, <1>t DEF PushFunction, TypeInv, ScanInv
      <3> QED
        BY <1>4, <1>t, <3>1, AtWorker
        DEF PushFunction, Return, workerVars, At, Claims
    <2>2. \A r \in Actors, w \in Workers :
             Claims(r, w)' <=> Claims(r, w) /\ w # At(s)
      BY <1>t, <2>1 DEF Claims, ChainInv, ClaimInv
    <2>3. fns'[At(s)] = << data[At(s)] >>
      <3>1. fns[At(s)] = << >> /\ data[At(s)] = task[s]
        BY <2>1 DEF ChainInv, ClaimInv
      <3> QED
        BY <1>t, <2>1, <3>1
    <2>4. ClaimInv'
      BY <1>t, <2>1, <2>2 DEF ChainInv, ClaimInv, Claims
    <2>5. QueueInv'
      BY <1>t, <2>1, <2>2, <2>3 DEF ChainInv, ClaimInv, QueueInv
    <2> QED
      BY <2>1, <2>4, <2>5 DEF ChainInv, RightArgument
  <1> QED
    BY <1>1, <1>2, <1>3, <1>4 DEF SubmitStep

LEMMA ChainWorker ==
    ASSUME TypeInv, ChainInv, NEW v \in Workers, WorkerStep(v) \/ Finish(v)
    PROVE  ChainInv'
  <1>t. /\ wpc \in [Workers -> {"pop", "call", "run", "clear", "unlock"}]
        /\ func \in [Workers -> Tasks \cup {Null}]
        /\ param \in [Workers -> Tasks \cup {Null}]
        /\ data \in [Workers -> Tasks \cup {Null}]
        /\ fns \in [Workers -> Seq(Tasks)]
    BY DEF TypeInv, TypeOK
  <1>c. /\ \A s \in Actors, w \in Workers : Claims(s, w)' <=> Claims(s, w)
        /\ UNCHANGED <<pc, task>>
    BY DEF WorkerStep, Pop, Invoke, Finish, ClearData, Unlock, Claims, At
  <1> USE DEF ChainInv, WorkerGoto
  <1>1. CASE Pop(v)
    <2>1. fns[v] = << data[v] >> /\ v \in locked /\ wpc[v] = "pop"
      BY <1>1 DEF Pop, QueueInv
    <2>2. func'[v] = data[v] /\ fns'[v] = << >>
      BY <1>1, <1>t, <2>1 DEF Pop
    <2>3. \A s \in Actors : ~Claims(s, v)
      BY <2>1 DEF ClaimInv
    <2>4. ClaimInv'
      BY <1>1, <1>t, <1>c, <2>3 DEF Pop, ClaimInv
    <2>5. QueueInv'
      BY <1>1, <1>t, <1>c, <2>1, <2>2 DEF Pop, QueueInv
    <2>6. RightArgument'
      BY <1>1, <1>t DEF Pop, RightArgument
    <2> QED
      BY <2>4, <2>5, <2>6
  <1>2. CASE Invoke(v)
    BY <1>2, <1>t, <1>c DEF Invoke, ClaimInv, QueueInv, RightArgument
  <1>3. CASE Finish(v)
    BY <1>3, <1>t, <1>c DEF Finish, ClaimInv, QueueInv, RightArgument
  <1>4. CASE ClearData(v)
    BY <1>4, <1>t, <1>c DEF ClearData, ClaimInv, QueueInv, RightArgument
  <1>5. CASE Unlock(v)
    BY <1>5, <1>t, <1>c DEF Unlock, ClaimInv, QueueInv, RightArgument
  <1> QED
    BY <1>1, <1>2, <1>3, <1>4, <1>5 DEF WorkerStep

LEMMA ChainInvariant == Spec => []ChainInv
  <1>1. TypeInv /\ ChainInv /\ [Next]_vars => ChainInv'
    <2>1. ChainInv /\ UNCHANGED vars => ChainInv'
      <3> SUFFICES ASSUME ChainInv, UNCHANGED vars PROVE ChainInv'
        OBVIOUS
      <3>1. /\ \A s \in Actors, w \in Workers : Claims(s, w)' <=> Claims(s, w)
            /\ UNCHANGED <<locked, data, fns, workerVars, pc, task>>
        BY DEF vars, workerVars, Claims, At
      <3> QED
        BY <3>1, ChainStutter
    <2> QED
      BY <2>1, ChainSubmit, ChainWorker DEF Next
  <1> QED
    BY <1>1, ChainInit, TypeInvariant, PTL DEF Spec

\* No function is called with the argument of another task, for any number of
\* clients, pools, workers and tasks that submit tasks.
THEOREM CallsWithItsArgument == Spec => []RightArgument
  <1>1. ChainInv => RightArgument
    BY DEF ChainInv
  <1> QED
    BY <1>1, ChainInvariant, PTL

\* A locked worker is engaged exactly once and a free one not at all.
THEOREM HandsOver == Spec => []HandOver
  <1>1. ASSUME TypeInv, ChainInv, NEW w \in Workers
        PROVE  Engagements(w) = IF w \in locked THEN 1 ELSE 0
    <2> DEFINE C == {s \in Actors : pc[s] \in {"data", "push"} /\ At(s) = w}
    <2>1. \A s \in Actors : s \in C <=> Claims(s, w)
      BY DEF Claims
    <2>2. fns[w] = << >> \/ fns[w] = << data[w] >>
      BY <1>1 DEF ChainInv, QueueInv
    <2>3. Len(fns[w]) = IF fns[w] = << >> THEN 0 ELSE 1
      <3>1. Len(<< data[w] >>) = 1 /\ Len(<< >>) = 0 /\ << data[w] >> # << >>
        OBVIOUS
      <3> QED
        BY <2>2, <3>1
    <2>4. CASE C = {}
      <3>1. Cardinality(C) = 0
        BY <2>4, FS_EmptySet
      <3>2. w \in locked <=> fns[w] # << >> \/ wpc[w] # "pop"
        BY <1>1, <2>1, <2>4 DEF ChainInv, QueueInv
      <3>3. ~(fns[w] # << >> /\ wpc[w] # "pop")
        BY <1>1 DEF ChainInv, QueueInv
      <3> QED
        BY <2>3, <3>1, <3>2, <3>3 DEF Engagements
    <2>5. CASE C # {}
      <3>1. PICK s \in Actors : Claims(s, w)
        BY <2>1, <2>5
      <3>2. C = {s} /\ w \in locked /\ fns[w] = << >> /\ wpc[w] = "pop"
        BY <1>1, <2>1, <3>1 DEF ChainInv, ClaimInv
      <3>3. Cardinality(C) = 1
        BY <3>2, FS_Singleton
      <3> QED
        BY <2>3, <3>2, <3>3 DEF Engagements
    <2> QED
      BY <2>4, <2>5
  <1>2. TypeInv /\ ChainInv => HandOver
    BY <1>1 DEF HandOver
  <1> QED
    BY <1>2, TypeInvariant, ChainInvariant, PTL

-----------------------------------------------------------------------------
(***************************************************************************)
(* The scan of a submitter.                                                *)
(***************************************************************************)

\* A worker that stayed free since the scan began is still before it.
SpareInv ==
    \A s \in Actors : \A w \in spare[s] :
        /\ w \notin locked
        /\ pc[s] = "scan" => w[1] = pool[s] /\ w[2] >= pos[s]

LEMMA SpareSubmit ==
    ASSUME TypeInv, SpareInv, NEW s \in Actors,
           SubmitStep(s) \/ \E k \in Tasks : Run(s, k)
    PROVE  SpareInv'
  <1>t. /\ pc \in [Actors -> {"idle", "test", "create", "store", "fetch", "scan",
                              "data", "push"}]
        /\ pool \in [Actors -> Clients \cup {Null}]
        /\ pos \in [Actors -> 1 .. N + 1]
        /\ spare \in [Actors -> SUBSET Workers]
        /\ N \in Nat
    BY CountAssumption DEF TypeInv, TypeOK
  <1> USE DEF SpareInv, Goto
  <1>1. CASE \/ \E k \in Tasks : Run(s, k)
             \/ TestInstance(s) \/ CreatePool(s) \/ StoreInstance(s) \/ SetData(s)
    BY <1>t, <1>1 DEF Run, TestInstance, CreatePool, StoreInstance, SetData
  <1>2. CASE FetchInstance(s)
    <2>1. /\ pool' = [pool EXCEPT ![s] = instance] /\ pos' = [pos EXCEPT ![s] = 1]
          /\ spare' = [spare EXCEPT ![s] = ({instance} \X (1 .. N)) \ locked]
          /\ pc' = [pc EXCEPT ![s] = "scan"] /\ locked' = locked
      BY <1>2 DEF FetchInstance
    <2>2. \A w \in spare'[s] : w \notin locked /\ w[1] = instance /\ w[2] >= 1
      BY <1>t, <2>1
    <2> QED
      BY <1>t, <2>1, <2>2
  <1>3. CASE TryLock(s)
    BY <1>t, <1>3 DEF TryLock
  <1>4. CASE NextWorker(s)
    <2>1. /\ pc[s] = "scan" /\ At(s) \in locked /\ pos' = [pos EXCEPT ![s] = @ + 1]
          /\ UNCHANGED <<pc, pool, spare, locked>>
      BY <1>4 DEF NextWorker
    <2>2. ASSUME NEW w \in spare[s] PROVE w[2] >= pos[s] + 1
      <3>1. w \in Clients \X (1 .. N) /\ w # At(s)
        BY <1>t, <2>1 DEF Workers
      <3> QED
        BY <1>t, <2>1, <3>1 DEF At
    <2> QED
      BY <1>t, <2>1, <2>2
  <1>5. CASE Reject(s) \/ PushFunction(s)
    BY <1>t, <1>5 DEF Reject, PushFunction, Return
  <1> QED
    BY <1>1, <1>2, <1>3, <1>4, <1>5 DEF SubmitStep

LEMMA SpareWorker ==
    ASSUME SpareInv, NEW v \in Workers, WorkerStep(v) \/ Finish(v)
    PROVE  SpareInv'
  <1>1. UNCHANGED <<pc, pool, pos, spare>> /\ locked' \subseteq locked
    BY DEF WorkerStep, Pop, Invoke, ClearData, Unlock, Finish
  <1> QED
    BY <1>1 DEF SpareInv

\* A submission is refused only if no worker of the pool was free during all of
\* the scan: the scan passes none over, in whatever order tasks come and end.
THEOREM RejectsHonestly == Spec => []HonestRejection
  <1>1. Init => SpareInv
    BY DEF Init, SpareInv
  <1>2. TypeInv /\ SpareInv /\ [Next]_vars => SpareInv'
    <2>1. SpareInv /\ UNCHANGED vars => SpareInv'
      BY DEF vars, SpareInv
    <2> QED
      BY <2>1, SpareSubmit, SpareWorker DEF Next
  <1>3. TypeInv /\ SpareInv => HonestRejection
    <2> SUFFICES ASSUME TypeInv, SpareInv, NEW s \in Actors,
                        pc[s] = "scan", pos[s] > N, NEW w \in spare[s]
                 PROVE  FALSE
      BY DEF HonestRejection
    <2>1. w \in Clients \X (1 .. N) /\ w[2] >= pos[s] /\ pos[s] \in 1 .. N + 1
      BY DEF TypeInv, TypeOK, SpareInv, Workers
    <2> QED
      BY <2>1, CountAssumption
  <1> QED
    BY <1>1, <1>2, <1>3, TypeInvariant, PTL DEF Spec

-----------------------------------------------------------------------------
(***************************************************************************)
(* ThreadPool implements TaskPool, for every number of clients, workers    *)
(* and tasks.  A task that is accepted and not finished is in the hands of *)
(* one worker, whose mutex is locked, and no worker has two.  A submitter  *)
(* that is about to push has locked a worker that has none: so there are   *)
(* fewer tasks in the pool than workers when it is accepted.               *)
(***************************************************************************)
\* Worker w has task k: in its queue, or taken from it and not finished.
Has(w, k) == \/ fns[w] = << k >>
             \/ wpc[w] \in {"call", "run"} /\ func[w] = k

\* A task that is being submitted is out of the pool, and submitted once.
SubmittedOnce ==
    \A s \in Actors : task[s] \in Tasks =>
        status[task[s]] = "out" /\ \A r \in Actors : task[r] = task[s] => r = s

\* A task is in the pool when a worker has it, and one worker.
InHands ==
    /\ \A w \in Workers, k \in Tasks : Has(w, k) =>
          status[k] = IF wpc[w] = "run" THEN "running" ELSE "accepted"
    /\ \A v, w \in Workers, k \in Tasks : Has(v, k) /\ Has(w, k) => v = w
    /\ \A k \in Tasks : status[k] # "out" => \E w \in Workers : Has(w, k)

\* Only workers of pools that were created are locked.
OfPools ==
    /\ instance \in created \cup {Null}
    /\ \A s \in Actors : /\ pool[s] \in created \cup {Null}
                         /\ pc[s] = "store" => s \in created
    /\ locked \subseteq created \X (1 .. N)
    /\ IsFiniteSet(created)

PoolInv == SubmittedOnce /\ InHands /\ OfPools

LEMMA OneTask == \A j, k : << k >> # << >> /\ (<< j >> = << k >> => j = k)
  OBVIOUS

LEMMA PoolInit == Init => PoolInv
  <1> SUFFICES ASSUME Init PROVE PoolInv
    OBVIOUS
  <1>1. SubmittedOnce
    BY NullAssumption DEF Init, SubmittedOnce
  <1>2. \A w \in Workers, k \in Tasks : ~Has(w, k)
    BY OneTask DEF Init, Has
  <1>3. InHands
    BY <1>2 DEF Init, InHands
  <1>4. OfPools
    BY FS_EmptySet DEF Init, OfPools
  <1> QED
    BY <1>1, <1>3, <1>4 DEF PoolInv

-----------------------------------------------------------------------------
LEMMA OfPoolsSubmit ==
    ASSUME TypeInv, OfPools, NEW s \in Actors,
           SubmitStep(s) \/ \E k \in Tasks : Run(s, k)
    PROVE  OfPools'
  <1>t. /\ pc \in [Actors -> {"idle", "test", "create", "store", "fetch", "scan",
                              "data", "push"}]
        /\ pool \in [Actors -> Clients \cup {Null}]
        /\ pos \in [Actors -> 1 .. N + 1]
        /\ N \in Nat
    BY CountAssumption DEF TypeInv, TypeOK
  <1> USE DEF OfPools, Goto
  <1>1. CASE \/ \E k \in Tasks : Run(s, k)
             \/ TestInstance(s) \/ StoreInstance(s) \/ FetchInstance(s)
             \/ NextWorker(s) \/ Reject(s) \/ SetData(s) \/ PushFunction(s)
    BY <1>t, <1>1
    DEF Run, TestInstance, StoreInstance, FetchInstance, NextWorker, Reject,
        SetData, PushFunction, Return
  <1>2. CASE CreatePool(s)
    <2>1. /\ created' = created \cup {s} /\ pc' = [pc EXCEPT ![s] = "store"]
          /\ UNCHANGED <<instance, locked, pool>>
      BY <1>2 DEF CreatePool
    <2>2. IsFiniteSet(created')
      BY <2>1, FS_AddElement
    <2> QED
      BY <1>t, <2>1, <2>2
  <1>3. CASE TryLock(s)
    <2>1. /\ locked' = locked \cup {At(s)} /\ pc[s] = "scan" /\ pos[s] <= N
          /\ pc' = [pc EXCEPT ![s] = "data"]
          /\ UNCHANGED <<instance, created, pool>>
      BY <1>3 DEF TryLock
    <2>2. pool[s] \in created /\ pos[s] \in 1 .. N
      BY <1>t, <2>1, NullAssumption DEF TypeInv, ScanInv
    <2> QED
      BY <1>t, <2>1, <2>2 DEF At
  <1> QED
    BY <1>1, <1>2, <1>3 DEF SubmitStep

\* A step that leaves the workers and the tasks in the pool as they are.
LEMMA HandsStutter ==
    ASSUME InHands, UNCHANGED <<fns, wpc, func, status>>
    PROVE  InHands'
  BY DEF InHands, Has

LEMMA PoolSubmit ==
    ASSUME TypeInv, ChainInv, PoolInv, NEW s \in Actors,
           SubmitStep(s) \/ \E k \in Tasks : Run(s, k)
    PROVE  PoolInv'
  <1>t. /\ task \in [Actors -> Tasks \cup {Null}]
        /\ fns \in [Workers -> Seq(Tasks)]
        /\ status \in [Tasks -> {"out", "accepted", "running"}]
        /\ Null \notin Tasks
    BY NullAssumption DEF TypeInv, TypeOK
  <1>o. OfPools'
    BY OfPoolsSubmit DEF PoolInv
  <1>1. ASSUME NEW k \in Tasks, Run(s, k) PROVE PoolInv'
    <2>1. SubmittedOnce'
      BY <1>t, <1>1 DEF Run, PoolInv, SubmittedOnce
    <2>2. InHands'
      BY <1>1, HandsStutter DEF Run, workerVars, PoolInv
    <2> QED
      BY <1>o, <2>1, <2>2 DEF PoolInv
  <1>2. CASE \/ TestInstance(s) \/ CreatePool(s) \/ StoreInstance(s)
             \/ FetchInstance(s) \/ TryLock(s) \/ NextWorker(s) \/ SetData(s)
    <2>1. UNCHANGED <<task, fns, wpc, func, status>>
      BY <1>2
      DEF TestInstance, CreatePool, StoreInstance, FetchInstance, TryLock,
          NextWorker, SetData, workerVars
    <2>2. SubmittedOnce'
      BY <2>1 DEF PoolInv, SubmittedOnce
    <2> QED
      BY <1>o, <2>1, <2>2, HandsStutter DEF PoolInv
  <1>3. CASE Reject(s)
    <2>1. SubmittedOnce'
      BY <1>t, <1>3 DEF Reject, Return, PoolInv, SubmittedOnce
    <2>2. InHands'
      BY <1>3, HandsStutter DEF Reject, workerVars, PoolInv
    <2> QED
      BY <1>o, <2>1, <2>2 DEF PoolInv
  <1>4. CASE PushFunction(s)
    <2> DEFINE k == task[s]
               w == At(s)
    <2>1. /\ k \in Tasks /\ w \in Workers /\ status[k] = "out"
          /\ fns[w] = << >> /\ wpc[w] = "pop"
      <3>1. pc[s] = "push" /\ pos[s] <= N /\ k \in Tasks
        BY <1>4 DEF PushFunction, TypeInv, TypeOK, ScanInv
      <3>2. w \in Workers /\ Claims(s, w)
        BY <3>1, AtWorker DEF Claims
      <3> QED
        BY <3>1, <3>2 DEF ChainInv, ClaimInv, PoolInv, SubmittedOnce
    <2>2. /\ fns' = [fns EXCEPT ![w] = << k >>]
          /\ status' = [status EXCEPT ![k] = "accepted"]
          /\ task' = [task EXCEPT ![s] = Null]
          /\ UNCHANGED <<wpc, func>>
      <3>1. Append(<< >>, k) = << k >>
        BY <2>1
      <3>2. fns' = [fns EXCEPT ![w] = Append(fns[w], k)]
        BY <1>4 DEF PushFunction
      <3> QED
        BY <1>4, <2>1, <3>1, <3>2 DEF PushFunction, Return, workerVars
    <2>3. SubmittedOnce'
      BY <1>t, <2>1, <2>2 DEF PoolInv, SubmittedOnce
    <2>4. \A v \in Workers, j \in Tasks : Has(v, j) => j # k /\ v # w
      BY <2>1 DEF PoolInv, InHands, Has
    <2> HIDE DEF k, w
    <2>5. ASSUME NEW v \in Workers, NEW j \in Tasks
          PROVE  Has(v, j)' <=> Has(v, j) \/ (v = w /\ j = k)
      <3>1. CASE v = w
        <4>1. fns'[v] = << k >> /\ wpc'[v] \notin {"call", "run"}
          BY <1>t, <2>1, <2>2, <3>1
        <4>2. ~Has(v, j)
          BY <2>4, <3>1
        <4>3. fns'[v] = << j >> <=> j = k
          BY <4>1, OneTask, Zenon
        <4> QED
          BY <3>1, <4>1, <4>2, <4>3, Zenon DEF Has
      <3>2. CASE v # w
        BY <1>t, <2>2, <3>2 DEF Has
      <3> QED
        BY <3>1, <3>2
    <2>6. InHands'
      BY <1>t, <2>1, <2>2, <2>4, <2>5 DEF PoolInv, InHands
    <2> QED
      BY <1>o, <2>3, <2>6 DEF PoolInv
  <1> QED
    BY <1>1, <1>2, <1>3, <1>4 DEF SubmitStep

LEMMA PoolWorker ==
    ASSUME TypeInv, ChainInv, PoolInv, NEW w \in Workers, WorkerStep(w) \/ Finish(w)
    PROVE  PoolInv'
  <1>t. /\ wpc \in [Workers -> {"pop", "call", "run", "clear", "unlock"}]
        /\ func \in [Workers -> Tasks \cup {Null}]
        /\ fns \in [Workers -> Seq(Tasks)]
        /\ status \in [Tasks -> {"out", "accepted", "running"}]
        /\ Null \notin Tasks
    BY NullAssumption DEF TypeInv, TypeOK
  <1>o. OfPools'
    <2>1. UNCHANGED <<instance, created, pc, pool>> /\ locked' \subseteq locked
      BY DEF WorkerStep, Pop, Invoke, ClearData, Unlock, Finish
    <2> QED
      BY <2>1 DEF PoolInv, OfPools
  <1>k. UNCHANGED task
    BY DEF WorkerStep, Pop, Invoke, ClearData, Unlock, Finish
  <1> USE DEF WorkerGoto
  <1>1. CASE Pop(w)
    <2>1. fns[w] = << data[w] >> /\ wpc[w] = "pop"
      BY <1>1 DEF Pop, ChainInv, QueueInv
    <2>2. /\ fns' = [fns EXCEPT ![w] = << >>] /\ func' = [func EXCEPT ![w] = data[w]]
          /\ wpc' = [wpc EXCEPT ![w] = "call"] /\ UNCHANGED status
      BY <1>1, <2>1 DEF Pop
    <2>3. ASSUME NEW v \in Workers, NEW j \in Tasks PROVE Has(v, j)' <=> Has(v, j)
      <3>1. CASE v = w
        <4>1. /\ fns'[v] = << >> /\ wpc'[v] \in {"call", "run"}
              /\ func'[v] = data[v] /\ fns[v] = << data[v] >>
              /\ wpc[v] \notin {"call", "run"}
          BY <1>t, <2>1, <2>2, <3>1
        <4>2. fns'[v] # << j >> /\ (fns[v] = << j >> <=> data[v] = j)
          BY <4>1, OneTask, Zenon
        <4> QED
          BY <4>1, <4>2, Zenon DEF Has
      <3>2. CASE v # w
        BY <1>t, <2>2, <3>2 DEF Has
      <3> QED
        BY <3>1, <3>2
    <2>4. InHands'
      BY <1>t, <2>1, <2>2, <2>3 DEF PoolInv, InHands
    <2> QED
      BY <1>o, <1>k, <2>2, <2>4 DEF PoolInv, SubmittedOnce
  <1>2. CASE Invoke(w)
    <2>1. func[w] \in Tasks /\ wpc[w] = "call" /\ Has(w, func[w])
      BY <1>2 DEF Invoke, TypeInv, ScanInv, Has
    <2>2. /\ wpc' = [wpc EXCEPT ![w] = "run"]
          /\ status' = [status EXCEPT ![func[w]] = "running"]
          /\ UNCHANGED <<fns, func>>
      BY <1>2 DEF Invoke
    <2>3. \A v \in Workers, j \in Tasks : Has(v, j)' <=> Has(v, j)
      BY <1>t, <2>1, <2>2 DEF Has
    <2>4. fns[w] = << >> /\ \A j \in Tasks : Has(w, j) => j = func[w]
      BY <2>1 DEF ChainInv, QueueInv, Has
    <2>5. InHands'
      <3>1. \A v \in Workers : Has(v, func[w]) => v = w
        BY <2>1 DEF PoolInv, InHands
      <3>2. ASSUME NEW v \in Workers, NEW j \in Tasks, Has(v, j)
            PROVE  status'[j] = IF wpc'[v] = "run" THEN "running" ELSE "accepted"
        <4>1. CASE v = w
          BY <1>t, <2>1, <2>2, <2>4, <3>2, <4>1
        <4>2. CASE v # w
          BY <1>t, <2>2, <3>1, <3>2, <4>2 DEF PoolInv, InHands
        <4> QED
          BY <4>1, <4>2
      <3>3. \A j \in Tasks : status'[j] # "out" => status[j] # "out"
        BY <1>t, <2>1, <2>2 DEF PoolInv, InHands
      <3> QED
        BY <2>3, <3>2, <3>3 DEF PoolInv, InHands
    <2>6. SubmittedOnce'
      BY <1>t, <1>k, <2>1, <2>2 DEF PoolInv, SubmittedOnce, InHands
    <2> QED
      BY <1>o, <2>5, <2>6 DEF PoolInv
  <1>3. CASE Finish(w)
    <2>1. func[w] \in Tasks /\ wpc[w] = "run" /\ Has(w, func[w]) /\ fns[w] = << >>
      BY <1>3 DEF Finish, TypeInv, ScanInv, Has, ChainInv, QueueInv
    <2>2. /\ wpc' = [wpc EXCEPT ![w] = "clear"] /\ func' = [func EXCEPT ![w] = Null]
          /\ status' = [status EXCEPT ![func[w]] = "out"]
          /\ UNCHANGED fns
      BY <1>3 DEF Finish
    <2>3. ASSUME NEW v \in Workers, NEW j \in Tasks
          PROVE  Has(v, j)' <=> Has(v, j) /\ v # w
      <3>1. CASE v = w
        <4>1. fns'[v] = << >> /\ wpc'[v] \notin {"call", "run"}
          BY <1>t, <2>1, <2>2, <3>1
        <4> QED
          BY <3>1, <4>1, OneTask, Zenon DEF Has
      <3>2. CASE v # w
        BY <1>t, <2>2, <3>2 DEF Has
      <3> QED
        BY <3>1, <3>2
    <2>4. \A v \in Workers : Has(v, func[w]) => v = w
      BY <2>1 DEF PoolInv, InHands
    <2>5. InHands'
      <3>1. \A v \in Workers : v # w => wpc'[v] = wpc[v]
        BY <1>t, <2>2
      <3>2. \A j \in Tasks : j # func[w] => status'[j] = status[j]
        BY <1>t, <2>2
      <3>3. ASSUME NEW v \in Workers, NEW j \in Tasks, Has(v, j)'
            PROVE  status'[j] = IF wpc'[v] = "run" THEN "running" ELSE "accepted"
        <4>1. Has(v, j) /\ v # w /\ j # func[w]
          BY <2>3, <2>4, <3>3
        <4> QED
          BY <3>1, <3>2, <4>1 DEF PoolInv, InHands
      <3>4. ASSUME NEW j \in Tasks, status'[j] # "out"
            PROVE  \E v \in Workers : Has(v, j)'
        <4>1. j # func[w] /\ status[j] # "out"
          BY <1>t, <2>1, <2>2, <3>2, <3>4
        <4>2. PICK v \in Workers : Has(v, j)
          BY <4>1 DEF PoolInv, InHands
        <4>3. v # w
          BY <2>1, <4>1, <4>2, OneTask DEF Has
        <4> QED
          BY <2>3, <4>2, <4>3
      <3> QED
        BY <2>3, <3>3, <3>4 DEF PoolInv, InHands
    <2>6. SubmittedOnce'
      BY <1>t, <1>k, <2>1, <2>2 DEF PoolInv, SubmittedOnce
    <2> QED
      BY <1>o, <2>5, <2>6 DEF PoolInv
  <1>4. CASE ClearData(w) \/ Unlock(w)
    <2>1. /\ wpc[w] \notin {"call", "run"} /\ wpc'[w] \notin {"call", "run"}
          /\ \A v \in Workers : v # w => wpc'[v] = wpc[v]
          /\ UNCHANGED <<fns, func, status>>
      BY <1>t, <1>4 DEF ClearData, Unlock
    <2>2. \A v \in Workers, j \in Tasks : Has(v, j)' <=> Has(v, j)
      BY <2>1 DEF Has
    <2>3. InHands'
      BY <2>1, <2>2 DEF PoolInv, InHands
    <2> QED
      BY <1>o, <1>k, <2>1, <2>3 DEF PoolInv, SubmittedOnce
  <1> QED
    BY <1>1, <1>2, <1>3, <1>4 DEF WorkerStep

LEMMA PoolInvariant == Spec => []PoolInv
  <1>1. TypeInv /\ ChainInv /\ PoolInv /\ [Next]_vars => PoolInv'
    <2>1. PoolInv /\ UNCHANGED vars => PoolInv'
      BY DEF vars, workerVars, PoolInv, SubmittedOnce, InHands, OfPools, Has
    <2> QED
      BY <2>1, PoolSubmit, PoolWorker DEF Next
  <1> QED
    BY <1>1, PoolInit, TypeInvariant, ChainInvariant, PTL DEF Spec

-----------------------------------------------------------------------------
TasksIn == {k \in Tasks : status[k] # "out"}

\* With a worker that has no task, there are more workers than tasks.
LEMMA RoomForOne ==
    ASSUME TypeInv, ChainInv, PoolInv, NEW s \in Actors, pc[s] = "push"
    PROVE  Cardinality(TasksIn) < N * Cardinality(created)
  <1> DEFINE w == At(s)
             Crew == created \X (1 .. N)
             f == [k \in TasksIn |-> CHOOSE v \in Workers : Has(v, k)]
  <1>1. /\ w \in Workers /\ w \in locked /\ fns[w] = << >> /\ wpc[w] = "pop"
    <2>1. pos[s] <= N
      BY DEF TypeInv, TypeOK, ScanInv
    <2>2. w \in Workers /\ Claims(s, w)
      BY <2>1, AtWorker DEF Claims
    <2> QED
      BY <2>2 DEF ChainInv, ClaimInv
  <1>2. w \in Crew
    BY <1>1 DEF PoolInv, OfPools
  <1>3. /\ IsFiniteSet(Crew) /\ N \in Nat \ {0} /\ Cardinality(created) \in Nat
        /\ Cardinality(Crew) = Cardinality(created) * N
    <2>1. N \in Int /\ 1 \in Int /\ N \in Nat \ {0}
      BY CountAssumption
    <2>2. IsFiniteSet(1 .. N) /\ Cardinality(1 .. N) = N
      BY <2>1, FS_Interval
    <2>3. IsFiniteSet(created)
      BY DEF PoolInv, OfPools
    <2> QED
      BY <2>1, <2>2, <2>3, FS_Product, FS_CardinalityType
  <1>4. /\ IsFiniteSet(Crew \ {w})
        /\ Cardinality(Crew \ {w}) = Cardinality(Crew) - 1
    BY <1>2, <1>3, FS_RemoveElement
  <1>5. ASSUME NEW k \in TasksIn
        PROVE  f[k] \in Workers /\ Has(f[k], k) /\ f[k] \in Crew \ {w}
    <2>1. \E v \in Workers : Has(v, k)
      BY DEF TasksIn, PoolInv, InHands
    <2>2. f[k] \in Workers /\ Has(f[k], k)
      BY <2>1
    <2>3. f[k] \in locked
      BY <2>2 DEF Has, ChainInv, QueueInv
    <2>4. f[k] # w
      <3> HIDE DEF f, w
      <3> QED
        BY <1>1, <2>2, OneTask DEF Has
    <2> QED
      BY <2>2, <2>3, <2>4 DEF PoolInv, OfPools
  <1>6. ASSUME NEW j \in TasksIn, NEW k \in TasksIn, f[j] = f[k] PROVE j = k
    <2>1. f[j] \in Workers /\ Has(f[j], j) /\ Has(f[j], k)
      BY <1>5, <1>6
    <2>2. fns[f[j]] # << >> => wpc[f[j]] \notin {"call", "run"}
      BY <2>1 DEF ChainInv, QueueInv
    <2> HIDE DEF f
    <2> QED
      BY <2>1, <2>2, OneTask, Zenon DEF Has
  <1>7. f \in Injection(TasksIn, Crew \ {w})
    BY <1>5, <1>6 DEF Injection, IsInjective
  <1>8. Cardinality(TasksIn) <= Cardinality(Crew \ {w})
    BY <1>4, <1>7, FS_Injection
  <1>9. IsFiniteSet(TasksIn)
    BY <1>4, <1>7, FS_Injection
  <1>10. Cardinality(TasksIn) \in Nat /\ Cardinality(Crew) \in Nat
    BY <1>3, <1>9, FS_CardinalityType
  <1> QED
    BY <1>3, <1>4, <1>8, <1>10

LEMMA PoolSteps ==
    ASSUME TypeInv, ChainInv, PoolInv, [Next]_vars
    PROVE  [Abstract!Next]_<<N * Cardinality(created), status>>
  <1> USE DEF Abstract!Next
  <1>1. ASSUME UNCHANGED <<created, status>>
        PROVE  UNCHANGED <<N * Cardinality(created), status>>
    BY <1>1
  <1>2. ASSUME NEW s \in Actors, CreatePool(s)
        PROVE  \/ Abstract!Hire
               \/ UNCHANGED <<N * Cardinality(created), status>>
    <2>1. created' = created \cup {s} /\ UNCHANGED status
      BY <1>2 DEF CreatePool
    <2>2. IsFiniteSet(created)
      BY DEF PoolInv, OfPools
    <2>3. /\ Cardinality(created) \in Nat /\ N \in Nat \ {0}
          /\ Cardinality(created') =
               IF s \in created THEN Cardinality(created) ELSE Cardinality(created) + 1
      BY <2>1, <2>2, FS_AddElement, FS_CardinalityType, CountAssumption
    <2>4. CASE s \in created
      BY <2>1, <2>4, <1>1
    <2>5. CASE s \notin created
      <3>1. \A c \in Nat : N * (c + 1) \in Nat /\ N * (c + 1) > N * c
        BY <2>3
      <3>2. /\ N * Cardinality(created)' \in Nat
            /\ N * Cardinality(created)' > N * Cardinality(created)
        BY <2>3, <2>5, <3>1
      <3> QED
        BY <2>1, <3>2 DEF Abstract!Hire
    <2> QED
      BY <2>4, <2>5
  <1>3. ASSUME NEW s \in Actors, PushFunction(s)
        PROVE  \E k \in Tasks : Abstract!Accept(k)
    <2>1. /\ task[s] \in Tasks /\ pc[s] = "push"
          /\ status' = [status EXCEPT ![task[s]] = "accepted"]
          /\ UNCHANGED created
      BY <1>3 DEF PushFunction, TypeInv, ScanInv
    <2>2. status[task[s]] = "out"
      BY <2>1 DEF PoolInv, SubmittedOnce
    <2>3. Cardinality(TasksIn) < N * Cardinality(created)
      BY <2>1, RoomForOne
    <2>4. Abstract!Accept(task[s])
      <3>1. Abstract!Cardinality(Abstract!InPool) < N * Cardinality(created)
        <4>1. \A S : Abstract!Cardinality(S) = Cardinality(S)
          BY Zenon DEF Cardinality, Abstract!Cardinality, IsFiniteSet,
                       Abstract!IsFiniteSet
        <4> QED
          BY <2>3, <4>1, Zenon DEF Abstract!InPool, TasksIn
      <3>2. N * Cardinality(created)' = N * Cardinality(created)
        BY <2>1
      <3> QED
        BY <2>1, <2>2, <3>1, <3>2 DEF Abstract!Accept, Abstract!Move
    <2> QED
      BY <2>1, <2>4
  <1>4. ASSUME NEW w \in Workers, Invoke(w)
        PROVE  \E k \in Tasks : Abstract!Start(k)
    <2>1. /\ func[w] \in Tasks /\ wpc[w] = "call" /\ Has(w, func[w])
          /\ status' = [status EXCEPT ![func[w]] = "running"]
          /\ UNCHANGED created
      BY <1>4 DEF Invoke, WorkerGoto, TypeInv, ScanInv, Has
    <2>2. status[func[w]] = "accepted"
      BY <2>1 DEF PoolInv, InHands
    <2> QED
      BY <2>1, <2>2 DEF Abstract!Start, Abstract!Move
  <1>5. ASSUME NEW w \in Workers, Finish(w)
        PROVE  \E k \in Tasks : Abstract!End(k)
    <2>1. /\ func[w] \in Tasks /\ wpc[w] = "run" /\ Has(w, func[w])
          /\ status' = [status EXCEPT ![func[w]] = "out"]
          /\ UNCHANGED created
      BY <1>5 DEF Finish, WorkerGoto, TypeInv, ScanInv, Has
    <2>2. status[func[w]] = "running"
      BY <2>1 DEF PoolInv, InHands
    <2> QED
      BY <2>1, <2>2 DEF Abstract!End, Abstract!Move
  <1>6. ASSUME NEW s \in Actors,
               \/ \E k \in Tasks : Run(s, k)
               \/ TestInstance(s) \/ StoreInstance(s) \/ FetchInstance(s)
               \/ TryLock(s) \/ NextWorker(s) \/ Reject(s) \/ SetData(s)
        PROVE  UNCHANGED <<created, status>>
    BY <1>6
    DEF Run, TestInstance, StoreInstance, FetchInstance, TryLock, NextWorker,
        Reject, SetData
  <1>7. ASSUME NEW w \in Workers, Pop(w) \/ ClearData(w) \/ Unlock(w)
        PROVE  UNCHANGED <<created, status>>
    BY <1>7 DEF Pop, ClearData, Unlock
  <1>8. CASE UNCHANGED vars
    BY <1>1, <1>8 DEF vars
  <1> QED
    BY <1>1, <1>2, <1>3, <1>4, <1>5, <1>6, <1>7, <1>8
    DEF Next, SubmitStep, WorkerStep

\* Whatever clients submit at the same time and however often the race for the
\* static pool is lost (cf_threadpool.c), an accepted task is executed once and
\* by a worker of its own: there are never more of them than workers.
THEOREM PoolIsTaskPool == Spec => ImplementsTaskPool
  <1>1. Init => Abstract!Init
    BY FS_EmptySet, CountAssumption DEF Init, Abstract!Init
  <1>2. TypeInv /\ ChainInv /\ PoolInv /\ [Next]_vars
          => [Abstract!Next]_<<N * Cardinality(created), status>>
    BY PoolSteps
  <1> QED
    BY <1>1, <1>2, TypeInvariant, ChainInvariant, PoolInvariant, PTL
    DEF Spec, ImplementsTaskPool, Abstract!Spec, Abstract!poolVars
=============================================================================
