------------------------------ MODULE TaskPool ------------------------------
(***************************************************************************)
(* What cf_threadpool_run promises: a task it accepts is executed once, by *)
(* a worker of its own, and no task waits behind another one: there are    *)
(* never more accepted tasks than workers.                                 *)
(***************************************************************************)
EXTENDS Integers, FiniteSets

CONSTANT Tasks      \* the pairs of a function and its argument

VARIABLES
    workers,        \* how many worker threads there are
    status          \* of each task: outside the pool, accepted or running

poolVars == <<workers, status>>

InPool == {k \in Tasks : status[k] # "out"}

Init == workers = 0 /\ status = [k \in Tasks |-> "out"]

Hire ==
    /\ workers' \in Nat /\ workers' > workers
    /\ UNCHANGED status

Move(k, from, to) ==
    /\ status[k] = from
    /\ status' = [status EXCEPT ![k] = to]
    /\ UNCHANGED workers

Accept(k) == Cardinality(InPool) < workers /\ Move(k, "out", "accepted")
Start(k) == Move(k, "accepted", "running")
End(k) == Move(k, "running", "out")

Next == Hire \/ \E k \in Tasks : Accept(k) \/ Start(k) \/ End(k)

Spec == Init /\ [][Next]_poolVars
=============================================================================
