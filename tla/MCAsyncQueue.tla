---------------------------- MODULE MCAsyncQueue ----------------------------
(***************************************************************************)
(* Threads, items and uses for model checking AsyncQueue.  Producers are   *)
(* p1 and p2, consumers c1 and c2.         *)
(***************************************************************************)
EXTENDS AsyncQueue, TLC

CONSTANTS p1, p2, c1, c2, a, b

\* One producer and one consumer, as in src/cf_test/test_async_queue.c; the
\* producer may also try to push and ask for the length.
OnePair == p1 :> {"push", "try_push", "length"} @@ c1 :> {"pop"}

\* Producers only push and consumers only pop.
Crowd == [t \in Threads |-> IF t \in {p1, p2} THEN {"push"} ELSE {"pop"}]

\* Everybody does a little of everything.
Bazaar == [t \in Threads |-> CASE t = p1 -> {"push", "try_push"}
                               [] t = p2 -> {"push"}
                               [] t = c1 -> {"pop", "try_pop"}
                               [] OTHER -> {"pop"}]

\* The consumer loop of test_async_queue.c, once or twice.
PairSpec == Spec /\ Fairness({c1})
ConsumersSpec == Spec /\ Fairness({c1, c2})
=============================================================================
