------------------------------- MODULE CfList -------------------------------
(***************************************************************************)
(* The doubly linked list of src/cf_collection/cf_list.c and its iterator. *)
(* Nodes are cells with a next and a pre pointer behind a sentinel Root;   *)
(* `used' holds the cells that are allocated.  One thread works on a list  *)
(* at a time, with one iterator; taking an item from the front ends a walk.*)
(* order, the nodes of the list from first to last, is no part of the code:*)
(* Linked says that the pointers describe it.                              *)
(***************************************************************************)
EXTENDS Integers, Sequences

CONSTANTS Nodes,  \* the cells that can be allocated: a bound of the model
          Root,   \* the sentinel
          Items,  \* the data, other than NULL
          Nil     \* NULL

VARIABLES used, data, next, pre, tail, length, iter, clearing, order

vars == <<used, data, next, pre, tail, length, iter, clearing, order>>

Cells == Nodes \cup {Root}

Init == /\ used = {} /\ order = <<>>
        /\ data = [c \in Cells |-> Nil]
        /\ next = [c \in Cells |-> Nil]
        /\ pre = [c \in Cells |-> Nil]
        /\ tail = Root /\ length = 0
        /\ iter = Nil /\ clearing = FALSE

\* Data may be NULL, which a client is free to push.
Push(n, d) == /\ ~clearing
              /\ n \notin used
              /\ used' = used \cup {n}
              /\ data' = [data EXCEPT ![n] = d]
              /\ pre' = [pre EXCEPT ![n] = tail]
              /\ next' = [next EXCEPT ![n] = Nil, ![tail] = n]
              /\ tail' = n
              /\ length' = length + 1
              /\ order' = Append(order, n)
              /\ UNCHANGED <<iter, clearing>>

\* Unlink and free the first node.
Take == /\ length > 0
        /\ LET node == next[Root] IN
             /\ next' = [next EXCEPT ![Root] = next[node]]
             /\ pre' = IF next[node] = Nil THEN pre
                       ELSE [pre EXCEPT ![next[node]] = Root]
             /\ used' = used \ {node}
        /\ length' = length - 1
        /\ tail' = IF length = 1 THEN Root ELSE tail
        /\ order' = Tail(order)
        /\ iter' = Nil
        /\ data' = data

TakeFront == ~clearing /\ Take /\ UNCHANGED clearing

\* cf_list_clear takes from the front until it takes NULL, which an empty list
\* gives and a NULL that was pushed.
Clear == /\ ~clearing /\ clearing' = TRUE
         /\ UNCHANGED <<used, data, next, pre, tail, length, iter, order>>

ClearTake == clearing /\ Take /\ clearing' = (data[next[Root]] # Nil)

ClearEnd == /\ clearing /\ length = 0 /\ clearing' = FALSE
            /\ UNCHANGED <<used, data, next, pre, tail, length, iter, order>>

Begin == /\ ~clearing /\ iter' = next[Root]
         /\ UNCHANGED <<used, data, next, pre, tail, length, clearing, order>>

Advance == /\ ~clearing /\ iter # Nil /\ iter' = next[iter]
           /\ UNCHANGED <<used, data, next, pre, tail, length, clearing, order>>

\* order without its i-th node.
Without(i) ==
  [j \in 1 .. Len(order) - 1 |-> order[IF j < i THEN j ELSE j + 1]]

\* The tail after the node under the iterator is removed.
TailAfter == IF length = 1 THEN Root ELSE IF tail = iter THEN pre[iter] ELSE tail

\* Where the iterator goes from a node that is removed: back, so that advancing it
\* reaches the node behind.
StepOn == next[iter]
StepBack == pre[iter]

\* The node is unlinked and the iterator steps back; the cell is not freed.
Remove == /\ ~clearing /\ iter \in Nodes
          /\ next' = [next EXCEPT ![pre[iter]] = next[iter]]
          /\ pre' = IF next[iter] = Nil THEN pre
                    ELSE [pre EXCEPT ![next[iter]] = pre[iter]]
          /\ iter' = StepBack
          /\ tail' = TailAfter
          /\ length' = length - 1
          /\ order' = Without(CHOOSE i \in 1 .. length : order[i] = iter)
          /\ UNCHANGED <<used, data, clearing>>

Next == \/ TakeFront \/ Clear \/ ClearTake \/ ClearEnd
        \/ Begin \/ Advance \/ Remove
        \/ \E n \in Nodes, d \in Items \cup {Nil} : Push(n, d)

Spec == Init /\ [][Next]_vars

-----------------------------------------------------------------------------
\* The pointers run through the nodes of the list in both directions, between
\* the sentinel and NULL; the length counts them, the tail is the last one, all
\* of them are allocated, and the iterator stands on one of them or on the
\* sentinel: no walk reaches a cell that was freed.
At(i) == IF i = 0 THEN Root ELSE order[i]

Linked == /\ length = Len(order)
          /\ tail = At(length)
          /\ next[tail] = Nil
          /\ \A i \in 1 .. length : /\ order[i] \in used
                                    /\ next[At(i - 1)] = order[i]
                                    /\ pre[order[i]] = At(i - 1)
          /\ \A i, j \in 1 .. length : order[i] = order[j] => i = j
          /\ iter # Nil => \E i \in 0 .. length : iter = At(i)

\* The list is a sequence with a position: an item is taken in the order of the
\* pushes, a walk passes every item once though items are removed under it.
Walk == INSTANCE ListWalk WITH
          Items <- Items \cup {Nil},
          items <- [i \in 1 .. length |-> data[order[i]]],
          at <- IF iter = Nil THEN -1 ELSE CHOOSE i \in 0 .. length : iter = At(i)
ImplementsWalk == Walk!Spec

\* The pointers describe the nodes, and the list with its iterator is a sequence
\* with a position.
ListIsWalk == []Linked /\ ImplementsWalk
=============================================================================
