------------------------------- MODULE CfHash -------------------------------
(***************************************************************************)
(* The hash table of src/cf_collection/cf_hash.c.  A bucket is free, holds *)
(* one item, or is marked as in conflict and holds a list of items in      *)
(* place of the value.  A bit array is the set of the buckets whose bit is *)
(* on.  The keys and values that the table holds are freed with it.        *)
(***************************************************************************)
EXTENDS Naturals, Sequences, FiniteSets

CONSTANTS Keys, Values, Width,
          Hash,     \* m_hash_func, a function from Keys to 0 .. Width - 1
          Absent    \* no value: the error -1 of cf_hash_get

VARIABLES usedFlag, conflictFlag, item, chain, deleted

vars == <<usedFlag, conflictFlag, item, chain, deleted>>

Buckets == 0 .. Width - 1

NoItem == [key |-> Absent, value |-> Absent]

Item(k, v) == [key |-> k, value |-> v]

Init == /\ usedFlag = {} /\ conflictFlag = {}
        /\ item = [b \in Buckets |-> NoItem]
        /\ chain = [b \in Buckets |-> <<>>]
        /\ deleted = [k \in Keys |-> 0]

Alive == deleted = [k \in Keys |-> 0]

\* The items of a chain with key k, by position.
Found(b, k) == {i \in DOMAIN chain[b] : chain[b][i].key = k}

\* The walk of a chain stops at the first item with the key.
FirstIn(S) == CHOOSE i \in S : \A j \in S : i <= j

InsertFree(b, k, v) ==
  /\ b \notin usedFlag
  /\ usedFlag' = usedFlag \cup {b}
  /\ item' = [item EXCEPT ![b] = Item(k, v)]
  /\ UNCHANGED <<conflictFlag, chain>>

Replace(b, k, v) ==
  /\ b \in usedFlag \ conflictFlag
  /\ item[b].key = k
  /\ item' = [item EXCEPT ![b].value = v]
  /\ UNCHANGED <<usedFlag, conflictFlag, chain>>

\* The list of a bucket that gets a second key holds the old item and the new.
OnlyNewItem(b, k, v) == <<Item(k, v)>>
BothItems(b, k, v) == <<item[b], Item(k, v)>>

\* The second key of a bucket.
Split(b, k, v) ==
  /\ b \in usedFlag \ conflictFlag
  /\ item[b].key # k
  /\ conflictFlag' = conflictFlag \cup {b}
  /\ chain' = [chain EXCEPT ![b] = BothItems(b, k, v)]
  /\ UNCHANGED <<usedFlag, item>>

ReplaceInChain(b, k, v) ==
  /\ b \in conflictFlag
  /\ Found(b, k) # {}
  /\ chain' = [chain EXCEPT ![b][FirstIn(Found(b, k))].value = v]
  /\ UNCHANGED <<usedFlag, conflictFlag, item>>

AppendToChain(b, k, v) ==
  /\ b \in conflictFlag
  /\ Found(b, k) = {}
  /\ chain' = [chain EXCEPT ![b] = Append(@, Item(k, v))]
  /\ UNCHANGED <<usedFlag, conflictFlag, item>>

Insert(k, v) == LET b == Hash[k] IN
  /\ Alive /\ UNCHANGED deleted
  /\ \/ InsertFree(b, k, v) \/ Replace(b, k, v) \/ Split(b, k, v)
     \/ ReplaceInChain(b, k, v) \/ AppendToChain(b, k, v)

\* cf_hash_get
Get(k) == LET b == Hash[k] IN
  CASE b \notin usedFlag -> Absent
    [] b \in conflictFlag -> IF Found(b, k) = {} THEN Absent
                             ELSE chain[b][FirstIn(Found(b, k))].value
    [] OTHER -> IF item[b].key = k THEN item[b].value ELSE Absent

\* cf_hash_delete frees the keys and values of the buckets in use, those of a
\* bucket in conflict from its list alone.
Delete ==
  /\ Alive /\ usedFlag # {}
  /\ deleted' = [k \in Keys |-> LET b == Hash[k] IN
                   IF b \in conflictFlag THEN Cardinality(Found(b, k))
                   ELSE IF b \in usedFlag /\ item[b].key = k THEN 1 ELSE 0]
  /\ usedFlag' = {} /\ conflictFlag' = {}
  /\ item' = [b \in Buckets |-> NoItem]
  /\ chain' = [b \in Buckets |-> <<>>]

Next == Delete \/ \E k \in Keys, v \in Values : Insert(k, v)

Spec == Init /\ [][Next]_vars

\* Whatever the order of insertions and whichever keys collide, cf_hash_get
\* answers as a map does, and deletion frees every key held exactly once.
Map == INSTANCE KeyMap WITH map <- [k \in Keys |-> Get(k)], released <- deleted
ImplementsMap == Map!Spec
=============================================================================
