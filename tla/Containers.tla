----------------------------- MODULE Containers -----------------------------
(***************************************************************************)
(* The containers of the library side by side, each on state of its own:   *)
(* the list with its iterator, the hash, the dictionary of an ini file and *)
(* the items of a JSON array or object in the hands of a careful program.  *)
(* The module only brings them together and says of each what its users    *)
(* rely on.                                                                *)
(***************************************************************************)
EXTENDS Integers, Sequences, FiniteSets

CONSTANTS Nodes, Root, Data, NoData,                        \* CfList
          HashKeys, HashValues, Width, BucketOf, NotThere,   \* CfHash
          DictKeys, DictValues, DictHash, MinSize, MaxSize, \* Dictionary
          Null, NoKey, Default,
          JsonNodes, Names, LowerName, NoNode               \* CJson

\* The sentinel and NULL are no nodes.
ASSUME ListAssumption == Root \notin Nodes /\ NoData \notin Nodes \cup {Root}

ASSUME HashAssumption == /\ Width \in Nat \ {0}
                         /\ BucketOf \in [HashKeys -> 0 .. Width - 1]
                         /\ NotThere \notin HashValues

\* The default that a program asks with is no value of the dictionary.
ASSUME DictionaryAssumption == /\ MinSize \in Nat \ {0}
                               /\ DictHash \in [DictKeys -> Nat]
                               /\ NoKey \notin DictKeys
                               /\ Default \notin DictValues \cup {Null}

ASSUME JsonAssumption == IsFiniteSet(JsonNodes) /\ NoNode \notin JsonNodes

\* CfList
VARIABLES used, data, next, pre, tail, length, iter, clearing, order
listVars == <<used, data, next, pre, tail, length, iter, clearing, order>>
List == INSTANCE CfList WITH Items <- Data, Nil <- NoData

\* CfHash
VARIABLES usedFlag, conflictFlag, item, chain, freed
tableVars == <<usedFlag, conflictFlag, item, chain, freed>>
Table == INSTANCE CfHash WITH
          Keys <- HashKeys, Values <- HashValues, Hash <- BucketOf, Absent <- NotThere,
          deleted <- freed

\* Dictionary
VARIABLES entries, size, key, val, hash, deleted
dictionaryVars == <<entries, size, key, val, hash, deleted>>
Dict == INSTANCE Dictionary WITH
          Keys <- DictKeys, Values <- DictValues, Hash <- DictHash, Absent <- Default,
          n <- entries

\* CJson
VARIABLES child, sibling, prev, name, loose
jsonVars == <<child, sibling, prev, name, loose>>
Json == INSTANCE CJson WITH
          Careful <- TRUE, Nodes <- JsonNodes, Lower <- LowerName, Nil <- NoNode,
          next <- sibling

-----------------------------------------------------------------------------
\* The pointers of a list describe its nodes, and the list with its iterator is a
\* sequence with a position.
ListIsWalk == List!ListIsWalk

\* Both tables answer as maps do, and a dictionary has a slot for the next entry.
TablesAreMaps == Table!ImplementsMap /\ Dict!ImplementsMap /\ []Dict!SlotLeft

\* An array or object changes at one place at a time, and its cached last item is
\* right as long as the last item is not taken out.
JsonIsItemList == Json!JsonIsItemList
=============================================================================
