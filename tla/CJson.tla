------------------------------- MODULE CJson -------------------------------
(***************************************************************************)
(* The children of an array or object of src/cf_json/cJSON/cJSON.c, which  *)
(* src/cf_json/cf_json.c wraps: items linked by next and prev from the     *)
(* parent's child.  The prev of the first item is no link of the list: it  *)
(* caches the last item, or is NULL in a list that was parsed, duplicated  *)
(* or made from an array of numbers or strings.                            *)
(***************************************************************************)
EXTENDS Naturals, Sequences, FiniteSets

CONSTANTS Careful, \* the program appends nothing to a list whose last item it has
                   \* detached or replaced: the cache is stale there
          Nodes,   \* the items that can be allocated: a bound of the model
          Names,   \* the keys of an object
          Lower,   \* case_insensitive_strcmp compares these
          Nil      \* NULL

VARIABLES child, next, prev, name,
          loose    \* the items that belong to the program, in no list

vars == <<child, next, prev, name, loose>>

Init == /\ child = Nil /\ loose = {}
        /\ next = [n \in Nodes |-> Nil]
        /\ prev = [n \in Nodes |-> Nil]
        /\ name = [n \in Nodes |-> Nil]

Positions == 1 .. Cardinality(Nodes)

\* The items met by following next from the first: get_array_item.
Reached(first, nxt) ==
  LET at[i \in Positions] ==
        IF i = 1 THEN first ELSE IF at[i - 1] = Nil THEN Nil ELSE nxt[at[i - 1]]
  IN [i \in {j \in Positions : at[j] # Nil} |-> at[i]]

Walk == Reached(child, next)

Listed == {Walk[i] : i \in DOMAIN Walk}

Last == Walk[Len(Walk)]

\* "To find the last item in array quickly, we use prev in array" (cJSON.c:1953):
\* the prev of the first item is the last item, where it is anything.
PrevOfFirstIsLast == child # Nil => prev[child] \in {Nil, Last}

\* get_object_item stops at the first of these: the items with the name, whatever
\* its case, or those with the very name before any item without one.
Named(nm, sensitive) ==
  {i \in DOMAIN Walk :
     IF sensitive THEN name[Walk[i]] = nm /\ \A j \in 1 .. i : name[Walk[j]] # Nil
     ELSE name[Walk[i]] # Nil /\ Lower[name[Walk[i]]] = Lower[nm]}

First(S) == CHOOSE i \in S : \A j \in S : i <= j

\* cJSON_New_Item clears an item that was not allocated.
New(n) == /\ n \notin loose \cup Listed
          /\ next' = [next EXCEPT ![n] = Nil]
          /\ prev' = [prev EXCEPT ![n] = Nil]

\* cJSON_CreateNull, cJSON_CreateString and the other constructors of one item,
\* whose type and value are not told apart.
Create(n) == /\ New(n) /\ loose' = loose \cup {n}
             /\ name' = [name EXCEPT ![n] = Nil]
             /\ UNCHANGED child

\* A list of new items with these names, whose first has no prev.
Fill(s, names) ==
  /\ child = Nil /\ s # <<>>
  /\ {s[i] : i \in DOMAIN s} \cap loose = {}
  /\ \A i, j \in DOMAIN s : s[i] = s[j] => i = j
  /\ child' = s[1]
  /\ LET at(n) == CHOOSE i \in DOMAIN s : s[i] = n
         new == {s[i] : i \in DOMAIN s}
     IN /\ next' = [n \in Nodes |-> IF n \in new \ {s[Len(s)]} THEN s[at(n) + 1] ELSE Nil]
        /\ prev' = [n \in Nodes |-> IF n \in new \ {s[1]} THEN s[at(n) - 1] ELSE Nil]
        /\ name' = [n \in Nodes |-> IF n \in new THEN names[at(n)] ELSE name[n]]
  /\ UNCHANGED loose

\* cJSON_CreateIntArray, ..FloatArray, ..DoubleArray and ..StringArray.
CreateArray(s) == Fill(s, [i \in DOMAIN s |-> Nil])

\* cJSON_Duplicate of another array or object; cJSON_Parse links its items so too.
Duplicate(s, names) == Fill(s, names)

\* The item that a new one is put behind.
Behind == IF prev[child] # Nil THEN prev[child] ELSE Last

\* add_item_to_array
Link(n) ==
  \/ /\ child = Nil /\ child' = n
     /\ prev' = [prev EXCEPT ![n] = n]
     /\ next' = [next EXCEPT ![n] = Nil]
  \/ /\ child # Nil
     /\ Careful => PrevOfFirstIsLast
     /\ next' = [next EXCEPT ![Behind] = n]
     /\ prev' = [prev EXCEPT ![n] = Behind, ![child] = n]
     /\ UNCHANGED child

AddToArray(n) == n \in loose /\ Link(n) /\ loose' = loose \ {n} /\ UNCHANGED name

AddToObject(n, nm) == /\ n \in loose /\ Link(n) /\ loose' = loose \ {n}
                      /\ name' = [name EXCEPT ![n] = nm]

\* cJSON_AddNullToObject, cJSON_AddStringToObject and so on: a new item is added,
\* or deleted again.
AddNewToObject(n, nm) == /\ n \notin loose \cup Listed
                         /\ Link(n) /\ name' = [name EXCEPT ![n] = nm]
                         /\ UNCHANGED loose

\* cJSON_InsertItemInArray before the item at position i, which adds behind the
\* last when there is no such item.
InsertInArray(i, n) ==
  IF i > Len(Walk) THEN AddToArray(n)
  ELSE LET after == Walk[i] IN
       /\ n \in loose /\ loose' = loose \ {n}
       /\ prev' = [prev EXCEPT ![n] = prev[after], ![after] = n]
       /\ IF after = child
          THEN child' = n /\ next' = [next EXCEPT ![n] = after]
          ELSE /\ next' = [next EXCEPT ![n] = after, ![prev[after]] = n]
               /\ UNCHANGED child
       /\ UNCHANGED name

\* cJSON_DetachItemViaPointer
UnlinkForward(n) ==
  /\ child' = IF n = child THEN next[n] ELSE child
  /\ next' = IF n = child THEN [next EXCEPT ![n] = Nil]
             ELSE [next EXCEPT ![prev[n]] = next[n], ![n] = Nil]
  /\ prev' = [prev EXCEPT ![n] = Nil]
  /\ UNCHANGED name
Unlink(n) ==
  /\ child' = IF n = child THEN next[n] ELSE child
  /\ next' = IF n = child THEN [next EXCEPT ![n] = Nil]
             ELSE [next EXCEPT ![prev[n]] = next[n], ![n] = Nil]
  /\ prev' = IF next[n] = Nil THEN [prev EXCEPT ![n] = Nil]
             ELSE [prev EXCEPT ![next[n]] = prev[n], ![n] = Nil]
  /\ UNCHANGED name

\* The item at a position or with a name is detached, and deleted if drop.
Detach(i, drop) == /\ Unlink(Walk[i])
                   /\ loose' = IF drop THEN loose ELSE loose \cup {Walk[i]}

DetachNamed(nm, sensitive, drop) ==
  Named(nm, sensitive) # {} /\ Detach(First(Named(nm, sensitive)), drop)

\* cJSON_ReplaceItemViaPointer: the replaced item is deleted.
Supplant(old, n) ==
  /\ n \in loose /\ loose' = loose \ {n}
  /\ child' = IF child = old THEN n ELSE child
  /\ next' = [m \in Nodes |-> CASE m = n -> next[old]
                                [] m = old -> Nil
                                [] child # old /\ prev[old] = m -> n
                                [] OTHER -> next[m]]
  /\ prev' = [m \in Nodes |-> CASE m = n -> prev[old]
                                [] m = old -> Nil
                                [] next[old] = m -> n
                                [] OTHER -> prev[m]]

Replace(i, n) == Supplant(Walk[i], n) /\ UNCHANGED name

\* replace_item_in_object renames the replacement though nothing is replaced.
ReplaceNamed(nm, sensitive, n) ==
  /\ n \in loose
  /\ name' = [name EXCEPT ![n] = nm]
  /\ IF Named(nm, sensitive) = {} THEN UNCHANGED <<child, next, prev, loose>>
     ELSE Supplant(Walk[First(Named(nm, sensitive))], n)

\* cJSON_Delete of the parent, which starts again empty, or of an item.
Delete == /\ child # Nil /\ child' = Nil
          /\ next' = [n \in Nodes |-> Nil]
          /\ prev' = [n \in Nodes |-> Nil]
          /\ name' = [n \in Nodes |-> IF n \in loose THEN name[n] ELSE Nil]
          /\ UNCHANGED loose
DeleteItem(n) == /\ n \in loose /\ loose' = loose \ {n}
                 /\ UNCHANGED <<child, next, prev, name>>

Next ==
  \/ Delete
  \/ \E k \in Positions : \E s \in [1 .. k -> Nodes] :
       CreateArray(s) \/ \E names \in [1 .. k -> Names] : Duplicate(s, names)
  \/ \E n \in Nodes : \/ Create(n) \/ DeleteItem(n) \/ AddToArray(n)
                      \/ \E i \in Positions : InsertInArray(i, n)
                      \/ \E i \in DOMAIN Walk : Replace(i, n)
                      \/ \E nm \in Names : \/ AddToObject(n, nm) \/ AddNewToObject(n, nm)
                                          \/ \E b \in BOOLEAN : ReplaceNamed(nm, b, n)
  \/ \E drop \in BOOLEAN : \/ \E i \in DOMAIN Walk : Detach(i, drop)
                           \/ \E nm \in Names, b \in BOOLEAN : DetachNamed(nm, b, drop)

Spec == Init /\ [][Next]_vars

-----------------------------------------------------------------------------
List == INSTANCE ItemList WITH Items <- Nodes, items <- Walk, mine <- loose

\* However the list came to be, every call changes it at the one place it names,
\* loses, repeats or reorders nothing, and leaves every item with one owner; a call
\* that leaves the cached last item stale has taken the last item out of the list.
ImplementsItemList == List!Spec
StaleOnlyAfterLast ==
  [][PrevOfFirstIsLast /\ ~PrevOfFirstIsLast' => Last \notin Listed']_vars
JsonIsItemList == ImplementsItemList /\ StaleOnlyAfterLast
=============================================================================
