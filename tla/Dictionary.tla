----------------------------- MODULE Dictionary -----------------------------
(***************************************************************************)
(* The table behind an ini file, src/cf_iniparser/iniparser/dictionary.c:  *)
(* arrays of keys, values and hashes that are filled with holes where keys *)
(* were unset, and doubled when the count reaches the size.  An allocation *)
(* may fail: the table then stays as it is, an entry stays without a value *)
(* or, when its key is the string that was not copied, does not come to be *)
(* although it is counted.                                                 *)
(***************************************************************************)
EXTENDS Naturals, FiniteSets

CONSTANTS Keys, Values,
          Hash,      \* dictionary_hash, a function from Keys to numbers
          MinSize,   \* DICTMINSZ
          MaxSize,   \* calloc fails for longer arrays: a bound of the model
          Null,      \* NULL as a value: the entry of a section
          NoKey,     \* NULL as a key: an empty slot
          Absent     \* the default that dictionary_get is given

VARIABLES n, size, key, val, hash, deleted

vars == <<n, size, key, val, hash, deleted>>

Slots == 0 .. size - 1

Occupied == {i \in Slots : key[i] # NoKey}

Alive == deleted = [k \in Keys |-> 0]

Init == /\ n = 0 /\ size = MinSize
        /\ key = [i \in 0 .. MinSize - 1 |-> NoKey]
        /\ val = [i \in 0 .. MinSize - 1 |-> Null]
        /\ hash = [i \in 0 .. MinSize - 1 |-> 0]
        /\ deleted = [k \in Keys |-> 0]

\* The slots a search for k stops at: same hash, then same string.
MatchesByHash(k) == {i \in Occupied : hash[i] = Hash[k]}
Matches(k) == {i \in Occupied : hash[i] = Hash[k] /\ key[i] = k}

First(S) == CHOOSE i \in S : \A j \in S : i <= j

\* The first slot a new entry may take, from n on and around the end.
FreeSlot(free) ==
  IF \E i \in free : i >= n THEN First({i \in free : i >= n}) ELSE First(free)

Get(k) == IF Matches(k) = {} THEN Absent ELSE val[First(Matches(k))]

\* A copied value is the value, or NULL when xstrdup fails.
Modify(k, v) == /\ Alive /\ n > 0 /\ Matches(k) # {}
                /\ val' = [val EXCEPT ![First(Matches(k))] = v]
                /\ UNCHANGED <<n, size, key, hash, deleted>>

\* Twice as many slots, the old contents in the first half.
Wider(f, blank) == [i \in 0 .. 2 * size - 1 |-> IF i < size THEN f[i] ELSE blank]

\* The slot of a new entry gets k, or stays empty when xstrdup fails for it.
Add(k, stored, v) ==
  /\ Alive /\ Matches(k) = {}
  /\ n = size => 2 * size <= MaxSize
  /\ LET grow == n = size
         i == FreeSlot(IF grow THEN size .. 2 * size - 1 ELSE Slots \ Occupied)
     IN /\ size' = IF grow THEN 2 * size ELSE size
        /\ key' = [IF grow THEN Wider(key, NoKey) ELSE key EXCEPT ![i] = stored]
        /\ val' = [IF grow THEN Wider(val, Null) ELSE val EXCEPT ![i] = v]
        /\ hash' = [IF grow THEN Wider(hash, 0) ELSE hash EXCEPT ![i] = Hash[k]]
  /\ n' = n + 1
  /\ UNCHANGED deleted

Set(k, v) == Modify(k, v) \/ Add(k, k, v) \/ Add(k, NoKey, v)

\* A key that is not found leaves the count alone.
UnsetBlind(k) == /\ Alive /\ n > 0 /\ Matches(k) = {}
                 /\ n' = n - 1
                 /\ UNCHANGED <<size, key, val, hash, deleted>>

Unset(k) == /\ Alive /\ Matches(k) # {}
            /\ LET i == First(Matches(k)) IN
                 /\ key' = [key EXCEPT ![i] = NoKey]
                 /\ val' = [val EXCEPT ![i] = Null]
                 /\ hash' = [hash EXCEPT ![i] = 0]
            /\ n' = n - 1
            /\ UNCHANGED <<size, deleted>>

Del == /\ Alive /\ Occupied # {}
       /\ deleted' = [k \in Keys |-> Cardinality({i \in Occupied : key[i] = k})]
       /\ n' = 0
       /\ key' = [i \in Slots |-> NoKey]
       /\ val' = [i \in Slots |-> Null]
       /\ hash' = [i \in Slots |-> 0]
       /\ UNCHANGED size

Next == \/ Del
        \/ \E k \in Keys : Unset(k) \/ \E v \in Values \cup {Null} : Set(k, v)

Spec == Init /\ [][Next]_vars

\* The count never falls below the entries there are, so that the search for an
\* empty slot ends: there is one whenever the count is below the size.
SlotLeft == /\ Cardinality(Occupied) <= n
            /\ n <= size

\* A sequence of set and unset calls through holes, growth, colliding hashes and
\* failed copies answers as a map does: nothing comes back after it was unset,
\* no entry hides another, and deletion frees each key once.
Map == INSTANCE KeyMap WITH
         Values <- Values \cup {Null},
         map <- [k \in Keys |-> Get(k)],
         released <- deleted
ImplementsMap == Map!Spec
=============================================================================
