------------------------------ MODULE ItemList ------------------------------
(***************************************************************************)
(* What an array or an object promises: a sequence of items that a call    *)
(* lengthens, shortens or changes at one place, and leaves otherwise alone.*)
(* An item belongs to the list or to the program, never to both.           *)
(***************************************************************************)
EXTENDS Naturals, Sequences

CONSTANT Items

VARIABLES items,
          mine    \* the items that belong to the program

Held == {items[i] : i \in DOMAIN items}

Init == items = <<>> /\ mine = {}

Make(n) == n \notin mine \cup Held /\ mine' = mine \cup {n} /\ items' = items

Free(n) == n \in mine /\ mine' = mine \ {n} /\ items' = items

Fill == /\ items = <<>> /\ items' \in Seq(Items \ mine) /\ items' # <<>>
        /\ \A i, j \in DOMAIN items' : items'[i] = items'[j] => i = j
        /\ mine' = mine

\* An item of the program or a new one.
Insert(i, n) ==
  /\ n \notin Held
  /\ items' = SubSeq(items, 1, i) \o <<n>> \o SubSeq(items, i + 1, Len(items))
  /\ mine' = mine \ {n}

Remove(i) ==
  /\ items' = SubSeq(items, 1, i - 1) \o SubSeq(items, i + 1, Len(items))
  /\ mine' \in {mine, mine \cup {items[i]}}

Replace(i, n) == /\ n \in mine /\ mine' = mine \ {n}
                 /\ items' = [items EXCEPT ![i] = n]

Clear == items' = <<>> /\ mine' = mine

Next == \/ Fill \/ Clear
        \/ \E n \in Items : \/ Make(n) \/ Free(n)
                            \/ \E i \in 0 .. Len(items) : Insert(i, n)
                            \/ \E i \in DOMAIN items : Replace(i, n)
        \/ \E i \in DOMAIN items : Remove(i)

Spec == Init /\ [][Next]_<<items, mine>>
=============================================================================
