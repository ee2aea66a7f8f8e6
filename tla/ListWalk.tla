------------------------------ MODULE ListWalk ------------------------------
(***************************************************************************)
(* What a list with an iterator promises to its users: a sequence and a    *)
(* position in it.  Position 0 is before the first item, where an iterator *)
(* stands that has removed it; Over is an iterator that has passed the     *)
(* last item, or none.                                                     *)
(***************************************************************************)
EXTENDS Integers, Sequences

CONSTANT Items

VARIABLES items, at

\* No walk, or one that is over.
Over == -1

Init == items = <<>> /\ at = Over

Push(d) == items' = Append(items, d) /\ at' = at

Take == items # <<>> /\ items' = Tail(items) /\ at' = Over

Begin == at' = (IF items = <<>> THEN Over ELSE 1) /\ items' = items

Advance == /\ at # Over
           /\ at' = IF at = Len(items) THEN Over ELSE at + 1
           /\ items' = items

Remove == /\ at \in 1 .. Len(items)
          /\ items' = SubSeq(items, 1, at - 1) \o SubSeq(items, at + 1, Len(items))
          /\ at' = at - 1

Next == Take \/ Begin \/ Advance \/ Remove \/ \E d \in Items : Push(d)

Spec == Init /\ [][Next]_<<items, at>>
=============================================================================
