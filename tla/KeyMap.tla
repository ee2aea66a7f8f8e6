------------------------------- MODULE KeyMap -------------------------------
(***************************************************************************)
(* What a table promises: a map from keys to values that a call changes at *)
(* one key at most, and that gives back each key it holds exactly once     *)
(* when it is deleted.                                                     *)
(***************************************************************************)
EXTENDS Naturals

CONSTANTS Keys, Values, Absent

VARIABLES map,       \* the value of every key, or Absent
          released   \* after the deletion, how often each key was given back

Init == /\ map = [k \in Keys |-> Absent]
        /\ released = [k \in Keys |-> 0]

Put(k, v) == map' = [map EXCEPT ![k] = v] /\ UNCHANGED released

Remove(k) == map' = [map EXCEPT ![k] = Absent] /\ UNCHANGED released

Release == /\ map' = [k \in Keys |-> Absent]
           /\ released' = [k \in Keys |-> IF map[k] = Absent THEN 0 ELSE 1]

Next == \/ Release
        \/ \E k \in Keys : Remove(k) \/ \E v \in Values : Put(k, v)

Spec == Init /\ [][Next]_<<map, released>>
=============================================================================
