------------------------------ MODULE MCCJson ------------------------------
(* Names that differ in case only, for CJson on its own. *)
EXTENDS CJson

MCLower == [nm \in Names |-> IF nm = "K" THEN "k" ELSE nm]
=============================================================================
