------------------------------- MODULE MCStp -------------------------------
(* The instance of Stp that TLC checks; the configurations hold the values.  *)
EXTENDS Stp
=============================================================================
