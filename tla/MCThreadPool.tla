---------------------------- MODULE MCThreadPool ----------------------------
(* The model values of the runs of ThreadPool. *)
EXTENDS ThreadPool, TLC

\* The clients of a run are interchangeable, and so are its tasks that nest or
\* do not nest; a run that checks liveness uses no symmetry.
Symmetry == Permutations(Clients) \cup Permutations(Nesting)
              \cup Permutations(Tasks \ Nesting)
=============================================================================
