--------------------------- MODULE MCTaskLifecycle ---------------------------
(* TaskLifecycle on small instances, its actors and windows model values.  *)
EXTENDS TaskLifecycle, TLC

\* Windows, tasks and goroutines are interchangeable.
Symmetry == Permutations(Windows) \cup Permutations(Tasks) \cup Permutations(Goroutines)
================================================================================
