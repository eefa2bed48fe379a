---------------------------- MODULE MCSessionForks -----------------------------
(* SessionForks on a small instance, tasks and sessions model values. *)
EXTENDS SessionForks, TLC

\* Tasks and sessions are interchangeable.
Symmetry == Permutations(Tasks) \cup Permutations(Sessions)
================================================================================
