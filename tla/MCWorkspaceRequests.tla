-------------------------- MODULE MCWorkspaceRequests --------------------------
(* WorkspaceRequests on small instances, the requests as model values. *)
EXTENDS WorkspaceRequests, TLC

\* Mutations are interchangeable among themselves, and so are reads.
Symmetry == Permutations(Mutations) \cup Permutations(ReadOnly)
================================================================================
