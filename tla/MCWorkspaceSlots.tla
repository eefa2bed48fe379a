--------------------------- MODULE MCWorkspaceSlots ----------------------------
(* WorkspaceSlots on a small instance: two tasks, one of them named like a slot *)
(* of the other, and one repo of a kind.                                        *)
EXTENDS WorkspaceSlots, TLC

A == <<"a">>
G == <<"g">>
J == <<"j">>
MCWords       == {"a", "g", "j", "2"}
MCTaskNames   == {A, <<"a", "g", "2">>}
MCRepos       == {G, J}
MCJJ          == {J}
MCAutoLabels  == <<Initial, <<"2">>>>
MCAgentLabels == {<<"2">>}

Symmetry == Permutations(Tasks)
================================================================================
