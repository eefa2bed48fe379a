--------------------------- MODULE WorkspaceDirectory --------------------------
(***************************************************************************)
(* What becomes of the workspace directory of a name: it is built for one  *)
(* task, used by it and the tasks that share it, and removed. It is only   *)
(* built where there is none, and no other task ever gets one that is      *)
(* being built. What is left behind is never built in nor removed; only a  *)
(* task that was about to share it may come to use it.                     *)
(***************************************************************************)
CONSTANT Names

VARIABLE use

Build     == {<<"free", "building">>}
HandOver  == {<<"building", "used">>}
Abandon   == {<<"building", "left">>, <<"used", "left">>}
Remove    == {<<"building", "free">>, <<"used", "free">>}
\* A working copy made late brings the directory back.
Resurrect == {<<"free", "left">>, <<"free", "used">>}
JoinLate  == {<<"left", "used">>}

Init == use = [n \in Names |-> "free"]

Next == \E n \in Names :
    /\ <<use[n], use'[n]>> \in Build \cup HandOver \cup Abandon \cup Remove \cup Resurrect \cup JoinLate
    /\ use' = [use EXCEPT ![n] = use'[n]]

Spec == Init /\ [][Next]_use
================================================================================
