----------------------------- MODULE MCTaskWizard ------------------------------
(* TaskWizard with two repos at hand and one on GitHub.                         *)
EXTENDS TaskWizard, TLC

CONSTANTS r1, r2, r3, s1, s2, o1, o2, q1, f1

\* Two sets that share a repo, one of which names a repo that is not there.
MCMembers  == s1 :> {r1, r2} @@ s2 :> {r2, r3}
MCMatching == f1 :> {s1, r1}

\* Both organizations have a repo that is not there, and one that is.
MCFound == [o \in AllOrgs \cup {None} |-> [q \in Queries \cup {Empty} |->
              IF o = None THEN {} ELSE IF q # Empty THEN {r1, r3} ELSE {r3}]]
================================================================================
