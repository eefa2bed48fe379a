------------------------------- MODULE SlotNames -------------------------------
(***************************************************************************)
(* The names of a working copy: its directory in the workspace, and the jj *)
(* workspace or git branch it owns.                                        *)
(*                                                                         *)
(* A name is a sequence of words; the words of the source are joined by    *)
(* "--", the separator no label may contain. So a label is one word, or    *)
(* none for a task's initial copy of a repo, and the names of repos and    *)
(* tasks, which nothing restricts, are sequences of any length.            *)
(***************************************************************************)
EXTENDS Naturals, Sequences, SequencesExt

Initial == <<>>

DirName(repo, label) == repo \o label

\* mutant: named after the directory, as if names were unique per task
VCSNameOfDir(task, repo, label) == IF label = Initial THEN task ELSE DirName(repo, label)

VCSName(task, repo, label) == IF label = Initial THEN task ELSE task \o repo \o label

Validate(repos, repo, label) ==
    label # Initial => Len(label) = 1 /\ DirName(repo, label) \notin repos

Slot(repo, label) == [repo |-> repo, label |-> label]

\* The longest managed repo a directory name starts with.
Claimant(repos, dir) ==
    CHOOSE r \in repos : IsStrictPrefix(r, dir)
        /\ \A q \in repos : IsStrictPrefix(q, dir) => Len(q) <= Len(r)

ParseSlotDirName(repos, dir) ==
    CASE dir \in repos -> Slot(dir, Initial)
      [] dir \notin repos /\ (\E r \in repos : IsStrictPrefix(r, dir)) ->
            LET r == Claimant(repos, dir)
            IN  Slot(r, SubSeq(dir, Len(r) + 1, Len(dir)))
      [] OTHER -> IF Len(dir) > 1 THEN Slot(Front(dir), <<Last(dir)>>) ELSE Slot(dir, Initial)

--------------------------------------------------------------------------------
(* Properties, over the repos, tasks and labels given.                     *)

Valid(repos, labels) == {i \in [repo : repos, label : labels] : Validate(repos, i.repo, i.label)}

\* A directory name leads back to the repo and the label it was made from
\* (slot.go:154 "a repo whose own name contains the separator is never
\* mistaken for a slot").
ParsesBack(repos, labels) ==
    \A i \in Valid(repos, labels) : ParseSlotDirName(repos, DirName(i.repo, i.label)) = i

\* Two working copies of one repo want the same VCS name only if one of them is
\* the initial copy of a task named like the other's slot.
NamesCollide(tasks, repos, labels) ==
    \A t, u \in tasks : \A i, j \in Valid(repos, labels) :
        /\ i.repo = j.repo /\ <<t, i>> # <<u, j>>
        /\ VCSName(t, i.repo, i.label) = VCSName(u, j.repo, j.label)
        => Initial \in {i.label, j.label}
================================================================================
