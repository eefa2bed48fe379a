---------------------------- MODULE SlotNamesProofs ----------------------------
(***************************************************************************)
(* Theorems about SlotNames, for any repos, tasks and labels that are      *)
(* sequences of words.                                                     *)
(***************************************************************************)
EXTENDS SlotNames, SequenceTheorems, TLAPS

\* An initial copy's directory is named like the repo.
LEMMA InitialDir ==
    ASSUME NEW W, NEW repo \in Seq(W)
    PROVE  DirName(repo, Initial) = repo
BY ConcatEmptySeq DEF DirName, Initial

\* A prefix of a sequence as long as it is the sequence.
LEMMA PrefixIs ==
    ASSUME NEW W, NEW s \in Seq(W), NEW d \in Seq(W), IsPrefix(s, d)
    PROVE  /\ Len(s) <= Len(d)
           /\ s = SubSeq(d, 1, Len(s))
           /\ Len(s) = Len(d) => s = d
<1>1. Len(s) <= Len(d) /\ SubSeq(s, 1, Len(s)) = SubSeq(d, 1, Len(s))
  BY DEF IsPrefix
<1>2. SubSeq(s, 1, Len(s)) = s /\ SubSeq(d, 1, Len(d)) = d
  BY SubSeqFull
<1> QED BY <1>1, <1>2

\* A repo is a strict prefix of the directories of its slots, and there is no
\* longer one.
LEMMA Claims ==
    ASSUME NEW W, NEW repo \in Seq(W), NEW label \in Seq(W), Len(label) = 1
    PROVE  LET dir == DirName(repo, label)
           IN  /\ dir \in Seq(W) /\ Len(dir) = Len(repo) + 1
               /\ IsStrictPrefix(repo, dir)
               /\ \A q \in Seq(W) : IsStrictPrefix(q, dir) => Len(q) <= Len(repo)
               /\ \A q \in Seq(W) : IsStrictPrefix(q, dir) /\ Len(q) = Len(repo) => q = repo
               /\ SubSeq(dir, Len(repo) + 1, Len(dir)) = label
<1> DEFINE dir == DirName(repo, label)
<1>1. /\ Len(repo) \in Nat /\ Len(label) = 1
      /\ dir \in Seq(W) /\ Len(dir) = Len(repo) + 1
      /\ \A i \in 1..Len(repo) : dir[i] = repo[i]
      /\ dir[Len(repo) + 1] = label[1]
  <2>1. Len(repo) \in Nat
    BY LenProperties
  <2>2. /\ dir \in Seq(W) /\ Len(dir) = Len(repo) + 1
        /\ \A i \in 1..Len(repo) + 1 : dir[i] = IF i <= Len(repo) THEN repo[i] ELSE label[i - Len(repo)]
    BY ConcatProperties DEF DirName
  <2>3. dir[Len(repo) + 1] = label[1]
    BY <2>1, <2>2
  <2> QED BY <2>1, <2>2, <2>3
<1> HIDE DEF dir
<1>2. /\ SubSeq(dir, 1, Len(repo)) = repo
      /\ SubSeq(dir, Len(repo) + 1, Len(repo) + 1) = label
  <2>1. \A i \in 1..Len(repo) : dir[i] \in W
    BY <1>1, ElementOfSeq
  <2>2. SubSeq(dir, 1, Len(repo)) = repo
    <3> DEFINE s == SubSeq(dir, 1, Len(repo))
    <3>1. /\ s \in Seq(W)
          /\ Len(s) = IF 1 <= Len(repo) THEN Len(repo) - 1 + 1 ELSE 0
          /\ \A i \in 1..Len(repo) - 1 + 1 : s[i] = dir[1 + i - 1]
      BY <1>1, <2>1, SubSeqProperties
    <3> HIDE DEF s
    <3>2. Len(s) = Len(repo) /\ \A i \in 1..Len(s) : s[i] = repo[i]
      BY <1>1, <3>1
    <3> QED BY <3>1, <3>2, SeqEqual DEF s
  <2>3. SubSeq(dir, Len(repo) + 1, Len(repo) + 1) = label
    <3> DEFINE s == SubSeq(dir, Len(repo) + 1, Len(repo) + 1)
               n == Len(repo) + 1
    <3>1. n \in Int /\ \A i \in n..n : dir[i] \in W
      <4>1. n \in Nat /\ n \in 1..Len(dir)
        BY <1>1
      <4> HIDE DEF n
      <4> QED BY <1>1, <4>1, ElementOfSeq
    <3> HIDE DEF n
    <3>2. /\ SubSeq(dir, n, n) \in Seq(W)
          /\ Len(SubSeq(dir, n, n)) = IF n <= n THEN n - n + 1 ELSE 0
          /\ \A i \in 1..n - n + 1 : SubSeq(dir, n, n)[i] = dir[n + i - 1]
      BY <3>1, SubSeqProperties
    <3>3. s = SubSeq(dir, n, n)
      BY DEF n
    <3> HIDE DEF s
    <3>4. s \in Seq(W) /\ Len(s) = 1 /\ s[1] = dir[n]
      BY <3>1, <3>2, <3>3
    <3>5. s[1] = label[1]
      BY <1>1, <3>4 DEF n
    <3>6. \A i \in 1..Len(s) : s[i] = label[i]
      BY <3>4, <3>5
    <3> QED BY <1>1, <3>4, <3>6, SeqEqual DEF s
  <2> QED BY <2>2, <2>3
<1>3. IsPrefix(repo, dir) /\ repo # dir
  <2>1. SubSeq(repo, 1, Len(repo)) = repo
    BY SubSeqFull
  <2> QED BY <1>1, <1>2, <2>1 DEF IsPrefix
<1>4. ASSUME NEW q \in Seq(W), IsStrictPrefix(q, dir)
      PROVE  Len(q) <= Len(repo) /\ (Len(q) = Len(repo) => q = repo)
  <2>1. Len(q) \in Nat
    BY LenProperties
  <2>2. Len(q) <= Len(dir) /\ q = SubSeq(dir, 1, Len(q)) /\ Len(q) # Len(dir)
    BY <1>1, <1>4, PrefixIs DEF IsStrictPrefix
  <2>3. Len(q) <= Len(repo)
    <3>1. Len(q) \in Nat /\ Len(repo) \in Nat /\ Len(dir) = Len(repo) + 1
      BY <1>1, <2>1
    <3>2. Len(q) <= Len(dir) /\ Len(q) # Len(dir)
      BY <2>2
    <3> QED BY <3>1, <3>2
  <2>4. ASSUME Len(q) = Len(repo) PROVE q = repo
    BY <1>2, <2>2, <2>4, Zenon
  <2> QED BY <2>3, <2>4
<1> QED BY <1>1, <1>2, <1>3, <1>4 DEF IsStrictPrefix, dir

\* The directory name of a working copy leads back to its repo and its label
\* (ParseSlotDirName undoes SlotDirName).
LEMMA Parsed ==
    ASSUME NEW W, NEW repos \in SUBSET Seq(W), NEW repo \in repos, NEW label \in Seq(W),
           Validate(repos, repo, label)
    PROVE  ParseSlotDirName(repos, DirName(repo, label)) = Slot(repo, label)
<1> DEFINE dir == DirName(repo, label)
<1>1. CASE label = Initial
  <2>1. dir = repo
    BY <1>1, InitialDir
  <2> QED BY <1>1, <2>1 DEF ParseSlotDirName
<1>2. CASE label # Initial
  <2>1. Len(label) = 1 /\ dir \notin repos
    BY <1>2 DEF Validate
  <2>2. /\ IsStrictPrefix(repo, dir)
        /\ \A q \in repos : IsStrictPrefix(q, dir) => Len(q) <= Len(repo)
        /\ \A q \in repos : IsStrictPrefix(q, dir) /\ Len(q) = Len(repo) => q = repo
        /\ SubSeq(dir, Len(repo) + 1, Len(dir)) = label
    BY <2>1, Claims
  <2> HIDE DEF dir
  <2>3. Claimant(repos, dir) = repo
    <3> DEFINE P(r) == IsStrictPrefix(r, dir) /\ \A q \in repos : IsStrictPrefix(q, dir) => Len(q) <= Len(r)
    <3>1. P(repo)
      BY <2>2
    <3>2. \A r \in repos : Len(r) \in Nat
      BY LenProperties
    <3>3. ASSUME NEW r \in repos, P(r) PROVE r = repo
      <4>1. Len(r) <= Len(repo) /\ Len(repo) <= Len(r)
        BY <2>2, <3>3
      <4> QED BY <2>2, <3>2, <3>3, <4>1
    <3>4. Claimant(repos, dir) = CHOOSE r \in repos : P(r)
      BY DEF Claimant
    <3> HIDE DEF P
    <3> QED BY <3>1, <3>3, <3>4
  <2> QED BY <2>1, <2>2, <2>3 DEF ParseSlotDirName, dir
<1> QED BY <1>1, <1>2

\* Two working copies in directories of the same name are of the same repo and
\* have the same label.
LEMMA OneCopy ==
    ASSUME NEW W, NEW repos \in SUBSET Seq(W),
           NEW r \in repos, NEW l \in Seq(W), Validate(repos, r, l),
           NEW q \in repos, NEW m \in Seq(W), Validate(repos, q, m),
           DirName(r, l) = DirName(q, m)
    PROVE  r = q /\ l = m
<1>1. Slot(r, l) = Slot(q, m)
  <2>1. ParseSlotDirName(repos, DirName(r, l)) = Slot(r, l)
    BY Parsed
  <2>2. ParseSlotDirName(repos, DirName(q, m)) = Slot(q, m)
    BY Parsed
  <2> QED BY <2>1, <2>2, Zenon
<1>2. Slot(r, l).repo = r /\ Slot(r, l).label = l /\ Slot(q, m).repo = q /\ Slot(q, m).label = m
  BY DEF Slot
<1> QED BY <1>1, <1>2, Zenon

\* A directory name leads back to what it was made from, for any repos and labels.
THEOREM LeadsBack ==
    ASSUME NEW W, NEW repos \in SUBSET Seq(W), NEW labels \in SUBSET Seq(W)
    PROVE  ParsesBack(repos, labels)
<1> SUFFICES ASSUME NEW i \in Valid(repos, labels)
             PROVE  ParseSlotDirName(repos, DirName(i.repo, i.label)) = i
  BY DEF ParsesBack
<1>1. i.repo \in repos /\ i.label \in labels /\ Validate(repos, i.repo, i.label) /\ i = Slot(i.repo, i.label)
  BY DEF Valid, Slot
<1> QED BY <1>1, Parsed

\* Names of jj workspaces and branches meet only where one is the initial copy of a
\* task named like the other's slot, for any tasks, repos and labels.
THEOREM NamesMeet ==
    ASSUME NEW W, NEW repos \in SUBSET Seq(W), NEW labels \in SUBSET Seq(W),
           NEW tasks \in SUBSET Seq(W)
    PROVE  NamesCollide(tasks, repos, labels)
<1> SUFFICES ASSUME NEW t \in tasks, NEW u \in tasks,
                    NEW i \in Valid(repos, labels), NEW j \in Valid(repos, labels),
                    i.repo = j.repo,
                    VCSName(t, i.repo, i.label) = VCSName(u, j.repo, j.label),
                    i.label # Initial, j.label # Initial
             PROVE  t = u /\ i = j
  BY DEF NamesCollide
<1> DEFINE r == i.repo
           l == i.label
           m == j.label
<1>1. /\ r \in repos /\ l \in labels /\ Len(l) = 1 /\ i = Slot(r, l)
      /\ m \in labels /\ Len(m) = 1 /\ j = Slot(r, m)
  BY DEF Valid, Slot, Validate
<1> HIDE DEF r, l, m
<1>2. (t \o r) \o l = (u \o r) \o m
  BY <1>1 DEF VCSName, r, l, m
<1> DEFINE a == t \o r
           b == u \o r
<1>3. a \in Seq(W) /\ b \in Seq(W)
  BY <1>1, ConcatProperties
<1>4. /\ SubSeq(a \o l, Len(a) + 1, Len(a \o l)) = l /\ Len(a \o l) = Len(a) + 1
      /\ SubSeq(b \o m, Len(b) + 1, Len(b \o m)) = m /\ Len(b \o m) = Len(b) + 1
      /\ IsStrictPrefix(a, a \o l) /\ IsStrictPrefix(b, b \o m)
      /\ \A q \in Seq(W) : IsStrictPrefix(q, a \o l) /\ Len(q) = Len(a) => q = a
  <2> HIDE DEF a, b
  <2> QED BY <1>1, <1>3, Claims DEF DirName
<1>5. a = b /\ l = m
  <2>1. a \o l = b \o m
    BY <1>2
  <2> HIDE DEF a, b
  <2>2. Len(a) \in Nat /\ Len(b) \in Nat
    BY <1>3, LenProperties
  <2>3. Len(a) = Len(b)
    BY <1>4, <2>1, <2>2
  <2> QED BY <1>3, <1>4, <2>1, <2>3
<1>6. t = u
  <2>1. r \in Seq(W) /\ t \in Seq(W) /\ u \in Seq(W) /\ t \o r = u \o r
    BY <1>1, <1>5
  <2> QED BY <2>1, ConcatSimplifications
<1> QED BY <1>1, <1>5, <1>6 DEF Slot
================================================================================
