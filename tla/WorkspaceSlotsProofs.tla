-------------------------- MODULE WorkspaceSlotsProofs -------------------------
(***************************************************************************)
(* Theorems about WorkspaceSlots, for any tasks, repos and labels, and any *)
(* number of operations and mishaps.                                       *)
(***************************************************************************)
EXTENDS WorkspaceSlots, SlotNamesProofs, LeastNumber

--------------------------------------------------------------------------------
(* The names.                                                              *)

\* None is none of the values it stands in for.
LEMMA Nothing ==
    /\ \A t \in Tasks : t # None
    /\ \A n \in TaskNames : n # None
    /\ \A l \in Labels : l # None
    /\ \A x \in Target : x # None
    /\ \A f \in Flow : f # None
    /\ \A q \in Request : q # None
BY NoneAssumption, Zenon

\* Labels are sequences, Initial is one of them.
LEMMA LabelsAre == Initial \in Labels /\ Labels \subseteq Seq(Words)
<1>1. /\ Len(AutoLabels) \in Nat /\ 1 <= Len(AutoLabels) /\ AutoLabels[1] = Initial
      /\ \A i \in 1..Len(AutoLabels) : AutoLabels[i] \in Seq(Words)
  BY LabelAssumption, LenProperties, ElementOfSeq
<1>2. Initial \in Labels
  BY <1>1 DEF Labels
<1>3. Labels \subseteq Seq(Words)
  BY <1>1, LabelAssumption DEF Labels
<1> QED BY <1>2, <1>3

\* Where the names that are made belong.
LEMMA NamesAre ==
    /\ Repos \subseteq Dirs /\ TaskNames \subseteq Ids
    /\ \A r \in Repos, l \in Labels : DirName(r, l) \in Dirs
    /\ \A n \in TaskNames, r \in Repos, l \in Labels : VCSName(n, r, l) \in Ids
<1>1. \A r \in Repos, l \in Labels : DirName(r, l) \in Dirs
  BY DEF Dirs
<1>2. \A r \in Repos : DirName(r, Initial) = r
  BY RepoAssumption, InitialDir
<1>3. Repos \subseteq Dirs
  BY <1>1, <1>2, LabelsAre, Zenon
<1>4. TaskNames \subseteq Ids
  BY DEF Ids
<1>5. ASSUME NEW n \in TaskNames, NEW r \in Repos, NEW l \in Labels PROVE VCSName(n, r, l) \in Ids
  <2>1. CASE l = Initial
    BY <1>4, <2>1 DEF VCSName
  <2>2. CASE l # Initial
    BY <2>2 DEF Ids
  <2> QED BY <2>1, <2>2
<1> QED BY <1>1, <1>3, <1>4, <1>5

\* What is shaped like a copy of a repo has the types of one, and its directory
\* leads back to the repo.
LEMMA ShapedIs ==
    ASSUME NEW x, NEW n \in TaskNames, Shaped(x, n)
    PROVE  /\ x.repo \in Repos /\ x.dir \in Dirs /\ x.id \in Ids
           /\ ParseSlotDirName(Repos, x.dir).repo = x.repo
           /\ ParseSlotDirName(Repos, x.dir).label \in Labels
           /\ x.dir \in Repos => x.repo = x.dir /\ x.id = n
<1>1. PICK l \in Labels : /\ Validate(Repos, x.repo, l) /\ x.repo \in Repos
                          /\ x.dir = DirName(x.repo, l) /\ x.id = VCSName(n, x.repo, l)
  BY Zenon DEF Shaped
<1>2. x.dir \in Dirs /\ x.id \in Ids
  BY <1>1, NamesAre, Zenon
<1>3. ParseSlotDirName(Repos, x.dir) = Slot(x.repo, l)
  BY <1>1, LabelsAre, RepoAssumption, Parsed
<1>4. ASSUME x.dir \in Repos PROVE x.repo = x.dir /\ x.id = n
  <2>1. l = Initial
    BY <1>1, <1>4 DEF Validate
  <2>2. x.dir = x.repo
    BY <1>1, <2>1, RepoAssumption, InitialDir
  <2> QED BY <1>1, <2>1, <2>2 DEF VCSName
<1> QED BY <1>1, <1>2, <1>3, <1>4 DEF Slot

\* Of one directory name there is one repo, and for one task one identity.
LEMMA SameDir ==
    ASSUME NEW x, NEW y, NEW n, NEW m, Shaped(x, n), Shaped(y, m), x.dir = y.dir
    PROVE  x.repo = y.repo /\ (n = m => x.id = y.id)
<1>1. PICK l \in Labels : /\ Validate(Repos, x.repo, l) /\ x.repo \in Repos
                          /\ x.dir = DirName(x.repo, l) /\ x.id = VCSName(n, x.repo, l)
  BY Zenon DEF Shaped
<1>2. PICK k \in Labels : /\ Validate(Repos, y.repo, k) /\ y.repo \in Repos
                          /\ y.dir = DirName(y.repo, k) /\ y.id = VCSName(m, y.repo, k)
  BY Zenon DEF Shaped
<1>3. l \in Seq(Words) /\ k \in Seq(Words) /\ Repos \in SUBSET Seq(Words)
  BY LabelsAre, RepoAssumption
<1>4. x.repo = y.repo /\ l = k
  <2>1. DirName(x.repo, l) = DirName(y.repo, k)
    BY <1>1, <1>2
  <2> QED BY <1>1, <1>2, <1>3, <2>1, OneCopy
<1> QED BY <1>1, <1>2, <1>4

--------------------------------------------------------------------------------
(* Who changes what.                                                       *)

\* Who changes rows of tasks.
LEMMA TaskMoves ==
    ASSUME Next
    PROVE  \/ task' = task
           \/ InsertTask
           \/ SetDir
           \/ \E f \in forking : InsertShared(f)
           \/ \E e \in ending : SetCompleted(e)
           \/ \E t \in Tasks : Fail(t)
BY DEF Next, BeginCreate, BeginAdd, BeginFork, BeginShared, MakeDir, CopyOthers,
       CloneRepo, CloneFails, ForkRepo, ForkFails, Proceed, Cancel, RecordSlot,
       LaunchFails, Confirm, CompleteFails, AskHeir, Release, ForgetNext,
       RemoveDir, AddSlot, CloneSlot, RecordAdded, RemoveSlot, ForgetSlot,
       DeleteSlot, DropRow, BeginPass, Backfill, Commit, Merge, Crash, database,
       outside, krang

\* Who changes rows of repos.
LEMMA RowsMoves ==
    ASSUME Next
    PROVE  \/ rows' = rows
           \/ \E x \in flow.made : RecordSlot(x)
           \/ \E e \in ending : Release(e)
           \/ RecordAdded
           \/ DropRow
           \/ \E t \in Tasks : Backfill(t)
BY DEF Next, BeginCreate, BeginAdd, BeginFork, BeginShared, MakeDir, CopyOthers,
       CloneRepo, CloneFails, ForkRepo, ForkFails, Proceed, Cancel, InsertTask,
       SetDir, LaunchFails, InsertShared, Confirm, SetCompleted, CompleteFails,
       AskHeir, ForgetNext, RemoveDir, AddSlot, CloneSlot, RemoveSlot, ForgetSlot,
       DeleteSlot, BeginPass, Fail, Commit, Merge, Crash, database, outside, krang

\* Who changes workspace directories.
LEMMA DirsMoves ==
    ASSUME Next
    PROVE  \/ dirs' = dirs
           \/ MakeDir
           \/ \E r \in Repos : CloneRepo(r)
           \/ Proceed
           \/ Cancel
           \/ RemoveDir
           \/ CloneSlot
BY DEF Next, BeginCreate, BeginAdd, BeginFork, BeginShared, CopyOthers,
       CloneFails, ForkRepo, ForkFails, InsertTask, SetDir, RecordSlot,
       LaunchFails, InsertShared, Confirm, SetCompleted, CompleteFails, AskHeir,
       Release, ForgetNext, AddSlot, RecordAdded, RemoveSlot, ForgetSlot,
       DeleteSlot, DropRow, BeginPass, Backfill, Fail, Commit, Merge, Crash,
       Forget, Fork, OnlyDeletes, Goto, database, outside, krang

\* Who changes working copies.
LEMMA DiskMoves ==
    ASSUME Next
    PROVE  \/ disk' = disk
           \/ CopyOthers
           \/ \E r \in Repos : CloneRepo(r)
           \/ \E r \in Repos : ForkRepo(r)
           \/ Proceed
           \/ Cancel
           \/ \E x \in flow.targets : ForgetNext(x)
           \/ RemoveDir
           \/ CloneSlot
           \/ ForgetSlot
           \/ DeleteSlot
BY DEF Next, BeginCreate, BeginAdd, BeginFork, BeginShared, MakeDir, CloneFails,
       ForkFails, InsertTask, SetDir, RecordSlot, LaunchFails, InsertShared,
       Confirm, SetCompleted, CompleteFails, AskHeir, Release, AddSlot,
       RecordAdded, RemoveSlot, DropRow, BeginPass, Backfill, Fail, Commit, Merge,
       Crash, OnlyDeletes, Goto, database, outside, krang

\* Who changes the identities.
LEMMA HeldMoves ==
    ASSUME Next
    PROVE  \/ held' = held
           \/ \E r \in Repos : CloneRepo(r)
           \/ \E r \in Repos : ForkRepo(r)
           \/ \E r \in Repos : CloneFails(r) \/ ForkFails(r)
           \/ \E x \in flow.targets : ForgetNext(x)
           \/ CloneSlot
           \/ ForgetSlot
BY DEF Next, BeginCreate, BeginAdd, BeginFork, BeginShared, MakeDir, CopyOthers,
       Proceed, Cancel, InsertTask, SetDir, RecordSlot,
       LaunchFails, InsertShared, Confirm, SetCompleted, CompleteFails, AskHeir,
       Release, RemoveDir, AddSlot, RecordAdded, RemoveSlot, DeleteSlot, DropRow,
       BeginPass, Backfill, Fail, Commit, Merge, Crash, RemoveAll, Goto, database,
       outside, krang

\* Who changes the work.
LEMMA UnmergedMoves ==
    ASSUME Next
    PROVE  \/ unmerged' = unmerged
           \/ \E r \in Repos : CloneRepo(r)
           \/ \E r \in Repos : ForkRepo(r)
           \/ \E r \in Repos : CloneFails(r) \/ ForkFails(r)
           \/ CloneSlot
           \/ \E c \in disk : Commit(c)
           \/ \E w \in unmerged : Merge(w)
BY DEF Next, BeginCreate, BeginAdd, BeginFork, BeginShared, MakeDir, CopyOthers,
       Proceed, Cancel, InsertTask, SetDir, RecordSlot,
       LaunchFails, InsertShared, Confirm, SetCompleted, CompleteFails, AskHeir,
       Release, ForgetNext, RemoveDir, AddSlot, RecordAdded, RemoveSlot,
       ForgetSlot, DeleteSlot, DropRow, BeginPass, Backfill, Fail, Crash,
       RemoveAll, Forget, Goto, database, outside, krang

\* Who changes the modal.
LEMMA FlowMoves ==
    ASSUME Next
    PROVE  \/ flow' = flow
           \/ \E t \in Tasks, n \in TaskNames, R \in SUBSET Repos : BeginCreate(t, n, R)
           \/ \E t \in Tasks, R \in SUBSET Repos : BeginAdd(t, R)
           \/ \E src, t \in Tasks, n \in TaskNames : BeginFork(src, t, n)
           \/ MakeDir
           \/ CopyOthers
           \/ \E r \in Repos : CloneRepo(r)
           \/ \E r \in Repos : CloneFails(r)
           \/ \E r \in Repos : ForkRepo(r)
           \/ \E r \in Repos : ForkFails(r)
           \/ Proceed
           \/ Cancel
           \/ InsertTask
           \/ SetDir
           \/ \E x \in flow.made : RecordSlot(x)
           \/ LaunchFails
           \/ \E t \in Tasks : Confirm(t)
           \/ \E e \in ending : CompleteFails(e)
           \/ \E e \in ending : Release(e)
           \/ \E x \in flow.targets : ForgetNext(x)
           \/ RemoveDir
           \/ CloneSlot
           \/ Crash
BY DEF Next, BeginShared, InsertShared, SetCompleted, AskHeir, AddSlot,
       RecordAdded, RemoveSlot, ForgetSlot, DeleteSlot, DropRow, BeginPass,
       Backfill, Fail, Commit, Merge, database, outside, krang

\* Who changes the request.
LEMMA ApiMoves ==
    ASSUME Next
    PROVE  \/ api' = api
           \/ \E t \in Tasks, r \in Repos, l \in AgentLabels \cup {Initial} : AddSlot(t, r, l)
           \/ CloneSlot
           \/ RecordAdded
           \/ \E t \in Tasks : \E x \in Slots(t), force \in BOOLEAN : RemoveSlot(t, x, force)
           \/ ForgetSlot
           \/ DeleteSlot
           \/ DropRow
           \/ Crash
BY DEF Next, BeginCreate, BeginAdd, BeginFork, BeginShared, MakeDir, CopyOthers,
       CloneRepo, CloneFails, ForkRepo, ForkFails, Proceed, Cancel, InsertTask,
       SetDir, RecordSlot, LaunchFails, InsertShared, Confirm, SetCompleted,
       CompleteFails, AskHeir, Release, ForgetNext, RemoveDir, BeginPass,
       Backfill, Fail, Commit, Merge, database, outside, krang

\* Who changes the shared forks.
LEMMA ForkingMoves ==
    ASSUME Next
    PROVE  \/ forking' = forking
           \/ \E src, t \in Tasks, n \in TaskNames : BeginShared(src, t, n)
           \/ \E f \in forking : InsertShared(f)
           \/ Crash
BY DEF Next, BeginCreate, BeginAdd, BeginFork, MakeDir, CopyOthers, CloneRepo,
       CloneFails, ForkRepo, ForkFails, Proceed, Cancel, InsertTask, SetDir,
       RecordSlot, LaunchFails, Confirm, SetCompleted, CompleteFails, AskHeir,
       Release, ForgetNext, RemoveDir, AddSlot, CloneSlot, RecordAdded,
       RemoveSlot, ForgetSlot, DeleteSlot, DropRow, BeginPass, Backfill, Fail,
       Commit, Merge, database, outside, krang

\* Who changes the completions.
LEMMA EndingMoves ==
    ASSUME Next
    PROVE  \/ ending' = ending
           \/ \E t \in Tasks : Confirm(t)
           \/ \E e \in ending : SetCompleted(e)
           \/ \E e \in ending : CompleteFails(e)
           \/ \E e \in ending : AskHeir(e)
           \/ \E e \in ending : Release(e)
           \/ Crash
BY DEF Next, BeginCreate, BeginAdd, BeginFork, BeginShared, MakeDir, CopyOthers,
       CloneRepo, CloneFails, ForkRepo, ForkFails, Proceed, Cancel, InsertTask,
       SetDir, RecordSlot, LaunchFails, InsertShared, ForgetNext, RemoveDir,
       AddSlot, CloneSlot, RecordAdded, RemoveSlot, ForgetSlot, DeleteSlot,
       DropRow, BeginPass, Backfill, Fail, Commit, Merge, database, outside, krang

\* Who changes the reconcile pass.
LEMMA PassMoves ==
    ASSUME Next
    PROVE  \/ pass' = pass
           \/ BeginPass
           \/ \E t \in Tasks : Backfill(t)
           \/ Crash
BY DEF Next, BeginCreate, BeginAdd, BeginFork, BeginShared, MakeDir, CopyOthers,
       CloneRepo, CloneFails, ForkRepo, ForkFails, Proceed, Cancel, InsertTask,
       SetDir, RecordSlot, LaunchFails, InsertShared, Confirm, SetCompleted,
       CompleteFails, AskHeir, Release, ForgetNext, RemoveDir, AddSlot, CloneSlot,
       RecordAdded, RemoveSlot, ForgetSlot, DeleteSlot, DropRow, Fail, Commit,
       Merge, database, outside, krang

--------------------------------------------------------------------------------
(* What is resolved, and what is made.                                     *)

\* The label resolved may be used.
LEMMA ResolveIs ==
    ASSUME NEW ws, NEW name, NEW repo, NEW label \in Labels,
           Resolve(ws, name, repo, label) # None
    PROVE  /\ Resolve(ws, name, repo, label) \in Labels
           /\ Usable(ws, name, repo, Resolve(ws, name, repo, label))
<1> DEFINE tried  == IF label = Initial THEN AutoLabels ELSE <<label>>
           usable == {i \in 1..Len(tried) : Usable(ws, name, repo, tried[i])}
           first  == CHOOSE i \in usable : \A j \in usable : i <= j
<1>1. Len(tried) \in Nat /\ \A i \in 1..Len(tried) : tried[i] \in Labels
  <2>1. CASE label = Initial
    <3>1. Len(AutoLabels) \in Nat
      BY LabelAssumption, LenProperties
    <3> QED BY <2>1, <3>1 DEF Labels
  <2>2. CASE label # Initial
    BY <2>2
  <2> QED BY <2>1, <2>2
<1>2. usable # {} /\ Resolve(ws, name, repo, label) = tried[first]
  BY DEF Resolve
<1>3. first \in usable
  <2>1. usable \subseteq Nat
    BY <1>1
  <2> HIDE DEF usable
  <2>2. \E i \in usable : \A j \in usable : i <= j
    BY <1>2, <2>1, Least
  <2> QED BY <2>2
<1> HIDE DEF tried, first
<1> QED BY <1>1, <1>2, <1>3

\* Nothing is where the copy c goes, and who has its identity has lost it.
Apart(c) == /\ \A d \in In(c.ws) : d.dir # c.dir
            /\ \A d \in disk : d.real /\ I(d) = I(c) => I(c) \notin held

\* A copy made is shaped like one, in a directory that no other copy of the workspace
\* has, and no work is lost for it.
LEMMA CopyMade ==
    ASSUME TypeOK, WorkHeld,
           NEW ws \in TaskNames, NEW name \in TaskNames, NEW repo \in Repos, NEW label \in Labels,
           Usable(ws, name, repo, label), MakeCopy(ws, name, repo, label)
    PROVE  \E c \in WorkCopy :
              /\ c.ws = ws /\ c.dir = DirName(repo, label) /\ c.repo = repo
              /\ c.id = VCSName(name, repo, label) /\ c.by = name /\ c.real
              /\ Shaped(c, name) /\ Apart(c)
              /\ disk' = disk \cup {c} /\ held' = held \cup {I(c)} /\ dirs' = dirs \cup {ws}
              /\ unmerged' = unmerged
<1> DEFINE id == VCSName(name, repo, label)
           c  == Copy(ws, DirName(repo, label), repo, id, name, TRUE)
<1>1. /\ c \in WorkCopy /\ c.ws = ws /\ c.dir = DirName(repo, label) /\ c.repo = repo
      /\ c.id = VCSName(name, repo, label) /\ c.by = name /\ c.real
  BY NamesAre DEF Copy, WorkCopy
<1>2. Shaped(c, name)
  BY DEF Copy, Shaped, Usable
<1>3. Apart(c)
  BY DEF Copy, Usable, Apart, Free, CheckedOut, I, Ident
<1>4. disk' = disk \cup {c} /\ held' = held \cup {I(c)} /\ dirs' = dirs \cup {ws}
  BY DEF MakeCopy, I, Copy
<1>5. Work(Ident(repo, id)) = {}
  <2>1. Free(Ident(repo, id), label)
    BY DEF Usable
  <2>2. ASSUME NEW w \in Work(Ident(repo, id)) PROVE FALSE
    <3>1. w \in Branch /\ w.repo = repo /\ w.id = id
      BY <2>2 DEF Work, TypeOK, Ident
    <3>2. Ident(repo, id) \in held
      BY <2>2, <3>1 DEF WorkHeld, Work
    <3>3. repo \notin JJ
      BY <3>1 DEF Branch
    <3> QED BY <2>1, <2>2, <3>2, <3>3 DEF Free, HasWork, Ident
  <2> QED BY <2>2
<1>6. unmerged' = unmerged
  BY <1>5 DEF MakeCopy
<1> HIDE DEF c
<1> QED BY <1>1, <1>2, <1>3, <1>4, <1>6

\* A fork's copy is shaped like the first of its task; the work it takes over stays
\* where it is, too.
LEMMA CopyForked ==
    ASSUME TypeOK, DiskShaped, WorkHeld,
           NEW from \in TaskNames \cup {None}, NEW ws \in TaskNames, NEW name \in TaskNames,
           NEW repo \in Repos, Fork(from, ws, name, repo)
    PROVE  /\ \E c \in WorkCopy :
                 /\ c.ws = ws /\ c.by = name /\ Shaped(c, name)
                 /\ disk' = disk \cup {c} /\ held' = held \cup {I(c)}
           /\ unmerged' \subseteq Branch
           /\ WorkHeld'
<1> DEFINE c   == Copy(ws, repo, repo, name, name, TRUE)
           i   == Ident(repo, name)
           src == UNION {Work(Ident(c1.repo, c1.id)) : c1 \in {c1 \in In(from) : c1.dir = repo}}
<1>1. c \in WorkCopy /\ c.ws = ws /\ c.by = name
  BY NamesAre DEF Copy, WorkCopy
<1>2. Shaped(c, name)
  <2>1. DirName(repo, Initial) = repo
    BY RepoAssumption, InitialDir
  <2> QED BY <2>1, LabelsAre DEF Copy, Shaped, Validate, VCSName
<1>3. disk' = disk \cup {c} /\ held' = held \cup {i} /\ i = I(c)
  BY DEF Fork, I, Copy
<1>4. unmerged' = (unmerged \ Work(i)) \cup {[w EXCEPT !.id = name] : w \in src}
  BY DEF Fork
<1>5. \A w \in src : w \in unmerged /\ w \in Branch /\ w.repo = repo
  <2> SUFFICES ASSUME NEW c1 \in disk, c1.dir = repo, NEW w \in Work(Ident(c1.repo, c1.id))
               PROVE  w \in unmerged /\ w \in Branch /\ w.repo = repo
    BY DEF In
  <2>1. w \in unmerged /\ w \in Branch /\ w.repo = c1.repo
    BY DEF Work, TypeOK, Ident
  <2>2. c1.by \in TaskNames /\ Shaped(c1, c1.by)
    BY DEF DiskShaped, TypeOK, WorkCopy
  <2>3. c1.repo = repo
    BY <2>2, ShapedIs
  <2> QED BY <2>1, <2>3
<1>6. \A w \in src : /\ [w EXCEPT !.id = name] \in Branch
                     /\ [w EXCEPT !.id = name].repo = repo /\ [w EXCEPT !.id = name].id = name
  BY <1>5, NamesAre DEF Branch
<1> HIDE DEF src
<1>7. unmerged' \subseteq Branch
  BY <1>4, <1>6 DEF TypeOK
<1>8. ASSUME NEW w \in unmerged' PROVE Ident(w.repo, w.id) \in held'
  <2>1. CASE w \in unmerged
    BY <1>3, <2>1 DEF WorkHeld
  <2>2. CASE w \in {[v EXCEPT !.id = name] : v \in src}
    BY <1>3, <1>6, <2>2
  <2> QED BY <1>4, <1>8, <2>1, <2>2
<1> HIDE DEF c
<1> QED BY <1>1, <1>2, <1>3, <1>7, <1>8 DEF WorkHeld

\* Forgetting takes copies of git repos away, and one identity at most, which no work
\* is on.
LEMMA Forgotten ==
    ASSUME TypeOK, WorkHeld, NEW ws, NEW x, Forget(ws, x)
    PROVE  /\ disk' \subseteq disk /\ held' \subseteq held
           /\ \A c \in disk \ disk' : c.ws = ws /\ c.real /\ c.dir = x.dir /\ c.repo = x.repo
                                      /\ c.repo \in Repos \ JJ
           /\ x.repo \in Repos \ JJ =>
                 \A c \in disk' : ~(c.ws = ws /\ c.real /\ c.dir = x.dir /\ c.repo = x.repo)
           /\ x.repo \in JJ => Ident(x.repo, x.id) \notin held'
           /\ WorkHeld'
<1> DEFINE i    == Ident(x.repo, x.id)
           gone == {c \in In(ws) : c.real /\ c.dir = x.dir /\ c.repo = x.repo}
<1>1. disk' = IF x.repo \in Repos \ JJ THEN disk \ gone ELSE disk
  BY DEF Forget
<1>2. /\ held' = held \/ held' = held \ {i}
      /\ x.repo \in JJ => held' = held \ {i}
      /\ held' # held => x.repo \in JJ \/ ~HasWork(i)
      /\ unmerged' = unmerged
  BY DEF Forget
<1>3. ASSUME NEW w \in unmerged PROVE Ident(w.repo, w.id) \in held'
  <2>1. w \in Branch /\ Ident(w.repo, w.id) \in held
    BY DEF TypeOK, WorkHeld
  <2>2. CASE Ident(w.repo, w.id) = i
    <3>1. w.repo = x.repo /\ w.id = x.id
      BY <2>2 DEF Ident
    <3>2. HasWork(i) /\ x.repo \notin JJ
      BY <2>1, <3>1 DEF HasWork, Work, Ident, Branch
    <3> QED BY <1>2, <2>1, <3>2
  <2>3. CASE Ident(w.repo, w.id) # i
    BY <1>2, <2>1, <2>3
  <2> QED BY <2>2, <2>3
<1> QED BY <1>1, <1>2, <1>3 DEF WorkHeld, In

--------------------------------------------------------------------------------
(* Rows of tasks.                                                          *)

\* A task's name and workspace are given once, the latter by the creation at work or
\* with the row; who has completed stays so, and who is gone does not come back.
Grown ==
    /\ \A u \in Tasks : task[u].ws # None => task'[u].ws = task[u].ws
    /\ \A u \in Tasks : task[u].state # "absent" =>
          /\ task'[u].state # "absent" /\ task'[u].name = task[u].name
          /\ task[u].state = "completed" => task'[u].state = "completed"
          /\ task'[u].state = "living" => task[u].state = "living"
          /\ task'[u].ws # task[u].ws => SetDir /\ u = flow.task

\* A row is inserted for a task that had none.
LEMMA Inserted ==
    ASSUME TypeOK, TasksKnown, NEW t \in Tasks, NEW n \in TaskNames, NEW ws \in TaskNames \cup {None},
           Insert(t, n, ws)
    PROVE  /\ task' \in [Tasks -> Row] /\ TasksKnown' /\ Grown
           /\ task[t].state = "absent" /\ task'[t].state = "living"
           /\ task'[t].name = n /\ task'[t].ws = ws
           /\ \A u \in Tasks \ {t} : task'[u] = task[u]
<1> DEFINE n0 == Cardinality({u \in Tasks : task[u].state # "absent"})
           r  == [state |-> "living", name |-> n, ws |-> ws, age |-> n0]
<1>1. n0 \in 0..Cardinality(Tasks)
  <2>1. {u \in Tasks : task[u].state # "absent"} \subseteq Tasks /\ IsFiniteSet(Tasks)
    BY TaskAssumption
  <2>2. n0 <= Cardinality(Tasks) /\ IsFiniteSet({u \in Tasks : task[u].state # "absent"})
    BY <2>1, FS_Subset
  <2> QED BY <2>1, <2>2, FS_CardinalityType
<1>2. task' = [task EXCEPT ![t] = r] /\ task[t].state = "absent"
  BY DEF Insert
<1> HIDE DEF n0
<1>3. r \in Row
  BY <1>1 DEF Row
<1>4. task' \in [Tasks -> Row]
  BY <1>2, <1>3 DEF TypeOK
<1>5. task'[t] = r /\ \A u \in Tasks \ {t} : task'[u] = task[u]
  BY <1>2 DEF TypeOK
<1>6. TasksKnown'
  BY <1>5, Nothing DEF TasksKnown
<1>7. Grown
  BY <1>2, <1>5 DEF Grown, TasksKnown
<1> QED BY <1>2, <1>4, <1>5, <1>6, <1>7

\* What each step does to the rows of tasks.
LEMMA TaskSteps ==
    ASSUME Consistent, Next
    PROVE  task' \in [Tasks -> Row] /\ TasksKnown' /\ Grown
<1> USE DEF Consistent, Known
<1>0. TypeOK /\ TasksKnown /\ task \in [Tasks -> Row]
  BY DEF TypeOK
<1>1. CASE task' = task
  BY <1>0, <1>1 DEF TasksKnown, Grown
<1>2. CASE InsertTask
  <2>1. flow \in Flow /\ Insert(flow.task, flow.name, IF flow.kind = "fork" THEN flow.ws ELSE None)
    BY <1>2 DEF InsertTask, At, TypeOK
  <2>2. flow.task \in Tasks /\ flow.name \in TaskNames /\ flow.ws \in TaskNames
    BY <2>1 DEF Flow
  <2> QED BY <1>0, <2>1, <2>2, Inserted
<1>3. CASE SetDir
  <2>1. /\ flow # None /\ flow.step = "setdir" /\ flow.task \in Tasks /\ flow.ws \in TaskNames /\ flow.name \in TaskNames
        /\ task[flow.task].ws = None /\ task[flow.task].name = flow.name
        /\ task' = [task EXCEPT ![flow.task].ws = flow.ws]
    BY <1>3 DEF SetDir, At, FlowKnown, TypeOK, Flow
  <2>2. task' \in [Tasks -> Row]
    BY <1>0, <2>1 DEF Row
  <2>3. /\ \A u \in Tasks \ {flow.task} : task'[u] = task[u]
        /\ task'[flow.task].ws = flow.ws /\ task'[flow.task].name = flow.name
        /\ task'[flow.task].state = task[flow.task].state
    BY <1>0, <2>1 DEF Row
  <2>4. task[flow.task].state # "absent"
    BY <1>0, <2>1, Nothing DEF TasksKnown
  <2>5. TasksKnown'
    BY <1>0, <2>1, <2>3, <2>4, Nothing DEF TasksKnown
  <2> QED BY <1>3, <2>1, <2>2, <2>3, <2>5 DEF Grown
<1>4. ASSUME NEW f \in forking, InsertShared(f) PROVE task' \in [Tasks -> Row] /\ TasksKnown' /\ Grown
  <2>1. f.task \in Tasks /\ f.name \in TaskNames /\ f.ws \in TaskNames
    BY DEF TypeOK, Shared
  <2> QED BY <1>0, <1>4, <2>1, Inserted DEF InsertShared
<1>5. ASSUME NEW t \in Tasks, NEW s \in {"failed", "completed"}, task[t].state # "absent",
             task[t].state = "living" \/ s = "completed",
             task' = [task EXCEPT ![t].state = s]
      PROVE  task' \in [Tasks -> Row] /\ TasksKnown' /\ Grown
  <2>1. task' \in [Tasks -> Row]
    BY <1>0, <1>5 DEF Row
  <2>2. /\ \A u \in Tasks \ {t} : task'[u] = task[u]
        /\ task'[t].state = s /\ task'[t].ws = task[t].ws /\ task'[t].name = task[t].name
    BY <1>0, <1>5 DEF Row
  <2>3. TasksKnown'
    BY <1>0, <1>5, <2>2 DEF TasksKnown
  <2> QED BY <1>5, <2>1, <2>2, <2>3 DEF Grown
<1>6. ASSUME NEW e \in ending, SetCompleted(e) PROVE task' \in [Tasks -> Row] /\ TasksKnown' /\ Grown
  <2>1. e.task \in Tasks /\ task[e.task].state # "absent"
    BY DEF TypeOK, Ending, EndingKnown
  <2> QED BY <1>5, <1>6, <2>1 DEF SetCompleted
<1>7. ASSUME NEW t \in Tasks, Fail(t) PROVE task' \in [Tasks -> Row] /\ TasksKnown' /\ Grown
  BY <1>5, <1>7 DEF Fail, Living
<1> QED BY <1>1, <1>2, <1>3, <1>4, <1>6, <1>7, TaskMoves

\* Who is named in a workspace stays named there.
LEMMA StaysNamed ==
    ASSUME Consistent, Next, NEW ws \in TaskNames, NEW n
    PROVE  /\ NamedIn(ws, n) => NamedIn(ws, n)'
           /\ MadeFor(ws, n) => MadeFor(ws, n)'
<1>1. Grown /\ TasksKnown
  BY TaskSteps DEF Consistent, Known
<1>2. ASSUME NEW u \in Tasks, task[u].ws = ws, task[u].name = n
      PROVE  task'[u].ws = ws /\ task'[u].name = n
  BY <1>1, <1>2, Nothing DEF Grown, TasksKnown
<1> QED BY <1>2 DEF NamedIn, MadeFor

\* A task is in the workspace that it works in as long as it is there.
LEMMA StaysSettled ==
    ASSUME Consistent, Next, NEW t \in Tasks, NEW ws \in TaskNames, task[t].ws = ws
    PROVE  task'[t].ws = ws /\ task'[t].name = task[t].name
BY TaskSteps, Nothing DEF Grown, Consistent, Known, TasksKnown

--------------------------------------------------------------------------------
(* Working copies, identities and work.                                    *)

\* What a clone of the modal makes.
LEMMA RepoCloned ==
    ASSUME Consistent, NEW r \in Repos, CloneRepo(r)
    PROVE  \E c \in WorkCopy :
              /\ c.ws = flow.ws /\ c.by = flow.name /\ c.repo = r /\ c.real /\ Shaped(c, c.by) /\ Apart(c)
              /\ disk' = disk \cup {c} /\ held' = held \cup {I(c)} /\ dirs' = dirs \cup {flow.ws}
              /\ unmerged' = unmerged
              /\ Tried(r, {[dir |-> c.dir, repo |-> c.repo, id |-> c.id]},
                       IF flow.kind = "add" THEN "record" ELSE "tried")
<1> DEFINE label == Resolve(flow.ws, flow.name, r, Initial)
<1>1. flow \in Flow /\ flow.ws \in TaskNames /\ flow.name \in TaskNames
  BY DEF Consistent, TypeOK, CloneRepo, At, Flow
<1>2. /\ label # None /\ MakeCopy(flow.ws, flow.name, r, label)
      /\ Tried(r, {Made(r, label)}, IF flow.kind = "add" THEN "record" ELSE "tried")
  BY DEF CloneRepo, Can
<1>3. label \in Labels /\ Usable(flow.ws, flow.name, r, label)
  BY <1>2, LabelsAre, ResolveIs
<1> HIDE DEF label
<1>4. PICK c \in WorkCopy :
              /\ c.ws = flow.ws /\ c.dir = DirName(r, label) /\ c.repo = r
              /\ c.id = VCSName(flow.name, r, label) /\ c.by = flow.name /\ c.real
              /\ Shaped(c, flow.name) /\ Apart(c)
              /\ disk' = disk \cup {c} /\ held' = held \cup {I(c)} /\ dirs' = dirs \cup {flow.ws}
              /\ unmerged' = unmerged
  BY <1>1, <1>2, <1>3, CopyMade DEF Consistent, Known
<1>5. Made(r, label) = [dir |-> c.dir, repo |-> c.repo, id |-> c.id]
  BY <1>4 DEF Made
<1> QED BY <1>2, <1>4, <1>5 DEF Tried

\* Branches are given up, but none that a worktree has.
GivesUp == held' \subseteq held /\ \A i \in held \ held' : i.repo \notin JJ /\ ~CheckedOut(i)

\* A clone that fails gives up a branch without work, if any.
LEMMA OnlyDeleted ==
    ASSUME WorkHeld, NEW ws, NEW name, NEW repo, NEW label, Usable(ws, name, repo, label),
           UNCHANGED outside \/ OnlyDeletes(repo, VCSName(name, repo, label))
    PROVE  disk' = disk /\ dirs' = dirs /\ unmerged' = unmerged /\ GivesUp /\ WorkHeld'
<1> DEFINE i == Ident(repo, VCSName(name, repo, label))
<1>1. CASE UNCHANGED outside
  BY <1>1 DEF outside, GivesUp, WorkHeld
<1>2. CASE OnlyDeletes(repo, VCSName(name, repo, label))
  <2>1. /\ repo \notin JJ /\ i.repo = repo /\ disk' = disk /\ dirs' = dirs
        /\ held' = held \ {i} /\ unmerged' = unmerged \ Work(i)
    BY <1>2 DEF OnlyDeletes, Ident
  <2>2. i \in held => ~HasWork(i) /\ ~CheckedOut(i)
    BY <2>1 DEF Usable, Free
  <2>3. i \notin held => Work(i) = {}
    BY DEF WorkHeld, Work, Ident
  <2>4. unmerged' = unmerged
    BY <2>1, <2>2, <2>3 DEF HasWork
  <2>5. WorkHeld'
    <3>1. \A w \in unmerged : w \notin Work(i) => Ident(w.repo, w.id) # i
      BY DEF Work, Ident
    <3> HIDE DEF i
    <3> QED BY <2>1, <3>1 DEF WorkHeld
  <2> HIDE DEF i
  <2> QED BY <2>1, <2>2, <2>4, <2>5 DEF GivesUp
<1> QED BY <1>1, <1>2

\* A clone of the modal that fails ...
LEMMA CloneGivesUp ==
    ASSUME Consistent, NEW r \in Repos, CloneFails(r)
    PROVE  disk' = disk /\ dirs' = dirs /\ unmerged' = unmerged /\ GivesUp /\ WorkHeld'
<1> DEFINE label == Resolve(flow.ws, flow.name, r, Initial)
<1>1. CASE UNCHANGED outside
  BY <1>1 DEF outside, GivesUp, Consistent, Known, WorkHeld
<1>2. CASE Can(flow.ws, r, label) /\ OnlyDeletes(r, VCSName(flow.name, r, label))
  <2>1. Usable(flow.ws, flow.name, r, label)
    BY <1>2, LabelsAre, ResolveIs DEF Can
  <2> HIDE DEF label
  <2> QED BY <1>2, <2>1, OnlyDeleted DEF Consistent, Known
<1> QED BY <1>1, <1>2 DEF CloneFails

\* ... and a fork, where the branch may hold work.
LEMMA ForkGivesUp ==
    ASSUME Consistent, NEW r \in Repos, ForkFails(r)
    PROVE  disk' = disk /\ dirs' = dirs /\ GivesUp /\ unmerged' \subseteq unmerged /\ WorkHeld'
<1> DEFINE i == Ident(r, flow.name)
<1>1. CASE UNCHANGED outside
  BY <1>1 DEF outside, GivesUp, Consistent, Known, WorkHeld
<1>2. CASE Forkable(flow.name, r) /\ OnlyDeletes(r, flow.name)
  <2>1. /\ r \notin JJ /\ i.repo = r /\ disk' = disk /\ dirs' = dirs
        /\ held' = held \ {i} /\ unmerged' = unmerged \ Work(i)
    BY <1>2 DEF OnlyDeletes, Ident
  <2>2. ~CheckedOut(i)
    BY <1>2, <2>1 DEF Forkable
  <2>3. WorkHeld'
    <3>1. \A w \in unmerged : w \notin Work(i) => Ident(w.repo, w.id) # i
      BY DEF Work, Ident
    <3> HIDE DEF i
    <3> QED BY <2>1, <3>1 DEF Consistent, Known, WorkHeld
  <2> HIDE DEF i
  <2> QED BY <2>1, <2>2, <2>3 DEF GivesUp
<1> QED BY <1>1, <1>2 DEF ForkFails

\* What a clone of a request makes, if it makes one.
LEMMA SlotCloned ==
    ASSUME Consistent, CloneSlot
    PROVE  \/ /\ api' = None /\ flow' = flow
              /\ dirs' = dirs /\ disk' = disk /\ unmerged' = unmerged /\ GivesUp /\ WorkHeld'
           \/ \E c \in WorkCopy :
                /\ c.ws = api.ws /\ c.by = task[api.task].name /\ c.real /\ Shaped(c, c.by) /\ Apart(c)
                /\ disk' = disk \cup {c} /\ held' = held \cup {I(c)} /\ dirs' = dirs \cup {api.ws}
                /\ unmerged' = unmerged
                /\ api' = [api EXCEPT !.step = "record",
                                      !.target = [dir |-> c.dir, repo |-> c.repo, id |-> c.id]]
                /\ flow' = IF flow # None /\ flow.kind = "complete" /\ flow.ws = api.ws
                           THEN [flow EXCEPT !.late = @ \cup {c.dir}] ELSE flow
<1> DEFINE name == task[api.task].name
           l    == Resolve(api.ws, name, api.repo, api.label)
           x    == [dir |-> DirName(api.repo, l), repo |-> api.repo, id |-> VCSName(name, api.repo, l)]
<1>1. /\ api \in Request /\ api.task \in Tasks /\ api.ws \in TaskNames
      /\ api.op = "add" /\ api.repo \in Repos /\ api.label \in Labels /\ name \in TaskNames
  BY DEF Consistent, Known, TypeOK, CloneSlot, RequestKnown, Request, Row
<1>2. CASE api' = None /\ flow' = flow /\ UNCHANGED outside
  <2>1. dirs' = dirs /\ disk' = disk /\ unmerged' = unmerged /\ GivesUp /\ WorkHeld'
    BY <1>2 DEF outside, GivesUp, Consistent, Known, WorkHeld
  <2> QED BY <1>2, <2>1
<1>4. CASE Can(api.ws, api.repo, l) /\ OnlyDeletes(api.repo, x.id) /\ api' = None /\ flow' = flow
  <2>1. Usable(api.ws, name, api.repo, l) /\ x.id = VCSName(name, api.repo, l)
    BY <1>1, <1>4, ResolveIs DEF Can
  <2> HIDE DEF l, name
  <2>2. disk' = disk /\ dirs' = dirs /\ unmerged' = unmerged /\ GivesUp /\ WorkHeld'
    BY <1>4, <2>1, OnlyDeleted DEF Consistent, Known
  <2> QED BY <1>4, <2>2
<1>3. CASE /\ Can(api.ws, api.repo, l) /\ MakeCopy(api.ws, name, api.repo, l)
           /\ api' = [api EXCEPT !.step = "record", !.target = x]
           /\ flow' = IF flow # None /\ flow.kind = "complete" /\ flow.ws = api.ws
                      THEN [flow EXCEPT !.late = @ \cup {x.dir}] ELSE flow
  <2>1. /\ MakeCopy(api.ws, name, api.repo, l)
        /\ api' = [api EXCEPT !.step = "record", !.target = x]
        /\ flow' = IF flow # None /\ flow.kind = "complete" /\ flow.ws = api.ws
                   THEN [flow EXCEPT !.late = @ \cup {x.dir}] ELSE flow
        /\ l # None
    BY <1>3 DEF Can
  <2>2. l \in Labels /\ Usable(api.ws, name, api.repo, l)
    BY <1>1, <2>1, ResolveIs
  <2> HIDE DEF l, name
  <2>3. PICK c \in WorkCopy :
              /\ c.ws = api.ws /\ c.dir = DirName(api.repo, l) /\ c.repo = api.repo
              /\ c.id = VCSName(name, api.repo, l) /\ c.by = name /\ c.real
              /\ Shaped(c, name) /\ Apart(c)
              /\ disk' = disk \cup {c} /\ held' = held \cup {I(c)} /\ dirs' = dirs \cup {api.ws}
              /\ unmerged' = unmerged
    BY <1>1, <2>1, <2>2, CopyMade DEF Consistent, Known
  <2>4. x = [dir |-> c.dir, repo |-> c.repo, id |-> c.id] /\ x.dir = c.dir
    BY <2>3
  <2>5. /\ api' = [api EXCEPT !.step = "record", !.target = [dir |-> c.dir, repo |-> c.repo, id |-> c.id]]
        /\ flow' = IF flow # None /\ flow.kind = "complete" /\ flow.ws = api.ws
                   THEN [flow EXCEPT !.late = @ \cup {c.dir}] ELSE flow
    <3> HIDE DEF x
    <3> QED BY <2>1, <2>4
  <2>6. c.by = task[api.task].name
    BY <2>3 DEF name
  <2> HIDE DEF x
  <2> QED BY <2>3, <2>5, <2>6, Zenon
<1>5. \/ api' = None /\ flow' = flow /\ UNCHANGED outside
      \/ Can(api.ws, api.repo, l) /\ OnlyDeletes(api.repo, x.id) /\ api' = None /\ flow' = flow
      \/ /\ Can(api.ws, api.repo, l) /\ MakeCopy(api.ws, name, api.repo, l)
         /\ api' = [api EXCEPT !.step = "record", !.target = x]
         /\ flow' = IF flow # None /\ flow.kind = "complete" /\ flow.ws = api.ws
                    THEN [flow EXCEPT !.late = @ \cup {x.dir}] ELSE flow
  BY DEF CloneSlot
<1> QED
  <2> HIDE DEF x, l, name
  <2> QED BY <1>2, <1>3, <1>4, <1>5, Zenon

\* Each copy that a step makes is shaped, and made for a task of its workspace.
Fit(c) == c \in WorkCopy /\ Shaped(c, c.by) /\ (c.real => MadeFor(c.ws, c.by))

\* The copies of the next state are the old ones or fit.
LEMMA CopiesFit ==
    ASSUME Consistent, Next, NEW c \in disk' \ disk
    PROVE  Fit(c)
<1>0. /\ flow # None => flow \in Flow /\ flow.ws \in TaskNames /\ flow.name \in TaskNames
      /\ api # None => api \in Request /\ api.task \in Tasks /\ api.ws \in TaskNames
  BY DEF Consistent, TypeOK, Flow, Request
<1>1. CASE CopyOthers
  <2>1. PICK d \in disk : c = Copy(flow.ws, d.dir, d.repo, d.id, d.by, FALSE)
    BY <1>1 DEF CopyOthers, In
  <2>2. d \in WorkCopy /\ Shaped(d, d.by) /\ flow.ws \in TaskNames
    BY <1>0, <1>1 DEF Consistent, Known, TypeOK, DiskShaped, CopyOthers, At
  <2> QED BY <2>1, <2>2 DEF Fit, Copy, WorkCopy, Shaped
<1>2. ASSUME NEW r \in Repos, CloneRepo(r) PROVE Fit(c)
  <2>1. c \in WorkCopy /\ c.ws = flow.ws /\ c.by = flow.name /\ Shaped(c, c.by)
    BY <1>2, RepoCloned
  <2>2. flow # None /\ flow.kind \in {"create", "add"}
    BY <1>2 DEF CloneRepo, At
  <2>3. MadeFor(flow.ws, flow.name)
    <3>1. CASE flow.kind = "create"
      BY <2>2, <3>1 DEF Consistent, Known, FlowKnown, MadeFor
    <3>2. CASE flow.kind = "add"
      <4>1. Settled(flow) /\ flow.task \in Tasks
        BY <1>0, <2>2, <3>2 DEF Consistent, Known, FlowKnown, Flow
      <4> QED BY <4>1 DEF Settled, MadeFor, NamedIn
    <3> QED BY <2>2, <3>1, <3>2
  <2> QED BY <2>1, <2>3 DEF Fit
<1>3. ASSUME NEW r \in Repos, ForkRepo(r) PROVE Fit(c)
  <2>1. flow # None /\ flow.kind = "fork" /\ Fork(flow.from, flow.ws, flow.name, r)
    BY <1>3 DEF ForkRepo, At
  <2>2. flow.from \in TaskNames \cup {None} /\ flow.ws = flow.name
    BY <1>0, <2>1 DEF Flow, Consistent, Known, FlowKnown
  <2>3. c \in WorkCopy /\ c.ws = flow.ws /\ c.by = flow.name /\ Shaped(c, c.by)
    BY <1>0, <2>1, <2>2, CopyForked DEF Consistent, Known
  <2> QED BY <2>2, <2>3 DEF Fit, MadeFor
<1>4. CASE CloneSlot
  <2>1. c \in WorkCopy /\ c.ws = api.ws /\ c.by = task[api.task].name /\ Shaped(c, c.by)
    <3>1. disk' # disk
      OBVIOUS
    <3>2. PICK d \in WorkCopy : d.ws = api.ws /\ d.by = task[api.task].name /\ Shaped(d, d.by) /\ disk' = disk \cup {d}
      BY <1>4, <3>1, SlotCloned, Zenon
    <3>3. c = d
      BY <3>2
    <3> QED BY <3>2, <3>3
  <2>2. api # None /\ api.task \in Tasks /\ task[api.task].ws = api.ws
    BY <1>0, <1>4 DEF CloneSlot, Consistent, Known, RequestKnown
  <2> QED BY <2>1, <2>2 DEF Fit, MadeFor, NamedIn
<1>5. ASSUME \/ disk' = disk \/ Proceed \/ Cancel \/ (\E x \in flow.targets : ForgetNext(x))
             \/ RemoveDir \/ ForgetSlot \/ DeleteSlot
      PROVE  FALSE
  <2>1. disk' \subseteq disk
    <3>1. CASE Proceed \/ Cancel \/ RemoveDir
      BY <3>1 DEF Proceed, Cancel, RemoveDir, RemoveAll, Goto, outside
    <3>2. ASSUME NEW x \in flow.targets, ForgetNext(x) PROVE disk' \subseteq disk
      BY <3>2, Forgotten DEF ForgetNext, outside, Consistent, Known
    <3>3. CASE ForgetSlot
      BY <3>3, Forgotten DEF ForgetSlot, outside, Consistent, Known
    <3>4. CASE DeleteSlot
      BY <3>4 DEF DeleteSlot
    <3> QED BY <1>5, <3>1, <3>2, <3>3, <3>4
  <2> QED BY <2>1
<1> QED BY <1>1, <1>2, <1>3, <1>4, <1>5, DiskMoves

\* What each step does to what is outside krang.
LEMMA DiskSteps ==
    ASSUME Consistent, Next
    PROVE  /\ disk' \subseteq WorkCopy /\ DiskShaped'
           /\ dirs' \subseteq TaskNames
           /\ held' \subseteq [repo : Repos, id : Ids] /\ unmerged' \subseteq Branch /\ WorkHeld'
<1>0. /\ flow # None => flow \in Flow /\ flow.ws \in TaskNames /\ flow.name \in TaskNames
      /\ api # None => api \in Request /\ api.ws \in TaskNames
      /\ disk \subseteq WorkCopy /\ dirs \subseteq TaskNames
      /\ held \subseteq [repo : Repos, id : Ids] /\ unmerged \subseteq Branch
      /\ WorkHeld /\ DiskShaped
  BY DEF Consistent, Known, TypeOK, Flow, Request
<1>1. disk' \subseteq WorkCopy
  BY <1>0, CopiesFit DEF Fit
<1>2. DiskShaped'
  <2> SUFFICES ASSUME NEW c \in disk'
               PROVE  Shaped(c, c.by) /\ (c.real => MadeFor(c.ws, c.by)')
    BY DEF DiskShaped, Shaped
  <2>1. c \in WorkCopy /\ Shaped(c, c.by) /\ (c.real => MadeFor(c.ws, c.by))
    BY <1>0, CopiesFit DEF Fit, DiskShaped
  <2>2. c.ws \in TaskNames
    BY <2>1 DEF WorkCopy
  <2> QED BY <2>1, <2>2, StaysNamed
<1>3. dirs' \subseteq TaskNames
  <2>1. CASE MakeDir \/ Proceed \/ Cancel \/ RemoveDir
    BY <1>0, <2>1 DEF MakeDir, At, Proceed, Cancel, RemoveDir, RemoveAll, outside
  <2>2. ASSUME NEW r \in Repos, CloneRepo(r) PROVE dirs' \subseteq TaskNames
    BY <1>0, <2>2, RepoCloned DEF CloneRepo, At
  <2>3. CASE CloneSlot
    BY <1>0, <2>3, SlotCloned DEF CloneSlot
  <2> QED BY <1>0, <2>1, <2>2, <2>3, DirsMoves
<1> DEFINE H == held' \subseteq [repo : Repos, id : Ids]
           Q == H /\ unmerged' \subseteq Branch /\ WorkHeld'
<1>4. \A c \in WorkCopy : I(c) \in [repo : Repos, id : Ids]
  BY DEF WorkCopy, I, Ident
<1>5. ASSUME NEW c \in WorkCopy, held' = held \cup {I(c)}, unmerged' = unmerged PROVE Q
  BY <1>0, <1>4, <1>5 DEF WorkHeld
<1>6. ASSUME NEW r \in Repos, ForkRepo(r) PROVE Q
  <2>1. flow # None /\ Fork(flow.from, flow.ws, flow.name, r) /\ flow.from \in TaskNames \cup {None}
    BY <1>0, <1>6 DEF ForkRepo, At, Flow
  <2>2. \E c \in WorkCopy : held' = held \cup {I(c)}
    BY <1>0, <2>1, CopyForked DEF Consistent
  <2>3. unmerged' \subseteq Branch /\ WorkHeld'
    BY <1>0, <2>1, CopyForked DEF Consistent
  <2>4. H
    BY <1>0, <1>4, <2>2
  <2> QED BY <2>3, <2>4
<1>7. ASSUME NEW ws, NEW x, Forget(ws, x) PROVE Q
  BY <1>0, <1>7, Forgotten DEF Consistent, Forget
<1>8. ASSUME held' = held /\ unmerged' = unmerged PROVE Q
  BY <1>0, <1>8 DEF WorkHeld
<1>9. ASSUME NEW x \in flow.targets, ForgetNext(x) PROVE Q
  <2>1. Forget(flow.ws, x) \/ UNCHANGED outside
    BY <1>9 DEF ForgetNext
  <2> QED BY <1>7, <1>8, <2>1 DEF outside
<1>10. ASSUME ForgetSlot PROVE Q
  <2>1. Forget(api.ws, api.target) \/ UNCHANGED outside
    BY <1>10 DEF ForgetSlot
  <2> QED BY <1>7, <1>8, <2>1 DEF outside
<1>11. ASSUME CloneSlot PROVE Q
  <2>1. \/ GivesUp /\ unmerged' = unmerged /\ WorkHeld'
        \/ \E c \in WorkCopy : held' = held \cup {I(c)} /\ unmerged' = unmerged
    BY <1>11, SlotCloned, Zenon
  <2> QED BY <1>0, <1>5, <2>1 DEF GivesUp
<1>12. ASSUME NEW c \in disk, Commit(c) PROVE Q
  <2>1. /\ unmerged' = unmerged \cup {[repo |-> c.repo, id |-> c.id, by |-> c.id]} /\ held' = held
        /\ c.repo \notin JJ /\ Ident(c.repo, c.id) \in held /\ c \in WorkCopy
    BY <1>0, <1>12 DEF Commit
  <2> QED BY <1>0, <2>1 DEF WorkHeld, Branch, WorkCopy
<1>13. ASSUME NEW w \in unmerged, Merge(w) PROVE Q
  BY <1>0, <1>13 DEF Merge, WorkHeld
<1>14. ASSUME NEW r \in Repos, CloneRepo(r) PROVE Q
  <2>1. \E c \in WorkCopy : held' = held \cup {I(c)} /\ unmerged' = unmerged
    BY <1>14, RepoCloned, Zenon
  <2> QED BY <1>5, <2>1
<1>16. ASSUME NEW r \in Repos, CloneFails(r) \/ ForkFails(r) PROVE Q
  BY <1>0, <1>16, CloneGivesUp, ForkGivesUp DEF GivesUp
<1>15. Q
  BY <1>6, <1>8, <1>9, <1>10, <1>11, <1>12, <1>13, <1>14, <1>16, HeldMoves, UnmergedMoves, Zenon
<1> QED BY <1>1, <1>2, <1>3, <1>15

--------------------------------------------------------------------------------
(* Rows of repos.                                                          *)

\* A row records a copy for a task of the workspace, or the guess for it.
Fits(r) == /\ r \in RepoRow /\ task[r.task].ws # None
           /\ IF r.by = None THEN r.repo = r.dir /\ r.id = task[r.task].ws
              ELSE Shaped(r, r.by) /\ NamedIn(task[r.task].ws, r.by)

\* What is recorded for a copy made fits.
LEMMA RecordFits ==
    ASSUME NEW t \in Tasks, NEW n \in TaskNames, NEW x \in Target, Shaped(x, n),
           task[t].ws # None, task[t].name = n,
           NEW r, r = Record(t, x.dir, x.repo, x.id, n)
    PROVE  Fits(r)
<1>1. r \in RepoRow /\ r.task = t /\ r.by = n /\ r.dir = x.dir /\ r.repo = x.repo /\ r.id = x.id
  BY DEF Record, RepoRow, Target
<1>2. Shaped(r, n) /\ NamedIn(task[t].ws, n)
  BY <1>1 DEF Shaped, NamedIn
<1> QED BY <1>1, <1>2, Nothing DEF Fits

\* The rows of the next state are the old ones or fit.
LEMMA RowsFit ==
    ASSUME Consistent, Next, NEW r \in rows' \ rows
    PROVE  Fits(r)
<1>1. ASSUME NEW x \in flow.made, RecordSlot(x) PROVE Fits(r)
  <2>1. /\ flow \in Flow /\ flow.task \in Tasks /\ flow.name \in TaskNames /\ flow.ws \in TaskNames
        /\ flow.kind \in {"create", "add"} /\ flow.step = "record" /\ x \in Target
    BY <1>1 DEF RecordSlot, At, Consistent, TypeOK, Flow
  <2>2. flow # None
    BY <2>1, Nothing
  <2>3. task[flow.task].ws = flow.ws /\ task[flow.task].name = flow.name /\ Shaped(x, flow.name)
    BY <2>1, <2>2 DEF Consistent, Known, FlowKnown, Settled
  <2>4. r = Record(flow.task, x.dir, x.repo, x.id, flow.name)
    BY <1>1 DEF RecordSlot, Recorded
  <2> QED BY <2>1, <2>3, <2>4, RecordFits, Nothing
<1>2. CASE RecordAdded
  <2>1. /\ api # None /\ api \in Request /\ api.step = "record" /\ api.task \in Tasks /\ api.ws \in TaskNames
        /\ r = Record(api.task, api.target.dir, api.target.repo, api.target.id, task[api.task].name)
    BY <1>2 DEF RecordAdded, Recorded, Consistent, TypeOK, Request
  <2>2. /\ api.target \in Target /\ Shaped(api.target, task[api.task].name)
        /\ task[api.task].ws = api.ws /\ task[api.task].name \in TaskNames
    BY <2>1 DEF Consistent, Known, RequestKnown, Request, TypeOK, Row
  <2> QED BY <2>1, <2>2, RecordFits, Nothing
<1>3. ASSUME NEW e \in ending, Release(e) PROVE Fits(r)
  <2>1. e.heir # None /\ e.step = "write"
    BY <1>3 DEF Release
  <2>2. PICK q \in RowsOf(e.task) : r = [q EXCEPT !.task = e.heir]
    BY <1>3, <2>1 DEF Release
  <2>3. q \in RepoRow /\ q.task = e.task /\ e.heir \in Tasks /\ q \in rows
    BY <2>1 DEF RowsOf, Consistent, TypeOK, Ending
  <2>4. task[e.heir].ws = task[e.task].ws /\ task[e.heir].ws # None
    BY <2>1 DEF Consistent, Known, EndingKnown
  <2>5. /\ r \in RepoRow /\ r.task = e.heir
        /\ r.dir = q.dir /\ r.repo = q.repo /\ r.id = q.id /\ r.by = q.by
    BY <2>2, <2>3 DEF RepoRow
  <2>6. IF q.by = None THEN q.repo = q.dir /\ q.id = task[e.task].ws
        ELSE Shaped(q, q.by) /\ NamedIn(task[e.task].ws, q.by)
    BY <2>3 DEF Consistent, Known, RowsShaped
  <2>7. Shaped(q, q.by) => Shaped(r, r.by)
    BY <2>5 DEF Shaped
  <2> QED BY <2>4, <2>5, <2>6, <2>7 DEF Fits
<1>4. CASE DropRow
  BY <1>4 DEF DropRow
<1>5. ASSUME NEW t \in Tasks, Backfill(t) PROVE Fits(r)
  <2>1. PICK c \in In(task[t].ws) : r = Record(t, c.dir, c.dir, task[t].ws, None)
    BY <1>5 DEF Backfill, Recorded
  <2>2. task[t].ws \in TaskNames
    BY <1>5 DEF Backfill, Consistent, Known, PassKnown, TypeOK, Row
  <2>3. c.dir \in Dirs
    BY DEF In, Consistent, TypeOK, WorkCopy
  <2>4. r \in RepoRow /\ r.task = t /\ r.by = None /\ r.dir = r.repo /\ r.id = task[t].ws
    BY <2>1, <2>2, <2>3, NamesAre DEF Record, RepoRow
  <2> QED BY <2>2, <2>4, Nothing DEF Fits
<1> QED BY <1>1, <1>2, <1>3, <1>4, <1>5, RowsMoves

\* What each step does to the rows of repos.
LEMMA RowSteps ==
    ASSUME Consistent, Next
    PROVE  rows' \subseteq RepoRow /\ RowsShaped'
<1>1. ASSUME NEW r \in rows' PROVE Fits(r)
  <2>1. CASE r \in rows
    BY <2>1 DEF Consistent, TypeOK, Known, RowsShaped, Fits
  <2>2. CASE r \notin rows
    BY <2>2, RowsFit
  <2> QED BY <2>1, <2>2
<1>2. ASSUME NEW r \in rows'
      PROVE  /\ task'[r.task].ws # None
             /\ IF r.by = None THEN r.repo = r.dir /\ r.id = task'[r.task].ws
                ELSE Shaped(r, r.by) /\ NamedIn(task[r.task].ws, r.by)'
  <2>1. Fits(r) /\ r.task \in Tasks
    BY <1>1 DEF Fits, RepoRow
  <2>2. task[r.task].ws \in TaskNames
    BY <2>1 DEF Fits, Consistent, TypeOK, Row
  <2>3. task'[r.task].ws = task[r.task].ws
    BY <2>1, <2>2, StaysSettled
  <2>4. NamedIn(task[r.task].ws, r.by) => NamedIn(task[r.task].ws, r.by)'
    <3> DEFINE ws == task[r.task].ws
    <3>1. ws \in TaskNames
      BY <2>2
    <3>2. NamedIn(ws, r.by) => \E u \in Tasks : task[u].ws = ws /\ task[u].name = r.by
      BY DEF NamedIn
    <3>3. \A u \in Tasks : task[u].ws = ws => task'[u].ws = ws /\ task'[u].name = task[u].name
      BY <3>1, StaysSettled
    <3>4. NamedIn(ws, r.by) => \E u \in Tasks : task'[u].ws = ws /\ task'[u].name = r.by
      BY <3>2, <3>3
    <3> QED BY <2>3, <3>4 DEF NamedIn
  <2> QED BY <2>1, <2>2, <2>3, <2>4, Nothing DEF Fits
<1>3. rows' \subseteq RepoRow
  BY <1>1 DEF Fits
<1>4. RowsShaped'
  BY <1>2 DEF RowsShaped, Shaped
<1> QED BY <1>3, <1>4

\* Rows that are shaped tell the truth about copies that are.
LEMMA Truth ==
    ASSUME TypeOK, DiskShaped, RowsShaped
    PROVE  RowsTellTruth
<1> SUFFICES ASSUME NEW r \in rows, NEW c \in disk, c.real, task[r.task].ws = c.ws, r.dir = c.dir
             PROVE  IF r.by = None THEN r.repo = r.dir /\ r.id = c.ws
                    ELSE r.repo = c.repo /\ (r.id = c.id \/ (r.by # c.by /\ Shares(c.ws)))
  BY DEF RowsTellTruth
<1>1. CASE r.by = None
  BY <1>1 DEF RowsShaped
<1>2. CASE r.by # None
  <2>1. Shaped(r, r.by) /\ NamedIn(c.ws, r.by)
    BY <1>2 DEF RowsShaped
  <2>2. Shaped(c, c.by) /\ MadeFor(c.ws, c.by)
    BY DEF DiskShaped
  <2>3. r.repo = c.repo /\ (r.by = c.by => r.id = c.id)
    BY <2>1, <2>2, SameDir
  <2>4. ASSUME r.by # c.by PROVE Shares(c.ws)
    <3>1. \A n : NamedIn(c.ws, n) /\ n # c.ws => Shares(c.ws)
      BY DEF NamedIn, Shares
    <3>2. r.by # c.ws \/ (c.by # c.ws /\ NamedIn(c.ws, c.by))
      BY <2>2, <2>4 DEF MadeFor
    <3> QED BY <2>1, <3>1, <3>2
  <2> QED BY <1>2, <2>3, <2>4
<1> QED BY <1>1, <1>2

--------------------------------------------------------------------------------
(* The modal.                                                              *)

\* What is forgotten or removed has the types of it.
LEMMA TargetsAre ==
    ASSUME TypeOK, DiskShaped, RowsShaped, NEW t \in Tasks, task[t].ws # None
    PROVE  /\ Targets(t) \subseteq Target
           /\ \A c \in In(task[t].ws) : \E x \in Targets(t) : x.dir = c.dir
<1> DEFINE known == {[dir |-> r.dir, repo |-> r.repo, id |-> r.id] : r \in RowsOf(t)}
           there == {c.dir : c \in In(task[t].ws)}
           rest  == {Guess(task[t].ws, d) : d \in there \ {x.dir : x \in known}}
<1>1. Targets(t) = known \cup rest
  BY DEF Targets
<1>2. known \subseteq Target
  BY DEF RowsOf, TypeOK, RepoRow, Target
<1>3. task[t].ws \in TaskNames /\ there \subseteq Dirs
  BY DEF TypeOK, Row, In, WorkCopy
<1>4. \A d \in Dirs : Guess(task[t].ws, d) \in Target /\ Guess(task[t].ws, d).dir = d
  BY <1>3, NamesAre DEF Guess, Target
<1>5. ASSUME NEW c \in In(task[t].ws) PROVE \E x \in known \cup rest : x.dir = c.dir
  <2>1. CASE c.dir \in {x.dir : x \in known}
    BY <2>1
  <2>2. CASE c.dir \notin {x.dir : x \in known}
    <3>1. Guess(task[t].ws, c.dir) \in rest
      BY <2>2
    <3>2. c.dir \in there
      OBVIOUS
    <3> HIDE DEF rest, known, there
    <3> QED BY <1>3, <1>4, <3>1, <3>2
  <2> QED BY <2>1, <2>2
<1>6. rest \subseteq Target
  BY <1>3, <1>4
<1> HIDE DEF known, rest
<1> QED BY <1>1, <1>2, <1>5, <1>6

\* Completions are of the tasks they were of, but for one that begins beside no flow.
LEMMA EndingTasks ==
    ASSUME Consistent, Next, flow # None
    PROVE  \A e \in ending' : \E d \in ending : d.task = e.task
<1>0. ending \subseteq Ending
  BY DEF Consistent, TypeOK
<1>1. CASE ending' = ending \/ Crash
  BY <1>1 DEF Crash
<1>2. ASSUME NEW t \in Tasks, Confirm(t) PROVE FALSE
  BY <1>2 DEF Confirm
<1>3. ASSUME NEW e \in ending, SetCompleted(e) PROVE \A f \in ending' : \E d \in ending : d.task = f.task
  BY <1>0, <1>3 DEF SetCompleted, Advance, Ending
<1>4. ASSUME NEW e \in ending, AskHeir(e) PROVE \A f \in ending' : \E d \in ending : d.task = f.task
  <2>1. \E h : ending' = (ending \ {e}) \cup {[e EXCEPT !.step = "write", !.heir = h, !.there = There]}
    BY <1>4 DEF AskHeir, Advance
  <2> QED BY <1>0, <2>1 DEF Ending
<1>5. ASSUME NEW e \in ending, CompleteFails(e) \/ Release(e) PROVE ending' \subseteq ending
  BY <1>5 DEF CompleteFails, Release
<1> QED BY <1>1, <1>2, <1>3, <1>4, <1>5, EndingMoves

\* g goes on from f.
GoesOn(f, g) == /\ g \in Flow /\ g.kind = f.kind /\ g.task = f.task /\ g.name = f.name
                /\ g.ws = f.ws /\ g.targets = f.targets /\ g.there = f.there

\* A flow that goes on is known, if its next step is.
LEMMA FlowGoesOn ==
    ASSUME Consistent, Next, flow # None, flow' # None, GoesOn(flow, flow'),
           flow.kind \in {"create", "fork"} => flow'.step \notin {"stop", "forget"},
           flow.kind = "fork" => flow'.step \notin {"setdir", "record"},
           flow.kind = "add" => flow'.step \in {"repos", "tried", "record"},
           flow.kind \in {"create", "add"} => \A x \in flow'.made : Shaped(x, flow.name),
           flow'.step = "setdir" => /\ task'[flow.task].ws = None /\ task'[flow.task].name = flow.name
                                    /\ \A e \in ending' : e.task # flow.task,
           flow'.step = "record" /\ flow.kind = "create" =>
                task'[flow.task].ws = flow.ws /\ task'[flow.task].name = flow.name
    PROVE  FlowKnown'
<1>1. /\ FlowKnown /\ TypeOK /\ flow \in Flow /\ flow.task \in Tasks /\ flow.ws \in TaskNames
      /\ flow.kind \in {"create", "add", "fork", "complete"} /\ flow.there \subseteq Tasks
  BY DEF Consistent, Known, TypeOK, Flow
<1>2. flow'.there \subseteq There'
  <2>1. flow.there \subseteq There
    BY <1>1 DEF FlowKnown
  <2>2. There \subseteq There'
    <3>1. Grown
      BY TaskSteps
    <3> QED BY <3>1 DEF There, Grown
  <2> QED BY <2>1, <2>2 DEF GoesOn
<1>3. flow.kind \in {"add", "complete"} => task'[flow.task].ws = flow.ws /\ task'[flow.task].name = flow.name
  <2>1. flow.kind \in {"add", "complete"} => task[flow.task].ws = flow.ws /\ task[flow.task].name = flow.name
    BY <1>1 DEF FlowKnown, Settled
  <2> QED BY <1>1, <2>1, StaysSettled
<1>4. flow.kind \in {"create", "fork"} => flow'.name = flow'.ws
  BY <1>1 DEF FlowKnown, GoesOn
<1>5. /\ flow'.kind \in {"create", "fork"} => flow'.name = flow'.ws /\ flow'.step \notin {"stop", "forget"}
      /\ flow'.kind = "fork" => flow'.step \notin {"setdir", "record"}
      /\ flow'.kind = "add" => flow'.step \in {"repos", "tried", "record"}
  BY <1>4 DEF GoesOn
<1>6. flow'.step = "setdir" => /\ task'[flow'.task].ws = None /\ task'[flow'.task].name = flow'.name
                               /\ \A e \in ending' : e.task # flow'.task
  BY DEF GoesOn
<1>7. flow'.kind \in {"add", "complete"} \/ flow'.step = "record" =>
         task'[flow'.task].ws = flow'.ws /\ task'[flow'.task].name = flow'.name
  BY <1>1, <1>3, <1>5 DEF GoesOn
<1>8. flow'.kind \in {"create", "add"} => \A x \in flow'.made : Shaped(x, flow'.name)
  BY DEF GoesOn
<1> QED BY <1>2, <1>5, <1>6, <1>7, <1>8 DEF FlowKnown, Settled, Shaped

\* The modal is what it should be after the step.
FlowOk == (flow' = None \/ flow' \in Flow) /\ FlowKnown'

\* A flow that a human starts is known.
LEMMA FlowBegins ==
    ASSUME Consistent, Next, flow = None, flow' # None
    PROVE  FlowOk
<1>0. TypeOK /\ TasksKnown /\ DiskShaped /\ RowsShaped
  BY DEF Consistent, Known
<1>1. ASSUME NEW t \in Tasks, NEW n \in TaskNames, NEW R \in SUBSET Repos, BeginCreate(t, n, R)
      PROVE  FlowOk
  <2>1. Begin("create", t, n, n, None, "mkdir", R, {}) /\ task' = task
    BY <1>1 DEF BeginCreate, database
  <2>2. /\ flow' \in Flow /\ flow'.kind = "create" /\ flow'.name = n /\ flow'.ws = n
        /\ flow'.step = "mkdir" /\ flow'.made = {} /\ flow'.there = There
    BY <2>1 DEF Begin, Flow, There
  <2> QED BY <2>1, <2>2 DEF FlowOk, FlowKnown, There
<1>2. ASSUME NEW t \in Tasks, NEW R \in SUBSET Repos, BeginAdd(t, R)
      PROVE  FlowOk
  <2>1. Begin("add", t, task[t].name, task[t].ws, None, "repos", R, {}) /\ task' = task
    BY <1>2 DEF BeginAdd, database
  <2>2. task[t].name \in TaskNames /\ task[t].ws \in TaskNames
    BY <1>0, <1>2 DEF BeginAdd, Living, TypeOK, Row, TasksKnown
  <2>3. /\ flow' \in Flow /\ flow'.kind = "add" /\ flow'.name = task[t].name /\ flow'.ws = task[t].ws
        /\ flow'.task = t /\ flow'.step = "repos" /\ flow'.made = {} /\ flow'.there = There
    BY <2>1, <2>2 DEF Begin, Flow, There
  <2> QED BY <2>1, <2>3 DEF FlowOk, FlowKnown, There, Settled
<1>3. ASSUME NEW src \in Tasks, NEW t \in Tasks, NEW n \in TaskNames, BeginFork(src, t, n)
      PROVE  FlowOk
  <2> DEFINE R == Repos \cap {c.dir : c \in In(task[src].ws)}
  <2>1. Begin("fork", t, n, n, task[src].ws, "mkdir", R, {}) /\ task' = task
    BY <1>3 DEF BeginFork, database
  <2>2. task[src].ws \in TaskNames \cup {None} /\ R \in SUBSET Repos
    BY <1>0 DEF TypeOK, Row
  <2> HIDE DEF R
  <2>3. /\ flow' \in Flow /\ flow'.kind = "fork" /\ flow'.name = n /\ flow'.ws = n
        /\ flow'.step = "mkdir" /\ flow'.there = There
    BY <2>1, <2>2 DEF Begin, Flow, There
  <2> QED BY <2>1, <2>3 DEF FlowOk, FlowKnown, There
<1>4. ASSUME NEW t \in Tasks, Confirm(t)
      PROVE  FlowOk
  <2>1. /\ task[t].ws # None /\ Living(t) /\ task' = task
        /\ Begin("complete", t, task[t].name, task[t].ws, None, "stop", {}, Targets(t))
    BY <1>4 DEF Confirm, database
  <2>2. task[t].name \in TaskNames /\ task[t].ws \in TaskNames /\ Targets(t) \in SUBSET Target
    BY <1>0, <2>1, TargetsAre DEF Living, TypeOK, Row, TasksKnown
  <2>3. /\ flow' \in Flow /\ flow'.kind = "complete" /\ flow'.name = task[t].name /\ flow'.ws = task[t].ws
        /\ flow'.task = t /\ flow'.step = "stop" /\ flow'.there = There
    BY <2>1, <2>2 DEF Begin, Flow, There
  <2> QED BY <2>1, <2>3 DEF FlowOk, FlowKnown, There, Settled
<1>5. ASSUME NEW e \in ending, CompleteFails(e) \/ Release(e)
      PROVE  flow' = None
  BY <1>5 DEF CompleteFails, Release, At
<1>6. CASE CloneSlot
  <2>1. flow' = flow
    BY <1>6, SlotCloned
  <2> QED BY <2>1
<1> QED BY <1>1, <1>2, <1>3, <1>4, <1>5, <1>6, FlowMoves DEF MakeDir, CopyOthers, CloneRepo, CloneFails,
           ForkRepo, ForkFails, Proceed, Cancel, InsertTask, SetDir, RecordSlot, LaunchFails,
           ForgetNext, RemoveDir, Crash, At

\* One that stays as it is stays known.
LEMMA FlowStays ==
    ASSUME Consistent, Next, flow # None, flow' = flow
    PROVE  FlowOk
<1>1. FlowKnown /\ flow \in Flow /\ flow.task \in Tasks
  BY DEF Consistent, Known, TypeOK, Flow
<1>2. GoesOn(flow, flow')
  BY <1>1 DEF GoesOn
<1>3. ~SetDir
  BY <1>1, Nothing DEF SetDir, Goto, At, Flow
<1>4. flow.step = "setdir" => /\ task'[flow.task].ws = None /\ task'[flow.task].name = flow.name
                              /\ \A e \in ending' : e.task # flow.task
  <2> SUFFICES ASSUME flow.step = "setdir"
               PROVE  /\ task'[flow.task].ws = None /\ task'[flow.task].name = flow.name
                      /\ \A e \in ending' : e.task # flow.task
    OBVIOUS
  <2>1. task[flow.task].ws = None /\ task[flow.task].name = flow.name /\ \A e \in ending : e.task # flow.task
    BY <1>1 DEF FlowKnown
  <2>2. task[flow.task].state # "absent"
    BY <1>1, <2>1, Nothing DEF Consistent, Known, TasksKnown, Flow
  <2> QED BY <1>1, <1>3, <2>1, <2>2, TaskSteps, EndingTasks DEF Grown
<1>5. flow.step = "record" /\ flow.kind = "create" =>
         task'[flow.task].ws = flow.ws /\ task'[flow.task].name = flow.name
  <2>1. flow.step = "record" => task[flow.task].ws = flow.ws /\ task[flow.task].name = flow.name
    BY <1>1 DEF FlowKnown, Settled
  <2>2. flow.ws \in TaskNames
    BY <1>1 DEF Flow
  <2> QED BY <1>1, <2>1, <2>2, StaysSettled
<1>6. /\ flow.kind \in {"create", "fork"} => flow.step \notin {"stop", "forget"}
      /\ flow.kind = "fork" => flow.step \notin {"setdir", "record"}
      /\ flow.kind = "add" => flow.step \in {"repos", "tried", "record"}
      /\ flow.kind \in {"create", "add"} => \A x \in flow.made : Shaped(x, flow.name)
  BY <1>1 DEF FlowKnown
<1>7. FlowKnown'
  BY <1>2, <1>4, <1>5, <1>6, FlowGoesOn
<1> QED BY <1>1, <1>7 DEF FlowOk

\* One on its way from step to step, making nothing, is known.
LEMMA FlowMovesOn ==
    ASSUME Consistent, Next, flow # None, NEW step, NEW made, NEW R \in SUBSET Repos,
           flow' = [flow EXCEPT !.repos = R, !.made = made, !.step = step],
           made \in SUBSET Target,
           step \in {"copy", "repos", "tried", "insert"}, flow.kind \in {"create", "add", "fork"},
           flow.kind = "add" => step \in {"repos", "tried"},
           flow.kind \in {"create", "add"} => \A x \in made : Shaped(x, flow.name)
    PROVE  FlowOk
<1>1. flow \in Flow
  BY DEF Consistent, TypeOK
<1>2. flow' \in Flow /\ flow'.made = made /\ flow'.step = step /\ GoesOn(flow, flow')
  BY <1>1 DEF Flow, GoesOn
<1>3. FlowKnown'
  BY <1>2, FlowGoesOn, Nothing
<1> QED BY <1>2, <1>3 DEF FlowOk

\* So is one that goes on.
LEMMA FlowAdvances ==
    ASSUME Consistent, Next, flow # None, flow' # None
    PROVE  FlowOk
<1>0. /\ FlowKnown /\ TypeOK /\ TasksKnown /\ flow \in Flow
      /\ flow.task \in Tasks /\ flow.ws \in TaskNames /\ flow.name \in TaskNames
      /\ flow.repos \in SUBSET Repos /\ flow.made \in SUBSET Target
  BY DEF Consistent, Known, TypeOK, Flow
<1>00. flow.kind \in {"create", "add"} => \A x \in flow.made : Shaped(x, flow.name)
  BY <1>0 DEF FlowKnown
<1>1. CASE MakeDir
  <2>1. PICK s \in {"copy", "repos", "insert"} : flow' = [flow EXCEPT !.step = s]
    BY <1>1 DEF MakeDir, Goto, At
  <2>2. flow' = [flow EXCEPT !.repos = flow.repos, !.made = flow.made, !.step = s]
    BY <1>0, <2>1 DEF Flow
  <2>3. flow.kind \in {"create", "fork"}
    BY <1>1 DEF MakeDir, At
  <2> QED BY <1>0, <1>00, <2>2, <2>3, FlowMovesOn
<1>2. CASE CopyOthers
  <2>1. PICK s \in {"repos", "insert"} : flow' = [flow EXCEPT !.step = s]
    BY <1>2 DEF CopyOthers, Goto, At
  <2>2. flow' = [flow EXCEPT !.repos = flow.repos, !.made = flow.made, !.step = s]
    BY <1>0, <2>1 DEF Flow
  <2>3. flow.kind \in {"create", "fork"}
    BY <1>2 DEF CopyOthers, At
  <2> QED BY <1>0, <1>00, <2>2, <2>3, FlowMovesOn
<1>3. ASSUME NEW r \in Repos, CloneRepo(r) PROVE FlowOk
  <2>1. PICK c \in WorkCopy :
           /\ c.repo = r /\ Shaped(c, flow.name)
           /\ Tried(r, {[dir |-> c.dir, repo |-> c.repo, id |-> c.id]},
                    IF flow.kind = "add" THEN "record" ELSE "tried")
    BY <1>3, RepoCloned
  <2> DEFINE x    == [dir |-> c.dir, repo |-> c.repo, id |-> c.id]
             made == flow.made \cup {x}
             R    == flow.repos \ {r}
  <2>2. x \in Target /\ Shaped(x, flow.name)
    BY <1>3, <2>1, NamesAre DEF Target, WorkCopy, Shaped
  <2>3. flow.kind \in {"create", "add"}
    BY <1>3 DEF CloneRepo, At
  <2>4. made \in SUBSET Target /\ \A y \in made : Shaped(y, flow.name)
    BY <1>0, <1>00, <2>2, <2>3
  <2>5. flow' = [flow EXCEPT !.repos = R, !.made = made,
                             !.step = IF flow.kind = "add" THEN "record" ELSE "tried"]
    BY <2>1 DEF Tried
  <2>6. R \in SUBSET Repos
    BY <1>0
  <2> HIDE DEF x, made, R
  <2>7. CASE flow.kind = "create"
    BY <2>4, <2>5, <2>6, <2>7, FlowMovesOn
  <2>8. CASE flow.kind = "add"
    <3>1. flow' \in Flow /\ flow'.made = made /\ flow'.step = "record" /\ GoesOn(flow, flow')
      BY <1>0, <2>4, <2>5, <2>6, <2>8 DEF Flow, GoesOn
    <3>2. FlowKnown'
      BY <2>4, <2>8, <3>1, FlowGoesOn
    <3> QED BY <3>1, <3>2 DEF FlowOk
  <2> QED BY <2>3, <2>7, <2>8
<1>4. ASSUME NEW r \in Repos, CloneFails(r) \/ ForkRepo(r) \/ ForkFails(r) PROVE FlowOk
  <2>1. Tried(r, {}, "tried") /\ flow.kind \in {"create", "add", "fork"}
    BY <1>4 DEF CloneFails, ForkRepo, ForkFails, At
  <2>2. flow' = [flow EXCEPT !.repos = flow.repos \ {r}, !.made = flow.made, !.step = "tried"]
    BY <1>0, <2>1 DEF Tried, Flow
  <2>3. flow.repos \ {r} \in SUBSET Repos
    BY <1>0
  <2> QED BY <1>0, <1>00, <2>1, <2>2, <2>3, FlowMovesOn
<1>5. CASE Proceed
  <2>1. PICK s \in {"repos", "insert"} : /\ flow' = [flow EXCEPT !.step = s]
                                         /\ flow.kind = "add" => s = "repos"
    BY <1>5 DEF Proceed, Goto
  <2>2. flow' = [flow EXCEPT !.repos = flow.repos, !.made = flow.made, !.step = s]
    BY <1>0, <2>1 DEF Flow
  <2>3. flow.kind \in {"create", "add", "fork"}
    BY <1>5 DEF Proceed, At
  <2>4. s \in {"copy", "repos", "tried", "insert"} /\ (flow.kind = "add" => s \in {"repos", "tried"})
    BY <2>1
  <2> QED BY <1>0, <1>00, <2>2, <2>3, <2>4, FlowMovesOn
<1>6. CASE InsertTask
  <2>1. /\ flow.kind = "create" /\ flow' = [flow EXCEPT !.step = "setdir"] /\ ending' = ending
        /\ Insert(flow.task, flow.name, None)
    BY <1>6 DEF InsertTask, At, Goto, krang
  <2>2. flow' \in Flow /\ flow'.step = "setdir" /\ flow'.made = flow.made /\ GoesOn(flow, flow')
    BY <1>0, <2>1 DEF Flow, GoesOn
  <2>3. /\ task[flow.task].state = "absent"
        /\ task'[flow.task].ws = None /\ task'[flow.task].name = flow.name
    BY <1>0, <2>1, Inserted
  <2>4. \A e \in ending' : e.task # flow.task
    BY <2>1, <2>3 DEF Consistent, Known, EndingKnown
  <2>5. FlowKnown'
    BY <1>00, <2>1, <2>2, <2>3, <2>4, FlowGoesOn
  <2> QED BY <2>2, <2>5 DEF FlowOk
<1>7. CASE SetDir
  <2>1. /\ flow.kind = "create" /\ flow' = [flow EXCEPT !.step = "record"]
        /\ task' = [task EXCEPT ![flow.task].ws = flow.ws] /\ task[flow.task].name = flow.name
    BY <1>0, <1>7 DEF SetDir, At, Goto, FlowKnown
  <2>2. flow' \in Flow /\ flow'.step = "record" /\ flow'.made = flow.made /\ GoesOn(flow, flow')
    BY <1>0, <2>1 DEF Flow, GoesOn
  <2>3. task'[flow.task].ws = flow.ws /\ task'[flow.task].name = flow.name
    BY <1>0, <2>1 DEF TypeOK, Row
  <2>4. FlowKnown'
    BY <1>00, <2>1, <2>2, <2>3, FlowGoesOn
  <2> QED BY <2>2, <2>4 DEF FlowOk
<1>8. ASSUME NEW x \in flow.made, RecordSlot(x) PROVE FlowOk
  <2>1. CASE flow.kind = "add"
    <3>1. flow' = [flow EXCEPT !.made = {}, !.step = "tried"]
      BY <1>8, <2>1 DEF RecordSlot
    <3>2. flow' = [flow EXCEPT !.repos = flow.repos, !.made = {}, !.step = "tried"]
      BY <1>0, <3>1 DEF Flow
    <3>3. {} \in SUBSET Target /\ \A y \in {} : Shaped(y, flow.name)
      OBVIOUS
    <3> QED BY <1>0, <2>1, <3>2, <3>3, FlowMovesOn
  <2>2. CASE flow.kind = "create"
    <3>1. /\ flow' = [flow EXCEPT !.made = @ \ {x}] /\ flow.step = "record" /\ task' = task
      BY <1>8, <2>2 DEF RecordSlot, At
    <3>2. flow' \in Flow /\ flow'.step = "record" /\ flow'.made \subseteq flow.made /\ GoesOn(flow, flow')
      BY <1>0, <3>1 DEF Flow, GoesOn
    <3>3. task'[flow.task].ws = flow.ws /\ task'[flow.task].name = flow.name
      BY <1>0, <3>1 DEF FlowKnown, Settled
    <3>4. FlowKnown'
      BY <1>00, <2>2, <3>2, <3>3, FlowGoesOn
    <3> QED BY <3>2, <3>4 DEF FlowOk
  <2> QED BY <1>8, <2>1, <2>2 DEF RecordSlot, At
<1>9. ASSUME flow.kind = "complete", flow' \in Flow, GoesOn(flow, flow'),
             flow'.step \in {"stop", "forget"}
      PROVE  FlowOk
  <2>1. FlowKnown'
    BY <1>9, FlowGoesOn
  <2> QED BY <1>9, <2>1 DEF FlowOk
<1>10. ASSUME NEW e \in ending, Release(e), flow' # flow PROVE FlowOk
  <2>1. flow.kind = "complete" /\ flow' = [flow EXCEPT !.step = "forget"]
    BY <1>10 DEF Release, At, Goto
  <2>2. flow' \in Flow /\ GoesOn(flow, flow') /\ flow'.step = "forget"
    BY <1>0, <2>1 DEF Flow, GoesOn
  <2> QED BY <1>9, <2>1, <2>2
<1>11. ASSUME NEW x \in flow.targets, ForgetNext(x) PROVE FlowOk
  <2>1. /\ flow.kind = "complete" /\ flow.step = "forget" /\ x \in Target
        /\ \/ flow' = [flow EXCEPT !.made = @ \cup {x}]
           \/ flow' = [flow EXCEPT !.failed = @ \cup {x}]
    BY <1>0, <1>11 DEF ForgetNext, At, Flow
  <2>2. flow' \in Flow /\ GoesOn(flow, flow') /\ flow'.step = "forget"
    BY <1>0, <2>1 DEF Flow, GoesOn
  <2> QED BY <1>9, <2>1, <2>2
<1>12. ASSUME CloneSlot, flow' # flow PROVE FlowOk
  <2>1. flow.kind = "complete" /\ \E c \in WorkCopy : flow' = [flow EXCEPT !.late = @ \cup {c.dir}]
    BY <1>12, SlotCloned, Zenon
  <2>2. \A c \in WorkCopy : c.dir \in Dirs
    BY DEF WorkCopy
  <2>3. flow' \in Flow /\ GoesOn(flow, flow') /\ flow'.step = flow.step
    BY <1>0, <2>1, <2>2 DEF Flow, GoesOn
  <2>4. flow.step \in {"stop", "forget"}
    BY <2>1 DEF Consistent, Known, CompletionSafe
  <2> QED BY <1>9, <2>1, <2>3, <2>4
<1>13. ASSUME \/ Cancel \/ LaunchFails \/ RemoveDir \/ Crash
              \/ \E e \in ending : CompleteFails(e)
       PROVE  flow' = flow
  BY <1>13 DEF Cancel, LaunchFails, RemoveDir, Crash, CompleteFails
<1>14. ASSUME \/ \E t \in Tasks, n \in TaskNames, R \in SUBSET Repos : BeginCreate(t, n, R)
              \/ \E t \in Tasks, R \in SUBSET Repos : BeginAdd(t, R)
              \/ \E src, t \in Tasks, n \in TaskNames : BeginFork(src, t, n)
              \/ \E t \in Tasks : Confirm(t)
       PROVE  FALSE
  BY <1>14 DEF BeginCreate, BeginAdd, BeginFork, Confirm, Idle
<1>15. CASE flow' = flow
  BY <1>15, FlowStays
<1> QED BY <1>1, <1>2, <1>3, <1>4, <1>5, <1>6, <1>7, <1>8, <1>10, <1>11, <1>12, <1>13, <1>14, <1>15,
           FlowMoves

\* What each step does to the modal.
LEMMA FlowSteps ==
    ASSUME Consistent, Next
    PROVE  FlowOk
<1>1. CASE flow' = None
  BY <1>1 DEF FlowOk, FlowKnown
<1> QED BY <1>1, FlowBegins, FlowAdvances

--------------------------------------------------------------------------------
(* The agent's request.                                                    *)

\* The slots of a workspace have the types of what can be removed.
LEMMA SlotsAre ==
    ASSUME TypeOK, DiskShaped, NEW t \in Tasks, task[t].ws # None
    PROVE  Slots(t) \subseteq Target
<1> DEFINE known == {[dir |-> r.dir, repo |-> r.repo, id |-> r.id] : r \in RowsOf(t)}
           Slot1(d) == LET s == ParseSlotDirName(Repos, d)
                       IN  [dir |-> d, repo |-> s.repo, id |-> VCSName(task[t].ws, s.repo, s.label)]
           there == {c.dir : c \in In(task[t].ws)}
<1>1. Slots(t) = known \cup {Slot1(d) : d \in there \ {x.dir : x \in known}}
  BY DEF Slots
<1>2. known \subseteq Target
  BY DEF RowsOf, TypeOK, RepoRow, Target
<1>3. ASSUME NEW c \in In(task[t].ws) PROVE Slot1(c.dir) \in Target
  <2>1. c \in WorkCopy /\ c.by \in TaskNames /\ Shaped(c, c.by) /\ task[t].ws \in TaskNames
    BY DEF In, TypeOK, WorkCopy, DiskShaped, Row
  <2>2. /\ ParseSlotDirName(Repos, c.dir).repo \in Repos /\ c.dir \in Dirs
        /\ ParseSlotDirName(Repos, c.dir).label \in Labels
    BY <2>1, ShapedIs
  <2> QED BY <2>1, <2>2, NamesAre DEF Target
<1> HIDE DEF Slot1, known
<1> QED BY <1>1, <1>2, <1>3

\* Beside a request, nothing but a completion is started, or at work.
LEMMA OnlyCompletes ==
    ASSUME Consistent, Next, api # None
    PROVE  /\ flow = None \/ (flow \in Flow /\ flow.kind = "complete")
           /\ flow' = None \/ flow'.kind = "complete"
<1>1. flow = None \/ (flow \in Flow /\ flow.kind = "complete")
  BY DEF Consistent, Known, RequestKnown, TypeOK
<1>2. CASE flow' = flow \/ flow' = None
  BY <1>1, <1>2
<1>3. ASSUME NEW t \in Tasks, Confirm(t) PROVE flow' = flow \/ flow'.kind = "complete"
  BY <1>3 DEF Confirm, Begin
<1>4. ASSUME NEW e \in ending, CompleteFails(e) \/ Release(e) PROVE flow' \in {flow, None} \/ flow'.kind = "complete"
  BY <1>1, <1>4 DEF CompleteFails, Release, Goto, At, Flow
<1>5. ASSUME NEW x \in flow.targets, ForgetNext(x) PROVE flow'.kind = "complete"
  BY <1>1, <1>5 DEF ForgetNext, At, Flow
<1>6. CASE CloneSlot
  <2>1. flow' = flow \/ (flow # None /\ \E D : flow' = [flow EXCEPT !.late = D])
    BY <1>6, SlotCloned
  <2> QED BY <1>1, <2>1 DEF Flow
<1>7. CASE RemoveDir \/ Crash
  BY <1>1, <1>7 DEF RemoveDir, Crash
<1> QED BY <1>1, <1>2, <1>3, <1>4, <1>5, <1>6, <1>7, FlowMoves DEF BeginCreate, BeginAdd, BeginFork,
           Idle, MakeDir, CopyOthers, CloneRepo, CloneFails, ForkRepo, ForkFails, Proceed, Cancel,
           InsertTask, SetDir, RecordSlot, LaunchFails, At

\* Beside a removal no copy is made.
LEMMA OnlyRemoves ==
    ASSUME Consistent, Next, api # None, api.op = "remove"
    PROVE  disk' \subseteq disk /\ held' \subseteq held
<1>1. flow = None \/ flow.kind = "complete"
  BY OnlyCompletes
<1>2. ~CloneSlot
  BY DEF CloneSlot, Consistent, Known, RequestKnown
<1>3. ASSUME NEW x \in flow.targets, ForgetNext(x) PROVE disk' \subseteq disk /\ held' \subseteq held
  BY <1>3, Forgotten DEF ForgetNext, outside, Consistent, Known
<1>4. ASSUME ForgetSlot PROVE disk' \subseteq disk /\ held' \subseteq held
  BY <1>4, Forgotten DEF ForgetSlot, outside, Consistent, Known
<1>5. ASSUME RemoveDir PROVE disk' \subseteq disk
  BY <1>5 DEF RemoveDir, RemoveAll
<1>6. ASSUME DeleteSlot PROVE disk' \subseteq disk
  BY <1>6 DEF DeleteSlot
<1>7. disk' \subseteq disk
  BY <1>1, <1>2, <1>3, <1>4, <1>5, <1>6, DiskMoves DEF CopyOthers, CloneRepo, ForkRepo, Proceed, Cancel, At
<1>8. held' \subseteq held
  BY <1>1, <1>2, <1>3, <1>4, HeldMoves DEF CloneRepo, ForkRepo, CloneFails, ForkFails, At
<1> QED BY <1>7, <1>8

\* The request is what it should be after the step.
ApiOk == (api' = None \/ api' \in Request) /\ RequestKnown'

\* One that stays as it is stays known.
LEMMA ApiStays ==
    ASSUME Consistent, Next, api # None, api' = api
    PROVE  ApiOk
<1>1. RequestKnown /\ api \in Request /\ api.task \in Tasks /\ api.ws \in TaskNames
  BY DEF Consistent, Known, TypeOK, Request
<1>2. flow' = None \/ flow'.kind = "complete"
  BY OnlyCompletes
<1>3. task'[api.task].ws = api.ws /\ task'[api.task].name = task[api.task].name
  BY <1>1, StaysSettled DEF RequestKnown
<1>4. api.op = "remove" => disk' \subseteq disk /\ held' \subseteq held
  BY OnlyRemoves
<1>5. /\ task'[api.task].name # None
      /\ IF api.op = "add"
         THEN /\ api.step \in {"clone", "record"} /\ api.repo \in Repos /\ api.label \in Labels
              /\ api.step = "record" => api.target # None /\ Shaped(api.target, task'[api.task].name)
         ELSE /\ api.step \in {"forget", "delete", "drop"} /\ api.target # None /\ api.target.repo = api.repo
  BY <1>1, <1>3 DEF RequestKnown
<1>6. ASSUME api.op = "remove", api.step = "delete", ~api.force,
             NEW c \in disk', c.ws = api.ws, c.real, c.dir = api.target.dir,
             I(c) = Ident(api.repo, api.target.id)
      PROVE  c.repo \in JJ /\ I(c) \notin held'
  BY <1>1, <1>4, <1>6 DEF RequestKnown, In
<1>7. ASSUME api.op = "remove", api.step = "drop", NEW c \in disk', c.ws = api.ws
      PROVE  c.dir # api.target.dir
  BY <1>1, <1>4, <1>7 DEF RequestKnown, In
<1>8. api.op \in {"add", "remove"}
  BY <1>1 DEF Request
<1>9. RequestKnown'
  BY <1>2, <1>3, <1>5, <1>6, <1>7, <1>8 DEF RequestKnown, Shaped, In, I, Ident
<1> QED BY <1>1, <1>9 DEF ApiOk

\* What each step does to the request.
LEMMA ApiSteps ==
    ASSUME Consistent, Next
    PROVE  ApiOk
<1>0. TypeOK /\ TasksKnown /\ DiskShaped /\ RequestKnown
  BY DEF Consistent, Known
<1>1. CASE api' = None
  BY <1>1 DEF ApiOk, RequestKnown
<1>2. CASE api' = api /\ api # None
  BY <1>2, ApiStays
<1>3. ASSUME NEW t \in Tasks, NEW r \in Repos, NEW l \in AgentLabels \cup {Initial}, AddSlot(t, r, l)
      PROVE  ApiOk
  <2>1. /\ task[t].ws \in TaskNames /\ task[t].name # None /\ task' = task /\ flow' = None
        /\ api' = [op |-> "add", task |-> t, ws |-> task[t].ws, repo |-> r, label |-> l,
                   step |-> "clone", target |-> None, force |-> FALSE]
    BY <1>0, <1>3 DEF AddSlot, Requests, Idle, Living, TypeOK, Row, TasksKnown, database
  <2>2. r \in Dirs /\ l \in Labels
    BY NamesAre, LabelsAre DEF Labels
  <2>3. api' \in Request
    BY <2>1, <2>2 DEF Request
  <2>4. RequestKnown'
    BY <2>1, <2>2 DEF RequestKnown
  <2> QED BY <2>3, <2>4 DEF ApiOk
<1>4. ASSUME CloneSlot, api' # None PROVE ApiOk
  <2>1. PICK c \in WorkCopy :
           /\ c.by = task[api.task].name /\ Shaped(c, c.by)
           /\ api' = [api EXCEPT !.step = "record", !.target = [dir |-> c.dir, repo |-> c.repo, id |-> c.id]]
    BY <1>4, SlotCloned, Zenon
  <2> DEFINE x == [dir |-> c.dir, repo |-> c.repo, id |-> c.id]
  <2>2. /\ api \in Request /\ api # None /\ api.step = "clone" /\ api.op = "add" /\ task' = task
        /\ api.repo \in Repos /\ api.label \in Labels /\ api.task \in Tasks
        /\ task[api.task].ws = api.ws /\ task[api.task].name # None
    BY <1>0, <1>4 DEF CloneSlot, RequestKnown, TypeOK, database, Request
  <2>3. x \in Target /\ Shaped(x, task[api.task].name)
    BY <2>1, NamesAre DEF Target, WorkCopy, Shaped
  <2>4. x # None
    BY <2>3, Nothing
  <2> HIDE DEF x
  <2>5. api' = [api EXCEPT !.step = "record", !.target = x]
    BY <2>1 DEF x
  <2>6. /\ api' \in Request /\ api'.op = "add" /\ api'.task = api.task /\ api'.ws = api.ws
        /\ api'.repo = api.repo /\ api'.label = api.label /\ api'.step = "record" /\ api'.target = x
    BY <2>2, <2>3, <2>5 DEF Request
  <2>7. flow' = None \/ flow'.kind = "complete"
    BY <2>2, OnlyCompletes
  <2>8. RequestKnown'
    BY <2>2, <2>3, <2>4, <2>6, <2>7 DEF RequestKnown, Shaped
  <2> QED BY <2>6, <2>8 DEF ApiOk
<1>5. ASSUME NEW t \in Tasks, NEW x \in Slots(t), NEW force \in BOOLEAN, RemoveSlot(t, x, force)
      PROVE  ApiOk
  <2>1. /\ task[t].ws \in TaskNames /\ task[t].name # None /\ task' = task /\ flow' = None
        /\ api' = [op |-> "remove", task |-> t, ws |-> task[t].ws, repo |-> x.repo, label |-> None,
                   step |-> "forget", target |-> x, force |-> force]
    BY <1>0, <1>5 DEF RemoveSlot, Requests, Idle, Living, TypeOK, Row, TasksKnown, database
  <2>2. x \in Target
    BY <1>0, <2>1, SlotsAre, Nothing
  <2>3. x # None /\ x.repo \in Dirs
    BY <2>2, Nothing DEF Target
  <2>4. api' \in Request
    BY <2>1, <2>2, <2>3 DEF Request
  <2>5. RequestKnown'
    BY <2>1, <2>3 DEF RequestKnown
  <2> QED BY <2>4, <2>5 DEF ApiOk
<1>6. ASSUME NEW step \in {"delete", "drop"}, api # None, api.op = "remove", task' = task, flow' = flow,
             api' = [api EXCEPT !.step = step],
             step = "delete" /\ ~api.force =>
                \A c \in disk' : c.ws = api.ws /\ c.real /\ c.dir = api.target.dir
                                 /\ I(c) = Ident(api.repo, api.target.id)
                                 => c.repo \in JJ /\ I(c) \notin held',
             step = "drop" => \A c \in disk' : c.ws = api.ws => c.dir # api.target.dir
      PROVE  ApiOk
  <2>1. /\ api \in Request /\ api.target # None /\ api.target.repo = api.repo
        /\ task[api.task].ws = api.ws /\ task[api.task].name # None
    BY <1>0, <1>6 DEF RequestKnown, TypeOK
  <2>2. /\ api' \in Request /\ api'.op = "remove" /\ api'.task = api.task /\ api'.ws = api.ws
        /\ api'.repo = api.repo /\ api'.step = step /\ api'.target = api.target
        /\ api'.force = api.force
    BY <1>6, <2>1 DEF Request
  <2>3. flow' = None \/ flow'.kind = "complete"
    BY <1>6, OnlyCompletes
  <2>4. RequestKnown'
    BY <1>6, <2>1, <2>2, <2>3 DEF RequestKnown, In, I, Ident
  <2> QED BY <2>2, <2>4 DEF ApiOk
<1>7. ASSUME ForgetSlot, api' # None PROVE ApiOk
  <2>1. /\ api # None /\ api.step = "forget" /\ task' = task /\ flow' = flow
        /\ api' = [api EXCEPT !.step = "delete"]
        /\ api.force \/ Forget(api.ws, api.target)
    BY <1>7 DEF ForgetSlot, Gone, database
  <2>2. api.op = "remove" /\ api.target.repo = api.repo
    BY <1>0, <2>1 DEF RequestKnown, TypeOK, Request
  <2>3. ASSUME ~api.force, NEW c \in disk', c.ws = api.ws, c.real, c.dir = api.target.dir,
               I(c) = Ident(api.repo, api.target.id)
        PROVE  c.repo \in JJ /\ I(c) \notin held'
    <3>1. /\ api.target.repo \in Repos \ JJ =>
                ~(c.ws = api.ws /\ c.real /\ c.dir = api.target.dir /\ c.repo = api.target.repo)
          /\ api.target.repo \in JJ => Ident(api.target.repo, api.target.id) \notin held'
          /\ disk' \subseteq disk
      BY <2>1, <2>3, Forgotten DEF Consistent, Known
    <3>2. c.repo = api.repo /\ c.repo \in Repos
      BY <1>0, <2>3, <3>1 DEF I, Ident, TypeOK, WorkCopy
    <3> QED BY <2>2, <2>3, <3>1, <3>2
  <2> QED BY <1>6, <2>1, <2>2, <2>3
<1>8. CASE DeleteSlot
  <2>1. /\ api # None /\ api.step = "delete" /\ task' = task /\ flow' = flow
        /\ api' = [api EXCEPT !.step = "drop"]
        /\ disk' = disk \ {c \in In(api.ws) : c.dir = api.target.dir}
    BY <1>8 DEF DeleteSlot, database
  <2>2. api.op = "remove"
    BY <1>0, <2>1 DEF RequestKnown, TypeOK, Request
  <2>3. \A c \in disk' : c.ws = api.ws => c.dir # api.target.dir
    BY <2>1 DEF In
  <2> QED BY <1>6, <2>1, <2>2, <2>3
<1>9. CASE RecordAdded \/ DropRow \/ Crash
  <2>1. api' = None
    BY <1>9 DEF RecordAdded, DropRow, Crash
  <2> QED BY <1>1, <2>1
<1> QED BY <1>1, <1>2, <1>3, <1>4, <1>5, <1>7, <1>8, <1>9, ApiMoves

--------------------------------------------------------------------------------
(* Completions.                                                            *)

\* Another task that shares the workspace is found when there is one: the oldest.
LEMMA HeirIs ==
    ASSUME TypeOK, NEW S \in SUBSET Tasks, S # {}
    PROVE  (CHOOSE u \in S : \A v \in S : task[u].age <= task[v].age) \in S
<1> DEFINE Ages == {task[u].age : u \in S}
<1>1. \A u \in S : task[u].age \in Nat
  <2>1. Cardinality(Tasks) \in Nat
    BY TaskAssumption, FS_CardinalityType
  <2> QED BY <2>1 DEF TypeOK, Row
<1>2. Ages \subseteq Nat /\ Ages # {}
  BY <1>1
<1>3. PICK a \in Ages : \A b \in Ages : a <= b
  <2> HIDE DEF Ages
  <2> QED BY <1>2, Least
<1>4. PICK u \in S : task[u].age = a
  OBVIOUS
<1>5. \A v \in S : task[u].age <= task[v].age
  BY <1>3, <1>4
<1> QED BY <1>4, <1>5

\* What is known of one completion.
Ends(e) ==
    /\ e.there \subseteq There
    /\ e.heir # e.task
    /\ task[e.task].state # "absent"
    /\ e.step # "state" => task[e.task].state = "completed"
    /\ e.step = "write" /\ e.heir = None =>
          \A u \in e.there : Living(u) /\ task[u].ws # None => task[u].ws # task[e.task].ws
    /\ e.step = "write" /\ e.heir # None => task[e.heir].ws = task[e.task].ws /\ task[e.heir].ws # None

\* It stays known, whatever happens to the tasks.
LEMMA EndsStay ==
    ASSUME Consistent, Next, NEW e \in ending
    PROVE  Ends(e)'
<1>1. /\ TypeOK /\ FlowKnown /\ e \in Ending /\ e.task \in Tasks /\ e.heir \in Tasks \cup {None} /\ e.there \subseteq Tasks
      /\ Ends(e) /\ Grown
  BY TaskSteps DEF Consistent, Known, TypeOK, Ending, EndingKnown, Ends
<1>2. task'[e.task].ws = task[e.task].ws
  <2>1. SetDir => e.task # flow.task
    BY <1>1 DEF SetDir, At, FlowKnown
  <2> QED BY <1>1, <2>1 DEF Grown, Ends
<1>3. \A u \in e.there : task'[u].ws = task[u].ws /\ (task'[u].state = "living" => Living(u))
  BY <1>1, Nothing DEF Grown, Ends, There, Consistent, Known, TasksKnown, Living
<1>4. e.there \subseteq There'
  BY <1>1, <1>3 DEF Ends, There
<1>5. task'[e.task].state # "absent" /\ (e.step # "state" => task'[e.task].state = "completed")
  BY <1>1 DEF Ends, Grown
<1>6. e.step = "write" /\ e.heir # None => task'[e.heir].ws = task'[e.task].ws /\ task'[e.heir].ws # None
  <2>1. e.step = "write" /\ e.heir # None => task[e.heir].ws # None /\ task'[e.heir].ws = task[e.heir].ws
    BY <1>1 DEF Ends, Grown
  <2> QED BY <1>1, <1>2, <2>1 DEF Ends
<1>7. e.step = "write" /\ e.heir = None =>
         \A u \in e.there : task'[u].state = "living" /\ task'[u].ws # None => task'[u].ws # task'[e.task].ws
  BY <1>1, <1>2, <1>3 DEF Ends
<1> QED BY <1>1, <1>4, <1>5, <1>6, <1>7 DEF Ends, Living

\* The completions are what they should be after the step.
EndingOk == ending' \subseteq Ending /\ EndingKnown'

\* One more, or one that has moved on, is known if it is what it should be.
LEMMA EndsOne ==
    ASSUME Consistent, Next, NEW e, e \in Ending, Ends(e)', ending' \subseteq ending \cup {e}
    PROVE  EndingOk
<1>1. \A d \in ending' : d \in Ending /\ Ends(d)'
  BY EndsStay DEF Consistent, TypeOK
<1> QED BY <1>1 DEF EndingOk, EndingKnown, Ends

\* What each step does to the completions.
LEMMA EndingSteps ==
    ASSUME Consistent, Next
    PROVE  EndingOk
<1>0. TypeOK /\ TasksKnown /\ \A e \in ending : e \in Ending /\ e.task \in Tasks /\ Ends(e)
  BY DEF Consistent, Known, TypeOK, Ending, EndingKnown, Ends
<1>1. ASSUME ending' \subseteq ending PROVE EndingOk
  <2>1. \A d \in ending' : d \in Ending /\ Ends(d)'
    BY <1>0, <1>1, EndsStay
  <2> QED BY <2>1 DEF EndingOk, EndingKnown, Ends
<1>2. ASSUME NEW t \in Tasks, Confirm(t) PROVE EndingOk
  <2> DEFINE e == [task |-> t, step |-> "state", heir |-> None, there |-> {}]
  <2>1. ending' = ending \cup {e} /\ task' = task /\ Living(t)
    BY <1>2 DEF Confirm, database
  <2>2. e \in Ending
    BY DEF Ending
  <2>3. Ends(e)'
    BY <2>1, Nothing DEF Ends, Living
  <2> HIDE DEF e
  <2> QED BY <2>1, <2>2, <2>3, EndsOne
<1>3. ASSUME NEW e \in ending, SetCompleted(e) PROVE EndingOk
  <2> DEFINE f == [e EXCEPT !.step = "ask"]
  <2>1. ending' \subseteq ending \cup {f} /\ task' = [task EXCEPT ![e.task].state = "completed"]
    BY <1>3 DEF SetCompleted, Advance
  <2>2. f \in Ending /\ f.task = e.task /\ f.step = "ask" /\ f.heir = e.heir /\ f.there = e.there
    BY <1>0 DEF Ending
  <2> HIDE DEF f
  <2>3. Ends(e)'
    BY EndsStay
  <2>4. task'[e.task].state = "completed"
    BY <1>0, <2>1 DEF TypeOK, Row
  <2>5. Ends(f)'
    BY <2>2, <2>3, <2>4 DEF Ends
  <2> QED BY <2>1, <2>2, <2>5, EndsOne
<1>4. ASSUME NEW e \in ending, AskHeir(e) PROVE EndingOk
  <2> DEFINE S == Sharers(task[e.task].ws, e.task)
             h == IF S = {} THEN None ELSE CHOOSE u \in S : \A v \in S : task[u].age <= task[v].age
  <2>1. task' = task /\ e.step = "ask" /\ There' = There
    BY <1>4 DEF AskHeir, database, There
  <2>2. S \in SUBSET Tasks
    BY DEF Sharers
  <2>3. (S = {} => h = None) /\ (S # {} => h \in S)
    BY <1>0, <2>2, HeirIs
  <2> HIDE DEF S, h
  <2>4. There \subseteq Tasks
    BY DEF There
  <2>5. PICK f \in Ending : /\ f.task = e.task /\ f.step = "write" /\ f.heir = h /\ f.there = There
                            /\ ending' \subseteq ending \cup {f}
    <3> DEFINE g == [e EXCEPT !.step = "write", !.heir = h, !.there = There]
    <3>1. ending' \subseteq ending \cup {g}
      BY <1>4 DEF AskHeir, Advance, S, h
    <3>2. g \in Ending /\ g.task = e.task /\ g.step = "write" /\ g.heir = h /\ g.there = There
      BY <1>0, <2>2, <2>3, <2>4 DEF Ending
    <3> HIDE DEF g
    <3> QED BY <3>1, <3>2
  <2>6. task[e.task].state = "completed"
    BY <1>0, <2>1 DEF Ends
  <2>7. h # e.task
    BY <1>0, <2>3, Nothing DEF S, Sharers
  <2>8. h = None => \A u \in There : Living(u) => task[u].ws # task[e.task].ws
    BY <2>3, <2>6, Nothing DEF S, Sharers, There, Living
  <2>9. h # None => task[h].ws = task[e.task].ws /\ task[h].ws # None
    BY <2>3 DEF S, Sharers
  <2>10. Ends(f)'
    BY <2>1, <2>5, <2>6, <2>7, <2>8, <2>9 DEF Ends, Living
  <2> QED BY <2>5, <2>10, EndsOne
<1>5. ASSUME \/ \E e \in ending : CompleteFails(e) \/ Release(e)
             \/ Crash
      PROVE  ending' \subseteq ending
  BY <1>5 DEF CompleteFails, Release, Crash
<1> QED BY <1>1, <1>2, <1>3, <1>4, <1>5, EndingMoves

--------------------------------------------------------------------------------
(* The rest.                                                               *)

\* Shared forks, the reconcile pass and the bounds.
LEMMA OtherSteps ==
    ASSUME Consistent, Next
    PROVE  /\ forking' \subseteq Shared
           /\ pass' \subseteq Tasks /\ PassKnown'
           /\ ops' \in 0..MaxOps /\ mishaps' \in 0..MaxMishaps
<1>0. TypeOK /\ TasksKnown /\ PassKnown
  BY DEF Consistent, Known
<1>1. forking' \subseteq Shared
  <2>1. ASSUME NEW src \in Tasks, NEW t \in Tasks, NEW n \in TaskNames, BeginShared(src, t, n)
        PROVE  forking' \subseteq Shared
    BY <1>0, <2>1 DEF BeginShared, Shared, TypeOK, Row
  <2>2. ASSUME Crash \/ \E f \in forking : InsertShared(f) PROVE forking' \subseteq forking
    BY <2>2 DEF InsertShared, Crash
  <2> QED BY <1>0, <2>1, <2>2, ForkingMoves DEF TypeOK
<1>2. pass' \subseteq Tasks /\ PassKnown'
  <2>1. ASSUME BeginPass PROVE pass' \subseteq Tasks /\ PassKnown'
    BY <2>1 DEF BeginPass, PassKnown, database
  <2>2. ASSUME pass' \subseteq pass PROVE pass' \subseteq Tasks /\ PassKnown'
    BY <1>0, <2>2, TaskSteps DEF TypeOK, PassKnown, Grown
  <2>3. ASSUME Crash \/ \E t \in Tasks : Backfill(t) PROVE pass' \subseteq pass
    BY <2>3 DEF Backfill, Crash
  <2> QED BY <2>1, <2>2, <2>3, PassMoves
<1>3. ops' = ops \/ (ops < MaxOps /\ ops' = ops + 1)
  BY DEF Next, BeginCreate, BeginAdd, BeginFork, BeginShared, MakeDir, CopyOthers, CloneRepo, CloneFails,
         ForkRepo, ForkFails, Proceed, Cancel, InsertTask, SetDir, RecordSlot, LaunchFails, InsertShared,
         Confirm, SetCompleted, CompleteFails, AskHeir, Release, ForgetNext, RemoveDir, AddSlot, CloneSlot,
         RecordAdded, RemoveSlot, ForgetSlot, DeleteSlot, DropRow, BeginPass, Backfill, Fail, Commit, Merge,
         Crash, Start
<1>4. mishaps' = mishaps \/ (mishaps < MaxMishaps /\ mishaps' = mishaps + 1)
  BY DEF Next, BeginCreate, BeginAdd, BeginFork, BeginShared, MakeDir, CopyOthers, CloneRepo, CloneFails,
         ForkRepo, ForkFails, Proceed, Cancel, InsertTask, SetDir, RecordSlot, LaunchFails, InsertShared,
         Confirm, SetCompleted, CompleteFails, AskHeir, Release, ForgetNext, RemoveDir, AddSlot, CloneSlot,
         RecordAdded, RemoveSlot, ForgetSlot, DeleteSlot, DropRow, BeginPass, Backfill, Fail, Commit, Merge,
         Crash, Mishap
<1> QED BY <1>0, <1>1, <1>2, <1>3, <1>4, BoundAssumption DEF TypeOK

--------------------------------------------------------------------------------
(* The completion's teardown.                                              *)

\* Of x that is forgotten nothing is left, but where its identity is retaken.
Left(x, c) ==
    c.real /\ c.ws = flow.ws /\ c.dir = x.dir /\ c.dir \notin flow.late /\ I(c) = Ident(x.repo, x.id)
    => c.repo \in JJ /\ (I(c) \in held => Retaken(c))

\* A teardown that goes on stays safe, if nothing is made unnoticed and nothing that is
\* forgotten comes back.
LEMMA CompletionGoesOn ==
    ASSUME Consistent, Next, flow # None, flow.kind = "complete", flow' # None, GoesOn(flow, flow'),
           flow.late \subseteq flow'.late,
           \A c \in disk' \ disk : c.ws = flow.ws => c.dir \in flow'.late,
           flow'.step \in {"stop", "forget"},
           flow'.step = "stop" => flow'.made = {} /\ flow'.failed = {},
           flow'.step = "forget" => task'[flow.task].state = "completed",
           \A x \in flow'.made, c \in disk' : Left(x, c)'
    PROVE  CompletionSafe'
<1>1. /\ CompletionSafe /\ FlowKnown /\ flow \in Flow /\ flow.there \subseteq Tasks /\ TasksKnown
  BY DEF Consistent, Known, TypeOK, Flow
<1>2. \A u \in flow.there \ {flow.task} : task'[u].state = "living" => task'[u].ws # flow.ws
  <2>1. \A u \in flow.there : task[u].ws # None
    BY <1>1 DEF FlowKnown, There
  <2>2. \A u \in flow.there \ {flow.task} : Living(u) => task[u].ws # flow.ws
    BY <1>1 DEF CompletionSafe
  <2> QED BY <1>1, <2>1, <2>2, TaskSteps DEF Grown, Living, TasksKnown
<1>3. \A c \in disk' : c.ws = flow.ws => c.dir \in flow'.late \cup {x.dir : x \in flow.targets}
  <2>1. \A c \in disk : c.ws = flow.ws => c.dir \in flow.late \cup {x.dir : x \in flow.targets}
    BY <1>1 DEF CompletionSafe, In
  <2> QED BY <2>1
<1>4. \A c \in In(flow.ws)' : c \in disk' /\ c.ws = flow.ws
  BY DEF In, GoesOn
<1>5. \A x \in flow'.made, c \in disk' : Undone(x, c)' => c.repo \in JJ /\ (I(c) \in held' => Retaken(c)')
  BY DEF Undone, Left, I, Ident
<1>6. /\ \A u \in flow'.there \ {flow'.task} : Living(u)' => task'[u].ws # flow'.ws
      /\ \A c \in In(flow.ws)' : c.dir \in flow'.late \cup {x.dir : x \in flow'.targets}
      /\ IF flow'.step = "stop" THEN flow'.made = {} /\ flow'.failed = {}
         ELSE task'[flow'.task].state = "completed"
  BY <1>2, <1>3, <1>4 DEF GoesOn, Living
<1> QED BY <1>5, <1>6 DEF CompletionSafe, I, Ident

\* What each step does to a teardown.
LEMMA CompletionSteps ==
    ASSUME Consistent, Next
    PROVE  CompletionSafe'
<1> SUFFICES ASSUME flow' # None, flow'.kind = "complete"
             PROVE  CompletionSafe'
  BY DEF CompletionSafe
<1>0. /\ CompletionSafe /\ FlowKnown /\ RequestKnown /\ EndingKnown /\ TypeOK /\ DiskShaped /\ RowsShaped
      /\ flow' \in Flow /\ (flow # None => flow \in Flow)
  BY FlowSteps DEF Consistent, Known, TypeOK, FlowOk
<1>1. ASSUME NEW t \in Tasks, Confirm(t), flow' # flow PROVE CompletionSafe'
  <2>1. /\ task[t].ws # None /\ Sharers(task[t].ws, t) = {} /\ task' = task /\ disk' = disk
        /\ Begin("complete", t, task[t].name, task[t].ws, None, "stop", {}, Targets(t))
    BY <1>1 DEF Confirm, database, outside
  <2>2. /\ flow'.task = t /\ flow'.ws = task[t].ws /\ flow'.step = "stop" /\ flow'.made = {} /\ flow'.failed = {}
        /\ flow'.targets = Targets(t) /\ flow'.there = There
    BY <2>1 DEF Begin
  <2>3. \A c \in In(task[t].ws) : c.dir \in {x.dir : x \in Targets(t)}
    BY <1>0, <2>1, TargetsAre
  <2>4. \A u \in There \ {t} : Living(u) => task[u].ws # task[t].ws
    BY <2>1 DEF Sharers, There
  <2>5. In(flow.ws)' = In(task[t].ws)
    BY <2>1, <2>2 DEF In
  <2> QED BY <2>1, <2>2, <2>3, <2>4, <2>5 DEF CompletionSafe, Living
<1>2. CASE flow = None
  <2>1. ASSUME NEW e \in ending, CompleteFails(e) \/ Release(e) PROVE flow' = flow
    BY <1>2, <2>1 DEF CompleteFails, Release, At
  <2>2. ASSUME CloneSlot PROVE flow' = flow
    BY <1>2, <2>2, SlotCloned
  <2> QED BY <1>1, <1>2, <2>1, <2>2, FlowMoves DEF BeginCreate, BeginAdd, BeginFork, Begin, MakeDir, CopyOthers,
             CloneRepo, CloneFails, ForkRepo, ForkFails, Proceed, Cancel, InsertTask, SetDir, RecordSlot,
             LaunchFails, ForgetNext, RemoveDir, Crash, At
<1>3. CASE flow # None
  <2>1. flow.kind = "complete" /\ flow \in Flow /\ flow.step \in {"stop", "forget"}
    <3>1. flow.kind = flow'.kind
      <4>1. ASSUME NEW x \in flow.targets, ForgetNext(x) PROVE flow'.kind = flow.kind
        BY <1>0, <1>3, <4>1 DEF ForgetNext, Flow
      <4>2. ASSUME NEW e \in ending, CompleteFails(e) \/ Release(e) PROVE flow'.kind = flow.kind
        BY <1>0, <1>3, <4>2 DEF CompleteFails, Release, Goto, Flow
      <4>3. ASSUME CloneSlot PROVE flow'.kind = flow.kind
        <5>1. flow' = flow \/ (\E D : flow' = [flow EXCEPT !.late = D])
          BY <4>3, SlotCloned
        <5> QED BY <1>0, <1>3, <5>1 DEF Flow
      <4>4. ASSUME MakeDir \/ CopyOthers \/ Proceed \/ InsertTask \/ SetDir PROVE flow'.kind = flow.kind
        BY <1>0, <1>3, <4>4 DEF MakeDir, CopyOthers, Proceed, InsertTask, SetDir, Goto, Flow
      <4>5. ASSUME NEW r \in Repos, CloneRepo(r) \/ CloneFails(r) \/ ForkRepo(r) \/ ForkFails(r) PROVE flow'.kind = flow.kind
        BY <1>0, <1>3, <4>5 DEF CloneRepo, CloneFails, ForkRepo, ForkFails, Tried, Flow
      <4>6. ASSUME NEW x \in flow.made, RecordSlot(x) PROVE flow'.kind = flow.kind
        BY <1>0, <1>3, <4>6 DEF RecordSlot, Flow
      <4> QED BY <1>3, <4>1, <4>2, <4>3, <4>4, <4>5, <4>6, FlowMoves DEF BeginCreate, BeginAdd, BeginFork, Confirm,
                 Idle, Cancel, LaunchFails, RemoveDir, Crash
    <3> QED BY <1>0, <1>3, <3>1 DEF CompletionSafe
  <2>2. \A x \in flow.made, c \in disk : Left(x, c)
    BY <1>0, <1>3, <2>1 DEF CompletionSafe, Undone, Left
  <2>3. flow.step = "stop" => flow.made = {} /\ flow.failed = {}
    BY <1>0, <1>3, <2>1 DEF CompletionSafe
  <2>4. flow.step = "forget" => task'[flow.task].state = "completed"
    <3>1. flow.task \in Tasks /\ (flow.step = "forget" => task[flow.task].state = "completed")
      BY <1>0, <1>3, <2>1 DEF CompletionSafe, Flow
    <3> QED BY <3>1, TaskSteps DEF Grown
  <2>5. CASE flow' = flow /\ ~CloneSlot
    <3>1. GoesOn(flow, flow')
      BY <2>1, <2>5 DEF GoesOn
    <3>2. ASSUME api # None, api.op = "remove" PROVE disk' \subseteq disk /\ held' \subseteq held
      BY <3>2, OnlyRemoves
    <3>3. ASSUME api = None \/ api.op = "add"
          PROVE  disk' = disk /\ held' = held /\ (api' = None \/ api'.op = "add")
      <4>1. ~ForgetSlot /\ ~DeleteSlot /\ ~DropRow
        BY <1>0, <3>3 DEF ForgetSlot, DeleteSlot, DropRow, RequestKnown
      <4>2. ASSUME NEW x \in flow.targets, ForgetNext(x) PROVE FALSE
        <5>1. \/ flow' = [flow EXCEPT !.made = @ \cup {x}]
              \/ flow' = [flow EXCEPT !.failed = @ \cup {x}]
          BY <4>2 DEF ForgetNext
        <5>2. x \notin flow.made /\ x \notin flow.failed
          BY <4>2 DEF ForgetNext
        <5> QED BY <2>1, <2>5, <5>1, <5>2 DEF Flow
      <4>3. ~RemoveDir /\ ~Crash
        BY <1>3, <2>5 DEF RemoveDir, Crash
      <4>4. disk' = disk
        BY <2>1, <2>5, <4>1, <4>2, <4>3, DiskMoves DEF CopyOthers, CloneRepo, ForkRepo, Proceed, Cancel, At
      <4>5. held' = held
        BY <2>1, <2>5, <4>1, <4>2, HeldMoves DEF CloneRepo, ForkRepo, CloneFails, ForkFails, At
      <4>6. api' = None \/ api'.op = "add"
        BY <1>3, <2>5, <3>3, <4>1, <4>3, ApiMoves DEF AddSlot, RemoveSlot, Idle, RecordAdded
      <4> QED BY <4>4, <4>5, <4>6
    <3>4. api = None \/ api.op \in {"add", "remove"}
      BY <1>0 DEF TypeOK, Request
    <3>5. disk' \subseteq disk
      BY <3>2, <3>3, <3>4
    <3>6. \A x \in flow'.made, c \in disk' : Left(x, c)'
      <4> SUFFICES ASSUME NEW x \in flow.made, NEW c \in disk',
                          c.real /\ c.ws = flow.ws /\ c.dir = x.dir /\ c.dir \notin flow.late /\ I(c) = Ident(x.repo, x.id)
                   PROVE  c.repo \in JJ /\ (I(c) \in held' => Retaken(c)')
        BY <2>5 DEF Left, I, Ident
      <4>1. c \in disk /\ c.repo \in JJ /\ (I(c) \in held => Retaken(c))
        BY <2>2, <3>5 DEF Left
      <4>2. CASE api # None /\ api.op = "remove"
        BY <3>2, <4>1, <4>2 DEF Retaken
      <4>3. CASE api = None \/ api.op = "add"
        BY <3>3, <4>1, <4>3 DEF Retaken, I, Ident
      <4> QED BY <3>4, <4>1, <4>2, <4>3
    <3> QED BY <1>3, <2>1, <2>3, <2>4, <2>5, <3>1, <3>5, <3>6, CompletionGoesOn
  <2>6. ASSUME NEW e \in ending, Release(e), flow' # flow PROVE CompletionSafe'
    <3>1. /\ flow.step = "stop" /\ flow.task = e.task /\ e.step = "write" /\ e \in ending
          /\ flow' = [flow EXCEPT !.step = "forget"] /\ task' = task /\ disk' = disk
      BY <2>6 DEF Release, At, Goto, outside
    <3>2. GoesOn(flow, flow') /\ flow'.late = flow.late /\ flow'.step = "forget" /\ flow'.made = {}
      BY <2>1, <2>3, <3>1, <1>0 DEF GoesOn, Flow
    <3>3. task'[flow.task].state = "completed"
      BY <1>0, <3>1 DEF EndingKnown
    <3> QED BY <1>3, <2>1, <3>1, <3>2, <3>3, CompletionGoesOn
  <2>7. ASSUME NEW x \in flow.targets, ForgetNext(x) PROVE CompletionSafe'
    <3>1. flow.step = "forget" /\ api' = api
      BY <2>7 DEF ForgetNext, At
    <3>2. CASE flow' = [flow EXCEPT !.failed = @ \cup {x}] /\ UNCHANGED outside
      <4>1. /\ GoesOn(flow, flow') /\ flow'.late = flow.late /\ flow'.step = "forget"
            /\ flow'.made = flow.made /\ flow'.ws = flow.ws /\ disk' = disk /\ held' = held
        BY <1>0, <2>1, <3>1, <3>2 DEF GoesOn, Flow, outside
      <4>2. \A y \in flow'.made, c \in disk' : Left(y, c)'
        <5> SUFFICES ASSUME NEW y \in flow.made, NEW c \in disk,
                            c.real /\ c.ws = flow.ws /\ c.dir = y.dir /\ c.dir \notin flow.late /\ I(c) = Ident(y.repo, y.id)
                     PROVE  c.repo \in JJ /\ (I(c) \in held' => Retaken(c)')
          BY <4>1 DEF Left, I, Ident
        <5>1. c.repo \in JJ /\ (I(c) \in held => Retaken(c))
          BY <2>2 DEF Left
        <5> QED BY <3>1, <4>1, <5>1 DEF Retaken, I, Ident
      <4> QED BY <1>3, <2>1, <2>4, <3>1, <4>1, <4>2, CompletionGoesOn
    <3>3. CASE Forget(flow.ws, x) /\ flow' = [flow EXCEPT !.made = @ \cup {x}]
      <4>1. /\ GoesOn(flow, flow') /\ flow'.late = flow.late /\ flow'.step = "forget"
            /\ flow'.made = flow.made \cup {x} /\ flow'.ws = flow.ws
        BY <1>0, <2>1, <3>1, <3>3 DEF GoesOn, Flow
      <4>2. /\ disk' \subseteq disk /\ held' \subseteq held
            /\ \A c \in disk \ disk' : c.repo \in Repos \ JJ
            /\ x.repo \in Repos \ JJ =>
                  \A c \in disk' : ~(c.ws = flow.ws /\ c.real /\ c.dir = x.dir /\ c.repo = x.repo)
            /\ x.repo \in JJ => Ident(x.repo, x.id) \notin held'
        BY <3>3, Forgotten DEF Consistent, Known
      <4>3. \A y \in flow'.made, c \in disk' : Left(y, c)'
        <5> SUFFICES ASSUME NEW y \in flow.made \cup {x}, NEW c \in disk',
                            c.real /\ c.ws = flow.ws /\ c.dir = y.dir /\ c.dir \notin flow.late /\ I(c) = Ident(y.repo, y.id)
                     PROVE  c.repo \in JJ /\ (I(c) \in held' => Retaken(c)')
          BY <4>1 DEF Left, I, Ident
        <5>1. CASE y = x
          <6>1. c.repo = x.repo /\ c.repo \in Repos
            BY <1>0, <4>2, <5>1 DEF I, Ident, TypeOK, WorkCopy
          <6> QED BY <4>2, <5>1, <6>1
        <5>2. CASE y \in flow.made
          <6>1. c \in disk /\ c.repo \in JJ /\ (I(c) \in held => Retaken(c))
            BY <2>2, <4>2, <5>2 DEF Left
          <6>2. ASSUME Retaken(c) PROVE Retaken(c)'
            <7>1. PICK d \in disk \ {c} : d.real /\ I(d) = I(c)
              BY <6>2 DEF Retaken
            <7>2. d \in disk'
              BY <4>2, <6>1, <7>1 DEF I, Ident
            <7> QED BY <3>1, <6>2, <7>1, <7>2 DEF Retaken, I, Ident
          <6> QED BY <4>2, <6>1, <6>2
        <5> QED BY <5>1, <5>2
      <4> QED BY <1>3, <2>1, <2>4, <3>1, <4>1, <4>2, <4>3, CompletionGoesOn
    <3> QED BY <2>7, <3>2, <3>3 DEF ForgetNext
  <2>8. CASE CloneSlot
    <3>0. api # None /\ api.op = "add"
      BY <1>0, <2>8 DEF CloneSlot, RequestKnown, TypeOK, Request
    <3>1. CASE api' = None /\ flow' = flow /\ disk' = disk /\ held' \subseteq held
      <4>1. \A x \in flow'.made, c \in disk' : Left(x, c)'
        <5> SUFFICES ASSUME NEW x \in flow.made, NEW c \in disk,
                            c.real /\ c.ws = flow.ws /\ c.dir = x.dir /\ c.dir \notin flow.late /\ I(c) = Ident(x.repo, x.id)
                     PROVE  c.repo \in JJ /\ (I(c) \in held' => Retaken(c)')
          BY <3>1 DEF Left, I, Ident
        <5>1. c.repo \in JJ /\ (I(c) \in held => Retaken(c))
          BY <2>2 DEF Left
        <5>2. Retaken(c) => Retaken(c)'
          BY <3>1 DEF Retaken, I, Ident
        <5> QED BY <3>1, <5>1, <5>2
      <4>2. GoesOn(flow, flow')
        BY <2>1, <3>1 DEF GoesOn
      <4> QED BY <1>3, <2>1, <2>3, <2>4, <3>1, <4>1, <4>2, CompletionGoesOn
    <3>2. ASSUME NEW d \in WorkCopy, d.ws = api.ws, d.real,
                 disk' = disk \cup {d}, held' = held \cup {I(d)}, api' # None, api'.op = "add",
                 flow' = IF flow # None /\ flow.kind = "complete" /\ flow.ws = api.ws
                         THEN [flow EXCEPT !.late = @ \cup {d.dir}] ELSE flow
          PROVE  CompletionSafe'
      <4>1. /\ GoesOn(flow, flow') /\ flow'.ws = flow.ws /\ flow'.step = flow.step
            /\ flow'.made = flow.made /\ flow'.failed = flow.failed
        BY <1>0, <2>1, <3>2 DEF GoesOn, Flow
      <4>2. flow.late \subseteq flow'.late /\ (d.ws = flow.ws => d.dir \in flow'.late)
        BY <1>3, <2>1, <3>2 DEF Flow
      <4>3. \A x \in flow'.made, c \in disk' : Left(x, c)'
        <5> SUFFICES ASSUME NEW x \in flow.made, NEW c \in disk',
                            c.real /\ c.ws = flow.ws /\ c.dir = x.dir /\ c.dir \notin flow'.late /\ I(c) = Ident(x.repo, x.id)
                     PROVE  c.repo \in JJ /\ (I(c) \in held' => Retaken(c)')
          BY <4>1 DEF Left, I, Ident
        <5>1. c # d
          BY <4>2
        <5>2. c \in disk /\ c.repo \in JJ /\ (I(c) \in held => Retaken(c))
          BY <2>2, <3>2, <4>2, <5>1 DEF Left
        <5>3. I(c) \in held' => \E b \in disk' \ {c} : b.real /\ I(b) = I(c)
          <6>1. CASE I(c) = I(d)
            BY <3>2, <5>1, <6>1
          <6>2. CASE I(c) # I(d)
            BY <3>2, <5>2, <6>2 DEF Retaken
          <6> QED BY <6>1, <6>2
        <5> QED BY <3>2, <5>2, <5>3 DEF Retaken, I, Ident
      <4> QED BY <1>3, <2>1, <2>3, <2>4, <3>2, <4>1, <4>2, <4>3, CompletionGoesOn
    <3>3. ASSUME NEW c \in WorkCopy,
                 api' = [api EXCEPT !.step = "record", !.target = [dir |-> c.dir, repo |-> c.repo, id |-> c.id]]
          PROVE  api' # None /\ api'.op = "add"
      <4>1. api \in Request /\ [dir |-> c.dir, repo |-> c.repo, id |-> c.id] \in Target
        BY <1>0, <3>0, NamesAre DEF TypeOK, WorkCopy, Target
      <4>2. api' \in Request /\ api'.op = "add"
        BY <3>0, <3>3, <4>1 DEF Request
      <4> QED BY <4>2, Nothing
    <3> QED BY <2>8, <3>1, <3>2, <3>3, SlotCloned DEF GivesUp
  <2>9. ASSUME flow' # flow, ~CloneSlot, \A e \in ending : ~Release(e), \A x \in flow.targets : ~ForgetNext(x)
        PROVE  FALSE
    <3>1. ASSUME NEW e \in ending, CompleteFails(e) PROVE flow' \in {None, flow}
      BY <3>1 DEF CompleteFails
    <3> QED BY <1>3, <2>1, <2>9, <3>1, FlowMoves DEF BeginCreate, BeginAdd, BeginFork, Idle, Confirm, MakeDir,
               CopyOthers, CloneRepo, CloneFails, ForkRepo, ForkFails, Proceed, Cancel, InsertTask, SetDir,
               RecordSlot, LaunchFails, RemoveDir, Crash, At
  <2> QED BY <2>5, <2>6, <2>7, <2>8, <2>9
<1> QED BY <1>2, <1>3


--------------------------------------------------------------------------------
(* The invariant.                                                          *)

\* What the steps keep: that rows tell the truth follows from it.
Base == TypeOK /\ Known

\* It implies the rest of the invariant.
LEMMA BaseIsEnough == Base => Consistent
BY Truth DEF Base, Known, Consistent

\* At the start there is nothing.
LEMMA InitBase == Init => Base
<1> SUFFICES ASSUME Init PROVE Base
  OBVIOUS
<1>1. TypeOK
  <2>1. Cardinality(Tasks) \in Nat
    BY TaskAssumption, FS_CardinalityType
  <2>2. task \in [Tasks -> Row]
    BY <2>1 DEF Init, Row
  <2>3. ops \in 0..MaxOps /\ mishaps \in 0..MaxMishaps
    BY BoundAssumption DEF Init
  <2> QED BY <2>2, <2>3 DEF Init, TypeOK
<1>2. \A t \in Tasks : task[t].name = None /\ task[t].state = "absent" /\ task[t].ws = None
  BY DEF Init
<1>3. Known
  BY <1>2 DEF Init, Known, TasksKnown, DiskShaped, RowsShaped, WorkHeld, FlowKnown, CompletionSafe,
              RequestKnown, EndingKnown, PassKnown
<1> QED BY <1>1, <1>3 DEF Base

\* Every step keeps it.
LEMMA StepBase == Base /\ [Next]_vars => Base'
<1> SUFFICES ASSUME Base, [Next]_vars PROVE Base'
  OBVIOUS
<1>1. CASE Next
  <2>1. Consistent
    BY BaseIsEnough
  <2>2. TypeOK'
    BY <1>1, <2>1, TaskSteps, RowSteps, DiskSteps, FlowSteps, ApiSteps, EndingSteps, OtherSteps
       DEF TypeOK, FlowOk, ApiOk, EndingOk
  <2>3. Known'
    BY <1>1, <2>1, TaskSteps, RowSteps, DiskSteps, FlowSteps, CompletionSteps, ApiSteps, EndingSteps, OtherSteps
       DEF Known, FlowOk, ApiOk, EndingOk
  <2> QED BY <2>2, <2>3 DEF Base
<1>2. CASE UNCHANGED vars
  <2>1. /\ task' = task /\ rows' = rows /\ dirs' = dirs /\ disk' = disk /\ held' = held
        /\ unmerged' = unmerged /\ flow' = flow /\ api' = api /\ forking' = forking
        /\ ending' = ending /\ pass' = pass /\ ops' = ops /\ mishaps' = mishaps
    BY <1>2 DEF vars, database, outside, krang
  <2>2. TypeOK'
    BY <2>1 DEF Base, TypeOK
  <2>3. TasksKnown' /\ DiskShaped' /\ RowsShaped' /\ WorkHeld' /\ PassKnown'
    BY <2>1 DEF Base, Known, TasksKnown, DiskShaped, RowsShaped, WorkHeld, PassKnown, MadeFor, NamedIn
  <2>4. FlowKnown' /\ EndingKnown'
    BY <2>1 DEF Base, Known, FlowKnown, EndingKnown, Settled, There, Living
  <2>5. \A x, c : (Undone(x, c) <=> Undone(x, c)') /\ (Retaken(c) <=> Retaken(c)')
    BY <2>1 DEF Undone, Retaken, I, Ident
  <2>6. CompletionSafe'
    BY <2>1, <2>5 DEF Base, Known, CompletionSafe, Living, In, I, Ident
  <2>7. RequestKnown'
    BY <2>1 DEF Base, Known, RequestKnown, In, I, Ident
  <2> QED BY <2>2, <2>3, <2>4, <2>6, <2>7 DEF Base, Known
<1> QED BY <1>1, <1>2

\* Everything has its type, a row of a living task may be believed, and so may
\* what krang keeps in memory between the steps of a flow, a request and a
\* completion: for any tasks, names, repos and labels, and any number of
\* operations, crashes and failures.
LEMMA StaysConsistent == Spec => []Consistent
<1>1. Spec => []Base
  BY InitBase, StepBase, PTL DEF Spec
<1> QED BY <1>1, BaseIsEnough, PTL

--------------------------------------------------------------------------------
(* What a step may never do.                                               *)

\* Commits that are merged nowhere stay on some branch, whatever is created,
\* extended, removed, completed or cancelled: only the fork of a repo can lose
\* any (checkVCSNameFree takes back no branch that holds work, ForgetRepo keeps
\* such a branch).
THEOREM CommitsStay == Spec => OnlyForksLoseWork
<1>1. ASSUME Consistent, Next, disk' # disk \/ held' # held, ~At({"fork"}, "repos")
      PROVE  Commits \subseteq Commits'
  <2>1. ASSUME NEW r \in Repos, CloneRepo(r) PROVE unmerged' = unmerged
    BY <1>1, <2>1, RepoCloned
  <2>2. ASSUME CloneSlot PROVE unmerged' = unmerged
    BY <1>1, <2>2, SlotCloned
  <2>3. ASSUME NEW r \in Repos, ForkRepo(r) \/ ForkFails(r) PROVE FALSE
    BY <1>1, <2>3 DEF ForkRepo, ForkFails
  <2>7. ASSUME NEW r \in Repos, CloneFails(r) PROVE unmerged' = unmerged
    BY <1>1, <2>7, CloneGivesUp
  <2>4. ASSUME NEW c \in disk, Commit(c) PROVE FALSE
    BY <1>1, <2>4 DEF Commit
  <2>5. ASSUME NEW w \in unmerged, Merge(w) PROVE FALSE
    BY <1>1, <2>5 DEF Merge
  <2>6. unmerged' = unmerged
    BY <1>1, <2>1, <2>2, <2>3, <2>4, <2>5, <2>7, UnmergedMoves
  <2> QED BY <2>6 DEF Commits
<1>2. Consistent /\ [Next]_vars => [~At({"fork"}, "repos") => Keeping]_vars
  BY <1>1 DEF Keeping
<1> QED BY <1>2, StaysConsistent, PTL DEF Spec, OnlyForksLoseWork

\* Who removes a workspace directory: a creation or fork that is cancelled or has
\* made nothing, its own, and the completion of a task, the one of its workspace.
LEMMA DirsRemoved ==
    ASSUME Consistent, Next, NEW n \in dirs \ dirs'
    PROVE  /\ flow # None /\ flow' = None /\ n = flow.ws /\ dirs' = dirs \ {n} /\ disk' = disk \ In(n)
           /\ held' = held /\ unmerged' = unmerged /\ api' = api /\ task' = task /\ rows' = rows
           /\ \/ At({"create", "fork"}, "tried")
              \/ At({"complete"}, "forget") /\ flow.targets = flow.made \cup flow.failed
<1>1. ASSUME NEW r \in Repos, CloneRepo(r) PROVE FALSE
  BY <1>1, RepoCloned
<1>2. ~CloneSlot
  BY SlotCloned
<1>3. ~MakeDir
  BY DEF MakeDir
<1>4. Proceed \/ Cancel \/ RemoveDir
  BY <1>1, <1>2, <1>3, DirsMoves
<1>5. CASE Proceed
  BY <1>5 DEF Proceed, RemoveAll, At, Goto, outside, database
<1>6. CASE Cancel
  BY <1>6 DEF Cancel, RemoveAll, At, outside, database
<1>7. CASE RemoveDir
  BY <1>7 DEF RemoveDir, RemoveAll, At, database
<1> QED BY <1>4, <1>5, <1>6, <1>7

\* The workspace directory of a living task is not removed under it: whoever was
\* there when a completion began does not share its workspace.
THEOREM DirectoriesStay == Spec => DirKept
<1>1. ASSUME Consistent, Next, NEW t \in Tasks, Living(t), task[t].ws \in dirs \ dirs'
      PROVE  At({"create", "fork"}, "tried") \/ t \notin flow.there
  <2>1. SUFFICES ASSUME ~At({"create", "fork"}, "tried") PROVE t \notin flow.there
    OBVIOUS
  <2>2. flow # None /\ flow.kind = "complete" /\ flow.step = "forget" /\ task[t].ws = flow.ws
    BY <1>1, <2>1, DirsRemoved DEF At
  <2>3. /\ \A u \in flow.there \ {flow.task} : Living(u) => task[u].ws # flow.ws
        /\ task[flow.task].state = "completed"
    BY <1>1, <2>2 DEF Consistent, Known, CompletionSafe
  <2> QED BY <1>1, <2>2, <2>3 DEF Living
<1>2. Consistent /\ [Next]_vars =>
      [\A t \in Tasks :
          Living(t) /\ task[t].ws \in dirs \ dirs'
          => At({"create", "fork"}, "tried") \/ t \notin flow.there]_vars
  BY <1>1
<1> QED BY <1>2, StaysConsistent, PTL DEF Spec, DirKept

\* A row of a copy that somebody still works in is not dropped: a completion that
\* has looked for those who share the workspace leaves the row to one of them, who
\* may have one of that directory, and a removal has deleted the copy before.
THEOREM RowsStay == Spec => RowsSurvive
<1> DEFINE Orphaned(r, c, t) ==
          /\ c.real /\ c.repo = r.repo /\ c.id = r.id /\ c.dir = r.dir /\ c.ws = task[r.task].ws
          /\ \A q \in rows' : q.repo # r.repo \/ q.id # r.id
          /\ Living(t) /\ task[t].ws = c.ws
           Excused(r, c, t) ==
             \/ \E e \in ending \ ending' : e.step = "write" /\ e.task = r.task /\ t \notin e.there
             \/ \E q \in rows' : q.dir = r.dir /\ task[q.task].ws = c.ws
<1>1. ASSUME Consistent, Next, NEW r \in rows, NEW c \in disk \cap disk', NEW t \in Tasks, Orphaned(r, c, t)
      PROVE  Excused(r, c, t)
  <2>0. /\ r \in RepoRow /\ task[r.task].ws # None /\ r \notin rows'
        /\ \A e \in ending : e.task \in Tasks /\ e.there \subseteq Tasks
    BY <1>1 DEF Consistent, Known, TypeOK, RowsShaped, Ending
  <2>1. ASSUME NEW x \in flow.made, RecordSlot(x) PROVE FALSE
    BY <1>1, <2>0, <2>1 DEF RecordSlot, Recorded
  <2>2. ~RecordAdded
    BY <1>1, <2>0 DEF RecordAdded, Recorded
  <2>3. ASSUME NEW u \in Tasks, Backfill(u) PROVE FALSE
    BY <1>1, <2>0, <2>3 DEF Backfill, Recorded
  <2>4. ~DropRow
    <3>1. SUFFICES ASSUME DropRow PROVE FALSE
      OBVIOUS
    <3>2. r.task = api.task /\ r.dir = api.target.dir /\ api # None /\ api.step = "drop"
      BY <1>1, <2>0, <3>1 DEF DropRow
    <3>3. task[api.task].ws = api.ws /\ \A d \in In(api.ws) : d.dir # api.target.dir
      BY <1>1, <3>2 DEF Consistent, Known, RequestKnown
    <3> QED BY <1>1, <3>2, <3>3 DEF In
  <2>5. PICK e \in ending : Release(e)
    BY <1>1, <2>0, <2>1, <2>2, <2>3, <2>4, RowsMoves
  <2>6. /\ e.step = "write" /\ e \in ending \ ending'
        /\ rows' = IF e.heir = None THEN rows \ RowsOf(e.task)
                   ELSE (rows \ RowsOf(e.task)) \cup {[q EXCEPT !.task = e.heir] :
                           q \in {q \in RowsOf(e.task) : \A p \in RowsOf(e.heir) : p.dir # q.dir}}
    BY <2>5 DEF Release
  <2>7. r \in RowsOf(e.task) /\ r.task = e.task
    BY <1>1, <2>0, <2>6 DEF RowsOf
  <2>8. /\ e.heir # e.task
        /\ e.heir = None => \A u \in e.there : Living(u) /\ task[u].ws # None => task[u].ws # task[e.task].ws
        /\ e.heir # None => task[e.heir].ws = task[e.task].ws
    BY <1>1, <2>6 DEF Consistent, Known, EndingKnown
  <2>9. CASE e.heir = None
    <3>1. t \notin e.there
      BY <1>1, <2>0, <2>7, <2>8, <2>9
    <3> QED BY <2>6, <2>7, <3>1
  <2>10. CASE e.heir # None
    <3>1. ASSUME \A p \in RowsOf(e.heir) : p.dir # r.dir PROVE FALSE
      <4>1. [r EXCEPT !.task = e.heir] \in rows'
        BY <2>6, <2>7, <2>10, <3>1
      <4>2. [r EXCEPT !.task = e.heir].repo = r.repo /\ [r EXCEPT !.task = e.heir].id = r.id
        BY <2>0 DEF RepoRow
      <4> QED BY <1>1, <4>1, <4>2
    <3>2. PICK p \in RowsOf(e.heir) : p.dir = r.dir
      BY <3>1
    <3>3. p \in rows' /\ p.task = e.heir
      BY <2>6, <2>8, <2>10, <3>2 DEF RowsOf
    <3> QED BY <1>1, <2>7, <2>8, <2>10, <3>2, <3>3
  <2> QED BY <2>9, <2>10
<1>2. Consistent /\ [Next]_vars =>
      [\A r \in rows, c \in disk \cap disk', t \in Tasks :
          /\ c.real /\ c.repo = r.repo /\ c.id = r.id /\ c.dir = r.dir /\ c.ws = task[r.task].ws
          /\ \A q \in rows' : q.repo # r.repo \/ q.id # r.id
          /\ Living(t) /\ task[t].ws = c.ws
          => \/ \E e \in ending \ ending' : e.step = "write" /\ e.task = r.task /\ t \notin e.there
             \/ \E q \in rows' : q.dir = r.dir /\ task[q.task].ws = c.ws]_vars
  BY <1>1
<1> QED BY <1>2, StaysConsistent, PTL DEF Spec, RowsSurvive

\* When the last copy of an identity is forgotten and no work is on it, the
\* identity goes.
LEMMA ForgetsIdentity ==
    ASSUME TypeOK, NEW ws, NEW x, Forget(ws, x),
           NEW c \in disk \ disk', I(c) = Ident(x.repo, x.id), ~HasWork(I(c)),
           \A d \in disk \ {c} : d.real => I(d) # I(c)
    PROVE  I(c) \notin held'
<1> DEFINE i     == Ident(x.repo, x.id)
           gone  == {d \in In(ws) : d.real /\ d.dir = x.dir /\ d.repo = x.repo}
           other == {d \in disk \ gone : d.real /\ d.repo = x.repo /\ d.id = x.id}
<1>1. /\ disk' = IF x.repo \in Repos \ JJ THEN disk \ gone ELSE disk
      /\ held' = IF x.repo \in JJ \/ (other = {} /\ ~HasWork(i)) THEN held \ {i} ELSE held
  BY DEF Forget
<1>2. c \in gone
  BY <1>1
<1>3. other = {}
  BY <1>2 DEF I, Ident
<1> QED BY <1>1, <1>3

\* A copy whose identity stays behind was not meant to be forgotten, or it could
\* not be: whatever the completion has forgotten is gone when the directory goes,
\* and so is what the removal of a slot has forgotten.
LEMMA LeftBehind ==
    ASSUME Consistent, Next, NEW c \in disk \ disk', c.real, I(c) \in held', ~HasWork(I(c)),
           \A d \in disk \ {c} : d.real => I(d) # I(c)
    PROVE  Unforgotten(c)
<1>0. TypeOK
  BY DEF Consistent
<1>1. CASE CopyOthers
  BY <1>1 DEF CopyOthers
<1>2. ASSUME NEW r \in Repos, CloneRepo(r) PROVE FALSE
  BY <1>2, RepoCloned
<1>3. ASSUME NEW r \in Repos, ForkRepo(r) PROVE FALSE
  BY <1>3 DEF ForkRepo, Fork
<1>4. CASE Proceed \/ Cancel
  BY <1>4 DEF Proceed, Cancel, RemoveAll, At, Goto, outside, Unforgotten
<1>5. ASSUME NEW x \in flow.targets, ForgetNext(x) PROVE Unforgotten(c)
  <2>1. At({"complete"}, "forget") /\ Forget(flow.ws, x)
    BY <1>5 DEF ForgetNext, outside
  <2>2. x.dir = c.dir
    BY <1>0, <2>1, Forgotten DEF Consistent, Known
  <2>3. Ident(x.repo, x.id) # I(c)
    BY <1>0, <2>1, ForgetsIdentity
  <2> QED BY <2>1, <2>2, <2>3 DEF Unforgotten
<1>6. CASE RemoveDir
  <2>1. /\ At({"complete"}, "forget") /\ flow.targets = flow.made \cup flow.failed
        /\ held' = held /\ c \in In(flow.ws) /\ c.ws = flow.ws
    BY <1>6 DEF RemoveDir, RemoveAll, In
  <2>2. /\ c.dir \in flow.late \cup {x.dir : x \in flow.targets}
        /\ \A x \in flow.made : Undone(x, c) => c.repo \in JJ /\ (I(c) \in held => Retaken(c))
    BY <2>1 DEF Consistent, Known, CompletionSafe, At
  <2>3. CASE c.dir \in flow.late
    BY <2>1, <2>3 DEF Unforgotten
  <2>4. CASE c.dir \notin flow.late
    <3>1. PICK x \in flow.targets : x.dir = c.dir
      BY <2>2, <2>4
    <3>2. x \notin flow.made \/ Ident(x.repo, x.id) # I(c)
      BY <2>1, <2>2, <2>4, <3>1 DEF Undone, Retaken
    <3> QED BY <2>1, <3>1, <3>2 DEF Unforgotten
  <2> QED BY <2>3, <2>4
<1>7. CASE CloneSlot
  BY <1>7, SlotCloned
<1>8. CASE ForgetSlot
  <2>1. api # None /\ api.step = "forget" /\ Forget(api.ws, api.target)
    BY <1>8 DEF ForgetSlot, outside
  <2>2. api.target # None
    BY <2>1 DEF Consistent, Known, RequestKnown
  <2>3. Ident(api.target.repo, api.target.id) # I(c)
    BY <1>0, <2>1, ForgetsIdentity
  <2> QED BY <2>1, <2>2, <2>3 DEF Unforgotten
<1>9. CASE DeleteSlot
  <2>1. /\ api # None /\ api.step = "delete" /\ held' = held
        /\ c \in In(api.ws) /\ c.dir = api.target.dir
    BY <1>9 DEF DeleteSlot
  <2>2. /\ api.target # None /\ api.target.repo = api.repo
        /\ ~api.force => (c.real /\ c.dir = api.target.dir /\ I(c) = Ident(api.repo, api.target.id)
                          => c.repo \in JJ /\ I(c) \notin held)
    BY <2>1 DEF Consistent, Known, RequestKnown
  <2> QED BY <2>1, <2>2 DEF Unforgotten
<1> QED BY <1>1, <1>2, <1>3, <1>4, <1>5, <1>6, <1>7, <1>8, <1>9, DiskMoves

\* A working copy that goes takes its identity along, so that neither a jj
\* workspace nor an empty branch is left that no directory belongs to, but where
\* the making is cancelled, the VCS fails, an agent had the copy made while the
\* completion was at work, or a directory without a row is taken for another.
THEOREM IdentityGoes == Spec => IdentityGoesWithCopy
<1>1. Consistent /\ [Next]_vars =>
      [\A c \in disk \ disk' :
          /\ c.real /\ I(c) \in held' /\ ~HasWork(I(c))
          /\ \A d \in disk \ {c} : d.real => I(d) # I(c)
          => Unforgotten(c)]_vars
  BY LeftBehind
<1> QED BY <1>1, StaysConsistent, PTL DEF Spec, IdentityGoesWithCopy

--------------------------------------------------------------------------------
(* Directories are used as WorkspaceDirectory says.                        *)

\* A flow keeps its kind and its workspace.
LEMMA FlowKeeps ==
    ASSUME Consistent, Next, flow # None, flow' # None
    PROVE  flow'.kind = flow.kind /\ flow'.ws = flow.ws
<1>1. flow \in Flow
  BY DEF Consistent, TypeOK
<1>2. CASE flow' = flow
  BY <1>2
<1>3. CASE CloneSlot
  BY <1>1, <1>3 DEF CloneSlot, Flow
<1>4. ASSUME NEW e \in ending, Release(e) PROVE flow'.kind = flow.kind /\ flow'.ws = flow.ws
  BY <1>1, <1>4 DEF Release, Goto, Flow
<1>5. ASSUME NEW e \in ending, CompleteFails(e), flow' # flow PROVE FALSE
  BY <1>5 DEF CompleteFails
<1>6. ASSUME NEW x \in flow.targets, ForgetNext(x) PROVE flow'.kind = flow.kind /\ flow'.ws = flow.ws
  BY <1>1, <1>6 DEF ForgetNext, Flow
<1>7. ASSUME NEW x \in flow.made, RecordSlot(x) PROVE flow'.kind = flow.kind /\ flow'.ws = flow.ws
  BY <1>1, <1>7 DEF RecordSlot, Flow
<1>8. CASE MakeDir \/ CopyOthers \/ Proceed \/ InsertTask \/ SetDir
  BY <1>1, <1>8 DEF MakeDir, CopyOthers, Proceed, InsertTask, SetDir, Goto, Flow
<1>9. ASSUME NEW r \in Repos, CloneRepo(r) \/ CloneFails(r) \/ ForkRepo(r) \/ ForkFails(r)
      PROVE  flow'.kind = flow.kind /\ flow'.ws = flow.ws
  BY <1>1, <1>9 DEF CloneRepo, CloneFails, ForkRepo, ForkFails, Tried, Flow
<1>10. ~LaunchFails /\ ~Cancel /\ ~RemoveDir /\ ~Crash
  BY DEF LaunchFails, Cancel, RemoveDir, Crash
<1> QED BY <1>2, <1>3, <1>4, <1>5, <1>6, <1>7, <1>8, <1>9, <1>10, FlowMoves
           DEF BeginCreate, BeginAdd, BeginFork, Idle, Confirm

\* One that builds a directory starts before there is one.
LEMMA FlowStarts ==
    ASSUME Next, flow = None, flow' # None, flow'.kind \in {"create", "fork"}
    PROVE  flow'.step = "mkdir"
<1>1. ~CloneSlot \/ flow' = flow
  BY DEF CloneSlot
<1>2. ASSUME NEW e \in ending, Release(e) \/ CompleteFails(e) PROVE flow' = flow
  BY <1>2 DEF Release, CompleteFails, At
<1>3. ASSUME NEW t \in Tasks, NEW n \in TaskNames, NEW R \in SUBSET Repos, BeginCreate(t, n, R)
      PROVE  flow'.step = "mkdir"
  BY <1>3 DEF BeginCreate, Begin
<1>4. ASSUME NEW src \in Tasks, NEW t \in Tasks, NEW n \in TaskNames, BeginFork(src, t, n)
      PROVE  flow'.step = "mkdir"
  BY <1>4 DEF BeginFork, Begin
<1>5. ASSUME NEW t \in Tasks, NEW R \in SUBSET Repos, BeginAdd(t, R) PROVE FALSE
  BY <1>5 DEF BeginAdd, Begin
<1>6. ASSUME NEW t \in Tasks, Confirm(t), flow' # flow PROVE FALSE
  BY <1>6 DEF Confirm, Begin
<1> QED BY <1>1, <1>2, <1>3, <1>4, <1>5, <1>6, FlowMoves DEF MakeDir, CopyOthers, CloneRepo, CloneFails, ForkRepo,
           ForkFails, Proceed, Cancel, InsertTask, SetDir, RecordSlot, LaunchFails, ForgetNext, RemoveDir, Crash, At

\* Nobody starts to build in a directory that is there.
LEMMA BuildsAnew ==
    ASSUME Consistent, Next, NEW n \in dirs, Building(n)'
    PROVE  Building(n)
<1>1. /\ flow' # None /\ flow'.kind \in {"create", "fork"} /\ flow'.ws = n
      /\ flow'.step \notin {"mkdir", "record"}
  BY DEF Building
<1>2. flow # None
  BY <1>1, FlowStarts
<1>3. flow \in Flow /\ flow.kind = flow'.kind /\ flow.ws = n
  BY <1>1, <1>2, FlowKeeps DEF Consistent, TypeOK
<1>4. CASE flow.step = "mkdir"
  <2>1. CASE MakeDir
    BY <1>1, <1>3, <2>1 DEF MakeDir
  <2>2. CASE CloneSlot
    BY <1>1, <1>3, <1>4, <2>2 DEF CloneSlot
  <2>3. CASE flow' = flow
    BY <1>1, <1>4, <2>3
  <2> QED BY <1>1, <1>2, <1>3, <1>4, <2>1, <2>2, <2>3, FlowMoves
             DEF BeginCreate, BeginAdd, BeginFork, Idle, Confirm, CopyOthers, CloneRepo, CloneFails, ForkRepo,
                 ForkFails, Proceed, Cancel, InsertTask, SetDir, RecordSlot, LaunchFails, CompleteFails, Release,
                 ForgetNext, RemoveDir, Crash, At
<1>5. CASE flow.step = "record"
  <2>1. ASSUME NEW x \in flow.made, RecordSlot(x) PROVE FALSE
    BY <1>1, <1>3, <1>5, <2>1 DEF RecordSlot, At, Flow
  <2>2. CASE CloneSlot
    BY <1>1, <1>3, <1>5, <2>2 DEF CloneSlot
  <2>3. CASE flow' = flow
    BY <1>1, <1>5, <2>3
  <2> QED BY <1>1, <1>2, <1>3, <1>5, <2>1, <2>2, <2>3, FlowMoves
             DEF BeginCreate, BeginAdd, BeginFork, Idle, Confirm, MakeDir, CopyOthers, CloneRepo, CloneFails, ForkRepo,
                 ForkFails, Proceed, Cancel, InsertTask, SetDir, LaunchFails, CompleteFails, Release,
                 ForgetNext, RemoveDir, Crash, At
<1> QED BY <1>1, <1>2, <1>3, <1>4, <1>5 DEF Building

\* Whose use of a workspace begins or ends.
LEMMA UsersMove ==
    ASSUME Consistent, Next, NEW t \in Tasks, NEW n \in TaskNames, ~(Using(t, n)' <=> Using(t, n))
    PROVE  \/ flow # None /\ n = flow.ws
           \/ \E f \in forking : InsertShared(f) /\ n = f.ws
           \/ \E e \in ending : SetCompleted(e) /\ n = task[e.task].ws
<1>1. TypeOK /\ TasksKnown /\ \A u \in Tasks : task[u] \in Row
  BY DEF Consistent, Known, TypeOK
<1>2. task' # task
  BY DEF Using
<1>3. CASE InsertTask
  <2>1. /\ flow # None /\ flow \in Flow /\ flow.task \in Tasks /\ flow.name \in TaskNames
        /\ (IF flow.kind = "fork" THEN flow.ws ELSE None) \in TaskNames \cup {None}
        /\ Insert(flow.task, flow.name, IF flow.kind = "fork" THEN flow.ws ELSE None)
    BY <1>1, <1>3 DEF InsertTask, At, TypeOK, Flow
  <2>2. /\ task[flow.task].state = "absent"
        /\ task'[flow.task].ws \in {flow.ws, None} /\ \A u \in Tasks \ {flow.task} : task'[u] = task[u]
    BY <1>1, <2>1, Inserted
  <2> QED BY <2>1, <2>2, Nothing DEF Using
<1>4. CASE SetDir
  BY <1>1, <1>4, Nothing DEF SetDir, At, Using, Consistent, Known, FlowKnown, TypeOK, Flow, Row
<1>5. ASSUME NEW f \in forking, InsertShared(f) PROVE n = f.ws
  <2>1. /\ f.task \in Tasks /\ f.name \in TaskNames /\ f.ws \in TaskNames \cup {None} /\ Insert(f.task, f.name, f.ws)
    BY <1>1, <1>5 DEF InsertShared, TypeOK, Shared
  <2>2. /\ task[f.task].state = "absent" /\ task'[f.task].ws = f.ws
        /\ \A u \in Tasks \ {f.task} : task'[u] = task[u]
    BY <1>1, <2>1, Inserted
  <2> QED BY <2>1, <2>2 DEF Using
<1>6. ASSUME NEW e \in ending, SetCompleted(e) PROVE n = task[e.task].ws
  <2>1. e.task \in Tasks
    BY <1>1 DEF TypeOK, Ending
  <2>2. /\ \A u \in Tasks \ {e.task} : task'[u] = task[u]
        /\ task'[e.task].ws = task[e.task].ws
    BY <1>1, <1>6, <2>1 DEF SetCompleted, TypeOK, Row
  <2> QED BY <2>1, <2>2 DEF Using
<1>7. ASSUME NEW u \in Tasks, Fail(u) PROVE FALSE
  <2>1. /\ \A v \in Tasks \ {u} : task'[v] = task[v]
        /\ task'[u].ws = task[u].ws /\ task'[u].state = "failed" /\ task[u].state = "living"
    BY <1>1, <1>7 DEF Fail, Living, TypeOK, Row
  <2> QED BY <2>1 DEF Using
<1> QED BY <1>2, <1>3, <1>4, <1>5, <1>6, <1>7, TaskMoves

\* What is seen of n in this step is what was seen of it before.
Unseen(n) == /\ n \in dirs' <=> n \in dirs
             /\ Building(n)' <=> Building(n)
             /\ InUse(n)' <=> InUse(n)

\* A step changes the use of one name.
LEMMA OneName ==
    ASSUME Consistent, Next
    PROVE  \E m : \A n \in TaskNames \ {m} : Unseen(n)
<1>1. ASSUME CloneSlot PROVE \A n \in TaskNames \ {api.ws} : Unseen(n)
  <2>1. \A n \in TaskNames \ {api.ws} : n \in dirs' <=> n \in dirs
    BY <1>1, SlotCloned
  <2>2. task' = task
    BY <1>1 DEF CloneSlot, database
  <2>3. \/ flow' = flow
        \/ flow # None /\ flow' # None /\ flow'.kind = flow.kind /\ flow'.ws = flow.ws /\ flow.kind = "complete"
    <3>1. ASSUME NEW d \in Dirs, flow # None, flow.kind = "complete", flow' = [flow EXCEPT !.late = @ \cup {d}]
          PROVE  flow' # None /\ flow'.kind = flow.kind /\ flow'.ws = flow.ws
      <4>1. flow \in Flow
        BY <3>1 DEF Consistent, TypeOK
      <4>2. flow' \in Flow /\ flow'.kind = flow.kind /\ flow'.ws = flow.ws
        BY <3>1, <4>1 DEF Flow
      <4> QED BY <4>2, Nothing
    <3>2. CASE flow' = flow
      BY <3>2
    <3>3. ASSUME NEW c \in WorkCopy,
                 flow' = IF flow # None /\ flow.kind = "complete" /\ flow.ws = api.ws
                         THEN [flow EXCEPT !.late = @ \cup {c.dir}] ELSE flow,
                 flow' # flow
          PROVE  flow # None /\ flow' # None /\ flow'.kind = flow.kind /\ flow'.ws = flow.ws /\ flow.kind = "complete"
      BY <3>1, <3>3 DEF WorkCopy
    <3> QED BY <1>1, <3>2, <3>3, SlotCloned
  <2> QED BY <2>1, <2>2, <2>3 DEF Unseen, Building, InUse, Using
<1>2. ASSUME NEW m, flow' = flow, dirs' = dirs,
             \A n \in TaskNames \ {m}, t \in Tasks : Using(t, n)' <=> Using(t, n)
      PROVE  \A n \in TaskNames \ {m} : Unseen(n)
  BY <1>2 DEF Unseen, Building, InUse
<1>3. ASSUME NEW f \in forking, InsertShared(f) PROVE \A n \in TaskNames \ {f.ws} : Unseen(n)
  <2>1. flow' = flow /\ dirs' = dirs
    BY <1>3 DEF InsertShared, outside
  <2>2. /\ f.task \in Tasks /\ f.name \in TaskNames /\ f.ws \in TaskNames \cup {None}
        /\ Insert(f.task, f.name, f.ws) /\ TypeOK /\ TasksKnown
    BY <1>3 DEF Consistent, Known, InsertShared, TypeOK, Shared
  <2>3. /\ task[f.task].state = "absent" /\ task[f.task].ws = None /\ task'[f.task].ws = f.ws
        /\ \A u \in Tasks \ {f.task} : task'[u] = task[u]
    BY <2>2, Inserted DEF TasksKnown
  <2>4. \A n \in TaskNames \ {f.ws}, t \in Tasks : Using(t, n)' <=> Using(t, n)
    BY <2>2, <2>3, Nothing DEF Using
  <2> QED BY <1>2, <2>1, <2>4
<1>4. ASSUME NEW e \in ending, SetCompleted(e) PROVE \A n \in TaskNames \ {task[e.task].ws} : Unseen(n)
  <2>1. flow' = flow /\ dirs' = dirs
    BY <1>4 DEF SetCompleted, outside
  <2>2. e.task \in Tasks /\ task[e.task] \in Row /\ task \in [Tasks -> Row]
    BY DEF Consistent, TypeOK, Ending
  <2>3. \A t \in Tasks : task'[t].ws = task[t].ws /\ (t # e.task => task'[t] = task[t])
    BY <1>4, <2>2 DEF SetCompleted, Row
  <2>4. \A n \in TaskNames \ {task[e.task].ws}, t \in Tasks : Using(t, n)' <=> Using(t, n)
    BY <2>2, <2>3 DEF Using
  <2> QED BY <1>2, <2>1, <2>4
<1>5. ASSUME ~CloneSlot, \A f \in forking : ~InsertShared(f), \A e \in ending : ~SetCompleted(e), flow # None
      PROVE  \A n \in TaskNames \ {flow.ws} : Unseen(n)
  <2>1. \A n \in TaskNames \ {flow.ws}, t \in Tasks : Using(t, n)' <=> Using(t, n)
    BY <1>5, UsersMove
  <2>2. \A n \in TaskNames \ {flow.ws} : n \in dirs' <=> n \in dirs
    <3>1. ASSUME NEW r \in Repos, CloneRepo(r) PROVE dirs' = dirs \cup {flow.ws}
      BY <3>1, RepoCloned
    <3> QED BY <1>5, <3>1, DirsMoves DEF MakeDir, Proceed, Cancel, RemoveDir, RemoveAll, outside
  <2>3. flow' = None \/ flow'.ws = flow.ws
    BY <1>5, FlowKeeps
  <2> QED BY <1>5, <2>1, <2>2, <2>3 DEF Unseen, Building, InUse
<1>6. ASSUME ~CloneSlot, \A f \in forking : ~InsertShared(f), \A e \in ending : ~SetCompleted(e), flow = None
      PROVE  \A n \in TaskNames \ {flow'.ws} : Unseen(n)
  <2>1. \A n \in TaskNames, t \in Tasks : Using(t, n)' <=> Using(t, n)
    BY <1>6, UsersMove
  <2>2. dirs' = dirs
    BY <1>6, DirsMoves DEF MakeDir, CloneRepo, Proceed, Cancel, RemoveDir, At
  <2> QED BY <1>6, <2>1, <2>2 DEF Unseen, Building, InUse
<1> QED BY <1>1, <1>3, <1>4, <1>5, <1>6

\* A workspace directory is built for one task where there is none, used by it and
\* those who share it, and removed by whoever builds it or by the completion of
\* its last user: what was left behind is neither built in nor removed.
THEOREM KeptApart == Spec => DirectoriesKeptApart
<1>1. Init => Directory!Init
  BY DEF Init, Directory!Init, use
<1>2. ASSUME Consistent, Next, use' # use PROVE Directory!Next
  <2>1. PICK m : \A n \in TaskNames \ {m} : Unseen(n)
    BY <1>2, OneName
  <2>2. \A n \in TaskNames \ {m} : use'[n] = use[n]
    BY <2>1 DEF Unseen, use
  <2>3. m \in TaskNames /\ use' = [use EXCEPT ![m] = use'[m]] /\ use'[m] # use[m]
    BY <1>2, <2>2 DEF use
  <2>4. use[m] \in {"free", "building", "used", "left"} /\ use'[m] \in {"free", "building", "used", "left"}
    BY <2>3 DEF use
  <2>5. use[m] # "free" /\ use'[m] = "building" => use[m] = "building"
    BY <1>2, <2>3, BuildsAnew DEF use
  <2>6. use'[m] = "free" => use[m] # "left"
    <3>1. ASSUME m \in dirs \ dirs' PROVE Building(m) \/ InUse(m)
      BY <1>2, <3>1, DirsRemoved DEF At, Building, InUse
    <3> QED BY <2>3, <3>1 DEF use
  <2>7. <<use[m], use'[m]>> \in Directory!Build \cup Directory!HandOver \cup Directory!Abandon \cup Directory!Remove
                                   \cup Directory!Resurrect \cup Directory!JoinLate
    BY <2>3, <2>4, <2>5, <2>6 DEF Directory!Build, Directory!HandOver, Directory!Abandon, Directory!Remove,
       Directory!Resurrect, Directory!JoinLate
  <2> QED BY <2>3, <2>7 DEF Directory!Next
<1>3. Consistent /\ [Next]_vars => [Directory!Next]_use
  <2>1. UNCHANGED vars => use' = use
    BY DEF vars, database, outside, krang, use, Building, InUse, Using
  <2> QED BY <1>2, <2>1
<1> QED BY <1>1, <1>3, StaysConsistent, PTL DEF Spec, DirectoriesKeptApart, Directory!Spec

--------------------------------------------------------------------------------
(* The names, as the runs state them.                                      *)

\* Directory names lead back to repo and label, and VCS names meet only where a task
\* is named like a slot, whatever the words: LeadsBack and NamesMeet.
THEOREM NamesHold == Spec => []SlotNamesHold
<1>1. SlotNamesHold
  <2> DEFINE names  == OneWord \cup TwoWords
             labels == OneWord \cup {Initial}
  <2>1. names \subseteq Seq(Words) /\ labels \subseteq Seq(Words)
    <3>1. \A v \in Words : <<v>> \in Seq(Words)
      OBVIOUS
    <3>2. \A v, w \in Words : <<v, w>> \in Seq(Words)
      OBVIOUS
    <3>3. Initial \in Seq(Words)
      BY EmptySeq DEF Initial
    <3>4. OneWord \subseteq Seq(Words)
      BY <3>1 DEF OneWord
    <3>5. TwoWords \subseteq Seq(Words)
      <4> SUFFICES ASSUME NEW x \in TwoWords PROVE x \in Seq(Words)
        OBVIOUS
      <4>1. x \in Words \X Words
        BY DEF TwoWords
      <4>2. x = <<x[1], x[2]>> /\ x[1] \in Words /\ x[2] \in Words
        BY <4>1
      <4> QED BY <3>2, <4>2, Zenon
    <3> QED BY <3>3, <3>4, <3>5
  <2> HIDE DEF names, labels
  <2>2. \A p, q, r \in names : ParsesBack({p, q, r}, labels)
    <3>1. \A p, q, r \in names : {p, q, r} \subseteq Seq(Words)
      BY <2>1
    <3> QED BY <2>1, <3>1, LeadsBack
  <2>3. \A r \in names : NamesCollide(names, {r}, labels)
    <3>1. \A r \in names : {r} \subseteq Seq(Words)
      BY <2>1
    <3> QED BY <2>1, <3>1, NamesMeet
  <2> QED BY <2>2, <2>3 DEF SlotNamesHold, names, labels
<1> QED BY <1>1, PTL

--------------------------------------------------------------------------------
(* Working copies do not get mixed up.                                     *)

\* They do not when copies go, each of those that stay with its workspace and its
\* branch.
LEMMA CopiesGo ==
    ASSUME OnDisk, disk' \subseteq disk,
           \A c \in disk' : c.ws \in dirs' /\ (c.real /\ c.repo \notin JJ => I(c) \in held')
    PROVE  Housed' /\ OneCopyPerDir' /\ WorktreesApart'
BY DEF OnDisk, Housed, OneCopyPerDir, WorktreesApart, I, Ident

\* Nor when one comes, where nothing is, with a branch that no worktree has.
LEMMA CopyComes ==
    ASSUME OnDisk, NEW c, c.real, disk' = disk \cup {c}, held' = held \cup {I(c)},
           dirs \subseteq dirs', c.ws \in dirs', \A d \in In(c.ws) : d.dir # c.dir,
           c.repo \notin JJ => \A d \in disk : d.real => I(d) # I(c)
    PROVE  Housed' /\ OneCopyPerDir' /\ WorktreesApart'
<1>1. Housed'
  BY DEF OnDisk, Housed
<1>2. OneCopyPerDir'
  BY DEF OnDisk, OneCopyPerDir, In
<1>3. WorktreesApart'
  BY DEF OnDisk, WorktreesApart, I, Ident
<1> QED BY <1>1, <1>2, <1>3

\* What is resolved as free is no branch of a worktree: had one of them it, the
\* branch would be held.
LEMMA ApartIsEnough ==
    ASSUME OnDisk, NEW c, Apart(c), c.repo \notin JJ, NEW d \in disk, d.real
    PROVE  I(d) # I(c)
BY DEF OnDisk, WorktreesApart, Apart, I, Ident

\* Forgetting one copy takes no branch from another.
LEMMA ForgetsNoOther ==
    ASSUME TypeOK, OnDisk, NEW ws, NEW x, Forget(ws, x)
    PROVE  Housed' /\ OneCopyPerDir' /\ WorktreesApart'
<1> DEFINE i     == Ident(x.repo, x.id)
           gone  == {c \in In(ws) : c.real /\ c.dir = x.dir /\ c.repo = x.repo}
           other == {c \in disk \ gone : c.real /\ c.repo = x.repo /\ c.id = x.id}
<1>1. /\ disk' = IF x.repo \in Repos \ JJ THEN disk \ gone ELSE disk
      /\ held' = IF x.repo \in JJ \/ (other = {} /\ ~HasWork(i)) THEN held \ {i} ELSE held
      /\ dirs' = dirs
  BY DEF Forget
<1>2. ASSUME NEW c \in disk', c.real, c.repo \notin JJ PROVE I(c) \in held'
  <2>1. c \in disk /\ I(c) \in held /\ c.repo \in Repos
    BY <1>1, <1>2 DEF OnDisk, WorktreesApart, TypeOK, WorkCopy
  <2>2. CASE I(c) # i
    BY <1>1, <2>1, <2>2
  <2>3. CASE I(c) = i
    <3>1. c.repo = x.repo /\ c.id = x.id
      BY <2>3 DEF I, Ident
    <3>2. c \in other /\ x.repo \notin JJ
      BY <1>1, <1>2, <2>1, <3>1
    <3> QED BY <1>1, <2>1, <3>2
  <2> QED BY <2>2, <2>3
<1>3. disk' \subseteq disk /\ \A c \in disk' : c.ws \in dirs'
  BY <1>1 DEF OnDisk, Housed
<1> QED BY <1>2, <1>3, CopiesGo

\* A fork takes over the other directories one for one, into an empty workspace.
LEMMA OthersCopied ==
    ASSUME TypeOK, OnDisk, CopyOthers
    PROVE  /\ Housed' /\ OneCopyPerDir' /\ WorktreesApart'
           /\ \A c \in disk' : c.ws = flow.ws => c.dir \notin flow.repos
<1> DEFINE from == {c \in In(flow.from) : c.dir \notin flow.repos}
           as(c) == Copy(flow.ws, c.dir, c.repo, c.id, c.by, FALSE)
<1>1. /\ flow # None /\ flow.kind = "fork" /\ flow.ws \in dirs /\ \A c \in disk : c.ws # flow.ws
      /\ disk' = disk \cup {as(c) : c \in from} /\ dirs' = dirs /\ held' = held
  BY DEF CopyOthers, At, OnDisk, ForkPrepared, In
<1>2. \A c \in from : /\ c \in disk /\ c.ws = flow.from /\ c.dir \notin flow.repos
                      /\ as(c).ws = flow.ws /\ as(c).dir = c.dir /\ as(c).real = FALSE
  BY DEF In, Copy
<1>3. \A c, d \in from : c.dir = d.dir => c = d
  BY <1>2 DEF OnDisk, OneCopyPerDir
<1> HIDE DEF from, as
<1>4. \A c \in disk' : \/ c \in disk /\ c.ws # flow.ws
                       \/ \E d \in from : c = as(d)
  BY <1>1
<1>5. Housed'
  BY <1>1, <1>2, <1>4 DEF OnDisk, Housed
<1>6. OneCopyPerDir'
  <2>1. ASSUME NEW c \in disk', NEW d \in disk', c.ws = d.ws, c.dir = d.dir PROVE c = d
    <3>1. CASE c \in disk /\ d \in disk
      BY <2>1, <3>1 DEF OnDisk, OneCopyPerDir
    <3>2. CASE c.ws = flow.ws
      <4>1. PICK e \in from : c = as(e)
        BY <1>1, <1>4, <3>2
      <4>2. PICK f \in from : d = as(f)
        BY <1>1, <1>4, <2>1, <3>2
      <4>3. e = f
        BY <1>2, <1>3, <2>1, <4>1, <4>2
      <4> QED BY <4>1, <4>2, <4>3
    <3> QED BY <1>2, <1>4, <2>1, <3>1, <3>2
  <2> QED BY <2>1 DEF OneCopyPerDir
<1>7. WorktreesApart'
  <2>1. \A c \in disk' : c.real => c \in disk
    BY <1>2, <1>4
  <2> QED BY <1>1, <2>1 DEF OnDisk, WorktreesApart, I, Ident
<1> QED BY <1>2, <1>4, <1>5, <1>6, <1>7

\* A fork finds the place of a repo as it was when the others had been copied.
LEMMA RepoForked ==
    ASSUME Consistent, OnDisk, NEW r \in Repos, ForkRepo(r)
    PROVE  /\ Housed' /\ OneCopyPerDir' /\ WorktreesApart'
           /\ \A c \in disk' : c.ws = flow.ws => c.dir \notin flow.repos \ {r}
<1> DEFINE c == Copy(flow.ws, r, r, flow.name, flow.name, TRUE)
<1>1. /\ flow # None /\ flow.kind = "fork" /\ flow.step = "repos" /\ r \in flow.repos
      /\ Forkable(flow.name, r) /\ Fork(flow.from, flow.ws, flow.name, r)
  BY DEF ForkRepo, At
<1>2. flow.ws \in dirs /\ \A d \in In(flow.ws) : d.dir \notin flow.repos
  BY <1>1 DEF OnDisk, ForkPrepared
<1>3. /\ c.ws = flow.ws /\ c.dir = r /\ c.repo = r /\ c.real /\ I(c) = Ident(r, flow.name)
  BY DEF Copy, I
<1>4. disk' = disk \cup {c} /\ held' = held \cup {I(c)} /\ dirs' = dirs
  BY <1>1, <1>3 DEF Fork
<1>5. r \notin JJ => \A d \in disk : d.real => I(d) # I(c)
  BY <1>1, <1>3 DEF Forkable, CheckedOut, I, Ident
<1> HIDE DEF c
<1>6. Housed' /\ OneCopyPerDir' /\ WorktreesApart'
  BY <1>1, <1>2, <1>3, <1>4, <1>5, CopyComes
<1>7. \A d \in disk' : d.ws = flow.ws => d.dir \notin flow.repos \ {r}
  BY <1>2, <1>3, <1>4 DEF In
<1> QED BY <1>6, <1>7

\* No step mixes working copies up.
LEMMA CopiesStayApart ==
    ASSUME Consistent, OnDisk, Next
    PROVE  Housed' /\ OneCopyPerDir' /\ WorktreesApart'
<1> DEFINE Q == Housed' /\ OneCopyPerDir' /\ WorktreesApart'
<1>0. TypeOK /\ OnDisk
  BY DEF Consistent
<1>1. ASSUME disk' = disk, held' = held, dirs \subseteq dirs' PROVE Q
  BY <1>1, CopiesGo DEF OnDisk, Housed, WorktreesApart
<1>2. ASSUME NEW ws, RemoveAll(ws) PROVE Q
  <2>1. disk' = {c \in disk : c.ws # ws} /\ dirs' = dirs \ {ws} /\ held' = held
    BY <1>2 DEF RemoveAll, In
  <2> QED BY <2>1, CopiesGo DEF OnDisk, Housed, WorktreesApart
<1>3. ASSUME NEW ws, NEW x, Forget(ws, x) PROVE Q
  BY <1>0, <1>3, ForgetsNoOther
<1>4. ASSUME NEW c \in WorkCopy, c.real, Apart(c), disk' = disk \cup {c}, held' = held \cup {I(c)},
             dirs' = dirs \cup {c.ws}
      PROVE  Q
  <2>1. c.repo \notin JJ => \A d \in disk : d.real => I(d) # I(c)
    BY <1>4, ApartIsEnough
  <2>2. \A d \in In(c.ws) : d.dir # c.dir
    BY <1>4 DEF Apart
  <2> QED BY <1>4, <2>1, <2>2, CopyComes
<1>5. CASE UNCHANGED outside
  BY <1>1, <1>5 DEF outside
<1>6. CASE MakeDir
  BY <1>1, <1>6 DEF MakeDir
<1>7. CASE CopyOthers
  BY <1>0, <1>7, OthersCopied
<1>8. ASSUME NEW r \in Repos, CloneRepo(r) PROVE Q
  BY <1>4, <1>8, RepoCloned
<1>9. ASSUME NEW r \in Repos, ForkRepo(r) PROVE Q
  BY <1>9, RepoForked
<1>10. CASE Proceed \/ Cancel \/ RemoveDir
  <2>1. UNCHANGED outside \/ RemoveAll(flow.ws)
    BY <1>10 DEF Proceed, Cancel, RemoveDir
  <2> QED BY <1>2, <1>5, <2>1
<1>11. ASSUME NEW x \in flow.targets, ForgetNext(x) PROVE Q
  <2>1. UNCHANGED outside \/ Forget(flow.ws, x)
    BY <1>11 DEF ForgetNext
  <2> QED BY <1>3, <1>5, <2>1
<1>16. ASSUME GivesUp, disk' = disk, dirs' = dirs PROVE Q
  <2>1. \A c \in disk : c.real /\ c.repo \notin JJ => I(c) \in held /\ CheckedOut(I(c))
    BY DEF OnDisk, WorktreesApart, CheckedOut, I, Ident
  <2> QED BY <1>16, <2>1, CopiesGo DEF GivesUp, OnDisk, Housed
<1>17. ASSUME NEW r \in Repos, CloneFails(r) \/ ForkFails(r) PROVE Q
  BY <1>16, <1>17, CloneGivesUp, ForkGivesUp
<1>12. CASE CloneSlot
  <2>1. \/ GivesUp /\ disk' = disk /\ dirs' = dirs
        \/ \E c \in WorkCopy : /\ c.real /\ Apart(c) /\ disk' = disk \cup {c} /\ held' = held \cup {I(c)}
                               /\ dirs' = dirs \cup {c.ws}
    BY <1>12, SlotCloned
  <2> QED BY <1>4, <1>16, <2>1
<1>13. CASE ForgetSlot
  <2>1. UNCHANGED outside \/ Forget(api.ws, api.target)
    BY <1>13 DEF ForgetSlot
  <2> QED BY <1>3, <1>5, <2>1
<1>14. CASE DeleteSlot
  BY <1>14, CopiesGo DEF DeleteSlot, OnDisk, Housed, WorktreesApart
<1>15. CASE disk' = disk /\ held' = held /\ dirs' = dirs
  BY <1>1, <1>15
<1> QED BY <1>6, <1>7, <1>8, <1>9, <1>10, <1>11, <1>12, <1>13, <1>14, <1>15, <1>17,
        DiskMoves, HeldMoves, DirsMoves

\* A fork finds what it has prepared: while it is at work nobody else touches the
\* disk, neither another flow nor a request.
LEMMA ForkFinds ==
    ASSUME Consistent, OnDisk, Next
    PROVE  ForkPrepared'
<1> SUFFICES ASSUME flow' # None, flow'.kind = "fork" PROVE ForkPrepared'
  BY DEF ForkPrepared
<1> DEFINE Q(ws, step, repos) ==
              /\ step \in {"copy", "repos", "tried"} => ws \in dirs'
              /\ step = "copy" => \A c \in disk' : c.ws # ws
              /\ step \in {"repos", "tried"} => \A c \in disk' : c.ws = ws => c.dir \notin repos
<1>1. SUFFICES Q(flow'.ws, flow'.step, flow'.repos)
  BY DEF ForkPrepared, In
<1>2. CASE flow = None
  BY <1>2, FlowStarts
<1>3. CASE flow # None
  <2>1. flow \in Flow /\ flow.kind = "fork" /\ api = None
    BY <1>3, FlowKeeps DEF Consistent, TypeOK, Known, RequestKnown
  <2>2. Q(flow.ws, flow.step, flow.repos) \/ ~(disk' = disk /\ dirs' = dirs)
    BY <1>3, <2>1 DEF OnDisk, ForkPrepared, In
  <2>3. ASSUME NEW step, flow' = [flow EXCEPT !.step = step]
        PROVE  flow'.ws = flow.ws /\ flow'.step = step /\ flow'.repos = flow.repos
    BY <2>1, <2>3 DEF Flow
  <2>4. CASE MakeDir
    <3>1. /\ flow.ws \notin dirs /\ dirs' = dirs \cup {flow.ws} /\ disk' = disk
          /\ flow' = [flow EXCEPT !.step = "copy"]
      BY <2>1, <2>4 DEF MakeDir, Goto
    <3>2. \A c \in disk' : c.ws # flow.ws
      BY <3>1 DEF OnDisk, Housed
    <3> QED BY <2>3, <3>1, <3>2
  <2>5. CASE CopyOthers
    <3>1. /\ flow.step = "copy" /\ dirs' = dirs
          /\ \E step \in {"insert", "repos"} : flow' = [flow EXCEPT !.step = step]
      BY <2>5 DEF CopyOthers, At, Goto
    <3>2. flow.ws \in dirs /\ \A c \in disk' : c.ws = flow.ws => c.dir \notin flow.repos
      BY <1>3, <2>1, <2>5, <3>1, OthersCopied DEF OnDisk, ForkPrepared, Consistent
    <3> QED BY <2>3, <3>1, <3>2
  <2>6. ASSUME NEW r \in Repos, ForkRepo(r) \/ ForkFails(r) PROVE Q(flow'.ws, flow'.step, flow'.repos)
    <3>1. /\ flow.step = "repos" /\ dirs' = dirs
          /\ flow' = [flow EXCEPT !.repos = @ \ {r}, !.made = @ \cup {}, !.step = "tried"]
      BY <2>6 DEF ForkRepo, ForkFails, Fork, OnlyDeletes, At, Tried, outside
    <3>2. flow'.ws = flow.ws /\ flow'.step = "tried" /\ flow'.repos = flow.repos \ {r}
      BY <2>1, <3>1 DEF Flow
    <3>3. flow.ws \in dirs /\ \A c \in disk : c.ws = flow.ws => c.dir \notin flow.repos
      BY <1>3, <2>1, <3>1 DEF OnDisk, ForkPrepared, In
    <3>4. \A c \in disk' : c.ws = flow.ws => c.dir \notin flow.repos \ {r}
      <4>1. CASE ForkRepo(r)
        BY <4>1, RepoForked
      <4>2. CASE ForkFails(r)
        BY <3>3, <4>2, ForkGivesUp
      <4> QED BY <2>6, <4>1, <4>2
    <3> QED BY <3>1, <3>2, <3>3, <3>4
  <2>7. CASE Proceed
    <3>1. /\ flow.step = "tried" /\ disk' = disk /\ dirs' = dirs
          /\ \E step \in {"insert", "repos"} : flow' = [flow EXCEPT !.step = step]
      BY <2>1, <2>7 DEF Proceed, At, Goto, outside
    <3> QED BY <2>2, <2>3, <3>1
  <2>8. CASE flow' = flow /\ disk' = disk /\ dirs' = dirs
    BY <2>2, <2>8
  <2>9. /\ ~Cancel /\ ~RemoveDir /\ ~CloneSlot /\ ~ForgetSlot /\ ~DeleteSlot /\ ~LaunchFails /\ ~InsertTask /\ ~SetDir
        /\ ~Crash /\ \A r \in Repos : ~CloneRepo(r) /\ ~CloneFails(r)
        /\ \A x \in flow.targets : ~ForgetNext(x)
        /\ \A x \in flow.made : ~RecordSlot(x)
        /\ \A t \in Tasks, n \in TaskNames, R \in SUBSET Repos : ~BeginCreate(t, n, R)
        /\ \A t \in Tasks, R \in SUBSET Repos : ~BeginAdd(t, R)
        /\ \A src, t \in Tasks, n \in TaskNames : ~BeginFork(src, t, n)
        /\ \A t \in Tasks : ~Confirm(t)
    BY <1>3, <2>1 DEF Cancel, RemoveDir, CloneSlot, ForgetSlot, DeleteSlot, LaunchFails, InsertTask, SetDir, Crash,
       CloneRepo, CloneFails, ForgetNext, RecordSlot, BeginCreate, BeginAdd, BeginFork, Confirm, Idle, At
  <2>10. \A e \in ending : CompleteFails(e) \/ Release(e) => flow' = flow
    BY <2>1 DEF CompleteFails, Release, At
  <2> QED BY <2>4, <2>5, <2>6, <2>7, <2>8, <2>9, <2>10, DiskMoves, DirsMoves, FlowMoves
<1> QED BY <1>2, <1>3

\* Everything has its type, a row of a living task may be believed, and so may what
\* krang keeps in memory between the steps of a flow, a request and a completion;
\* no two copies are in one directory, no two worktrees on one branch, and none
\* loses its branch while it is there: for any tasks, names, repos and labels, and
\* any number of operations, crashes and failures.
THEOREM Invariance == Spec => []Inv
<1>1. Init => OnDisk
  BY DEF Init, OnDisk, Housed, OneCopyPerDir, WorktreesApart, ForkPrepared
<1>2. Consistent /\ OnDisk /\ [Next]_vars => OnDisk'
  <2>1. CASE Next
    BY <2>1, CopiesStayApart, ForkFinds DEF OnDisk
  <2>2. CASE UNCHANGED vars
    BY <2>2 DEF vars, outside, krang, OnDisk, Housed, OneCopyPerDir, WorktreesApart, ForkPrepared, In, I
  <2> QED BY <2>1, <2>2
<1> QED BY <1>1, <1>2, StaysConsistent, PTL DEF Spec, Inv
================================================================================
