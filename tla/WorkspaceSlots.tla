----------------------------- MODULE WorkspaceSlots ----------------------------
(***************************************************************************)
(* Working copies: what is on disk, what jj and git hold, and what krang   *)
(* has recorded of both, while tasks are created, forked, extended, torn   *)
(* down and abandoned half way.                                            *)
(*                                                                         *)
(* Every working copy of a repo owns an identity in it, a jj workspace or  *)
(* a git branch, which lives on when the directory is gone. The rows of    *)
(* workspace_repos say which; a directory without a row is taken for an    *)
(* initial copy. The strategy is multi_repo: a workspace is a directory    *)
(* named after its task, with the working copies in it.                    *)
(***************************************************************************)
EXTENDS SlotNames, FiniteSets

CONSTANTS
    Words,        \* what names are made of
    Tasks,        \* rows of the tasks table
    TaskNames,    \* what a human may call them
    Repos,        \* the managed repos
    JJ,           \* ... that are jj repos; the others are git
    AutoLabels,   \* bound: the labels auto-numbering tries, Initial first
    AgentLabels,  \* labels agents ask for
    MaxOps,       \* bound: what humans and agents start
    MaxMishaps,   \* bound: crashes, failing steps and lost tasks together
    None

ASSUME TaskAssumption   == IsFiniteSet(Tasks) /\ TaskNames \subseteq Seq(Words)
ASSUME RepoAssumption   == JJ \subseteq Repos /\ Repos \subseteq Seq(Words)
ASSUME LabelAssumption  == /\ AutoLabels \in Seq(Seq(Words)) /\ AgentLabels \subseteq Seq(Words)
                           /\ Len(AutoLabels) >= 1 /\ AutoLabels[1] = Initial
ASSUME BoundAssumption  == MaxOps \in Nat /\ MaxMishaps \in Nat

VARIABLES
    task,      \* the rows of tasks, and their age
    rows,      \* the rows of workspace_repos
    dirs,      \* workspace directories
    disk,      \* working copies in them
    held,      \* identities: jj workspaces known to their repo, git branches
    unmerged,  \* branches with unmerged commits, and the branch they were made on
    flow,      \* the progress modal: a creation, an addition, a fork, a completion
    api,       \* the agent's request at work
    forking,   \* shared forks whose goroutine has not inserted its row
    ending,    \* Manager.Complete at work
    pass,      \* tasks the reconcile pass has still to look at
    ops, mishaps  \* how much of the bounds is used

database == <<task, rows>>
outside  == <<dirs, disk, held, unmerged>>
krang    == <<flow, api, forking, ending, pass>>
vars     == <<database, outside, krang, ops, mishaps>>

--------------------------------------------------------------------------------
Ident(repo, id) == [repo |-> repo, id |-> id]
Copy(ws, dir, repo, id, by, real) ==
    [ws |-> ws, dir |-> dir, repo |-> repo, id |-> id, by |-> by, real |-> real]
Record(t, dir, repo, id, by) == [task |-> t, dir |-> dir, repo |-> repo, id |-> id, by |-> by]

Living(t)      == task[t].state = "living"
NameInUse(n)   == \E t \in Tasks : Living(t) /\ task[t].name = n
Sharers(ws, t) == IF ws = None THEN {} ELSE {u \in Tasks \ {t} : Living(u) /\ task[u].ws = ws}
RowsOf(t)      == {r \in rows : r.task = t}
In(ws)         == {c \in disk : c.ws = ws}

\* Nothing is started beside the modal or a request (workspaceBusy).
Idle == flow = None /\ api = None

Labels == {AutoLabels[i] : i \in 1..Len(AutoLabels)} \cup AgentLabels
Dirs   == {DirName(r, l) : r \in Repos, l \in Labels}
Ids    == TaskNames \cup {VCSName(n, r, l) : n \in TaskNames, r \in Repos, l \in Labels \ {Initial}}

Row      == [state : {"absent", "living", "completed", "failed"}, name : TaskNames \cup {None},
             ws : TaskNames \cup {None}, age : 0..Cardinality(Tasks)]
Target   == [dir : Dirs, repo : Dirs, id : Ids]
RepoRow  == [task : Tasks, dir : Dirs, repo : Dirs, id : Ids, by : TaskNames \cup {None}]
WorkCopy == [ws : TaskNames, dir : Dirs, repo : Repos, id : Ids, by : TaskNames, real : BOOLEAN]
Flow     == [kind : {"create", "add", "fork", "complete"}, task : Tasks, name : TaskNames,
             ws : TaskNames, from : TaskNames \cup {None},
             step : {"mkdir", "copy", "repos", "tried", "insert", "setdir", "record",
                     "stop", "forget"},
             repos : SUBSET Repos, made : SUBSET Target,
             failed : SUBSET Target, late : SUBSET Dirs, targets : SUBSET Target,
             there : SUBSET Tasks]
Request  == [op : {"add", "remove"}, task : Tasks, ws : TaskNames, repo : Dirs,
             label : Labels \cup {None}, step : {"clone", "record", "forget", "delete", "drop"},
             target : Target \cup {None}, force : BOOLEAN]
Shared   == [task : Tasks, name : TaskNames, ws : TaskNames]
Ending   == [task : Tasks, step : {"state", "ask", "write"}, heir : Tasks \cup {None},
             there : SUBSET Tasks]
Branch   == [repo : Repos \ JJ, id : Ids, by : Ids]

\* by is history: for which task a copy was made, and a row recorded (None for a
\* guess). So is there: which tasks had a workspace when a flow began, or when
\* the completion looked for somebody who shares its own.
There == {u \in Tasks : task[u].ws # None}

ASSUME NoneAssumption == None \notin Tasks \cup TaskNames \cup Labels \cup Target \cup Flow \cup Request

\* The types of the rows of the database and of what is on disk, the modal's
\* fields and one flow and one request at most.
TypeOK ==
    /\ task \in [Tasks -> Row]
    /\ rows \subseteq RepoRow
    /\ dirs \subseteq TaskNames
    /\ disk \subseteq WorkCopy
    /\ held \subseteq [repo : Repos, id : Ids]
    /\ unmerged \subseteq Branch
    /\ flow = None \/ flow \in Flow
    /\ api = None \/ api \in Request
    /\ forking \subseteq Shared
    /\ ending \subseteq Ending
    /\ pass \subseteq Tasks
    /\ ops \in 0..MaxOps /\ mishaps \in 0..MaxMishaps

Init ==
    /\ task = [t \in Tasks |-> [state |-> "absent", name |-> None, ws |-> None, age |-> 0]]
    /\ rows = {} /\ dirs = {} /\ disk = {} /\ held = {} /\ unmerged = {}
    /\ flow = None /\ api = None /\ forking = {} /\ ending = {} /\ pass = {}
    /\ ops = 0 /\ mishaps = 0

Start  == ops < MaxOps /\ ops' = ops + 1
Mishap == mishaps < MaxMishaps /\ mishaps' = mishaps + 1

--------------------------------------------------------------------------------
(* jj and git.                                                             *)

\* A branch checked out in a worktree is never deleted.
CheckedOut(i) == \E c \in disk : c.real /\ c.repo = i.repo /\ c.id = i.id

Work(i)    == {w \in unmerged : w.repo = i.repo /\ w.id = i.id}
HasWork(i) == Work(i) # {}

\* mutant: any leftover branch may be taken back
FreeAfterCrash(i, label) ==
    IF i.repo \in JJ THEN i \notin held
    ELSE i \in held => label = Initial /\ ~CheckedOut(i)

\* checkVCSNameFree: a branch of the same name is taken back if nothing is lost.
Free(i, label) ==
    IF i.repo \in JJ THEN i \notin held
    ELSE i \in held => label = Initial /\ ~HasWork(i) /\ ~CheckedOut(i)

Usable(ws, name, repo, label) ==
    /\ Validate(Repos, repo, label)
    /\ \A c \in In(ws) : c.dir # DirName(repo, label)
    /\ Free(Ident(repo, VCSName(name, repo, label)), label)

\* ResolveSlotIdentity: the label asked for, or else the first that is free.
Resolve(ws, name, repo, label) ==
    LET tried  == IF label = Initial THEN AutoLabels ELSE <<label>>
        usable == {i \in 1..Len(tried) : Usable(ws, name, repo, tried[i])}
    IN  IF usable = {} THEN None ELSE tried[CHOOSE i \in usable : \A j \in usable : i <= j]

\* git makes the directories above a worktree, jj does not.
Can(ws, repo, label) == label # None /\ (repo \in JJ => ws \in dirs)

\* CloneRepoAs under a free identity; a branch taken back starts anew.
MakeCopy(ws, name, repo, label) ==
    LET id == VCSName(name, repo, label)
    IN  /\ disk' = disk \cup {Copy(ws, DirName(repo, label), repo, id, name, TRUE)}
        /\ held' = held \cup {Ident(repo, id)}
        /\ dirs' = dirs \cup {ws}
        /\ unmerged' = unmerged \ Work(Ident(repo, id))

\* ForkRepo: jj refuses a name that is taken; git deletes a branch of that name
\* unless it is checked out, and starts it where the source is.
Forkable(name, repo) ==
    LET i == Ident(repo, name) IN IF repo \in JJ THEN i \notin held ELSE ~CheckedOut(i)

Fork(from, ws, name, repo) ==
    LET i   == Ident(repo, name)
        src == UNION {Work(Ident(c.repo, c.id)) : c \in {c \in In(from) : c.dir = repo}}
    IN  /\ disk' = disk \cup {Copy(ws, repo, repo, name, name, TRUE)}
        /\ held' = held \cup {i}
        /\ unmerged' = (unmerged \ Work(i)) \cup {[w EXCEPT !.id = name] : w \in src}
        /\ UNCHANGED dirs

\* No worktree is made, but git has already given up the branch of that name.
OnlyDeletes(repo, id) ==
    /\ repo \notin JJ
    /\ held' = held \ {Ident(repo, id)} /\ unmerged' = unmerged \ Work(Ident(repo, id))
    /\ UNCHANGED <<dirs, disk>>

\* ForgetRepo: jj forgets the workspace; git removes the worktree and the
\* branch, which stays when it is checked out elsewhere or holds work. A repo
\* that krang does not manage has nothing to forget.
Forget(ws, x) ==
    LET i     == Ident(x.repo, x.id)
        gone  == {c \in In(ws) : c.real /\ c.dir = x.dir /\ c.repo = x.repo}
        other == {c \in disk \ gone : c.real /\ c.repo = x.repo /\ c.id = x.id}
    IN  /\ disk' = IF x.repo \in Repos \ JJ THEN disk \ gone ELSE disk
        /\ held' = IF x.repo \in JJ \/ (other = {} /\ ~HasWork(i)) THEN held \ {i} ELSE held
        /\ UNCHANGED <<dirs, unmerged>>

\* RemoveAll: the directory goes, its identities do not.
RemoveAll(ws) ==
    /\ dirs' = dirs \ {ws} /\ disk' = disk \ In(ws)
    /\ UNCHANGED <<held, unmerged>>

--------------------------------------------------------------------------------
(* The tables.                                                             *)

Insert(t, n, ws) ==
    /\ task[t].state = "absent"
    /\ task' = [task EXCEPT ![t] = [state |-> "living", name |-> n, ws |-> ws,
                    age |-> Cardinality({u \in Tasks : task[u].state # "absent"})]]

\* Two rows may not share a task and a directory, nor a repo and an identity.
Clashes(R, r) == \E q \in R : (q.task = r.task /\ q.dir = r.dir) \/ (q.repo = r.repo /\ q.id = r.id)

\* RecordSlot for each of new: a row that clashes is left out.
Recorded(R, new) == R \cup {r \in new : ~Clashes(R, r)}

\* mutant: only what is recorded
TargetsRecorded(t) == {[dir |-> r.dir, repo |-> r.repo, id |-> r.id] : r \in RowsOf(t)}

\* What is recorded for a task, and what else is on disk: the directory is taken
\* for a repo and the workspace for its identity (DestroyRepoList).
Guess(ws, dir) == [dir |-> dir, repo |-> dir, id |-> ws]
Targets(t) ==
    LET known == {[dir |-> r.dir, repo |-> r.repo, id |-> r.id] : r \in RowsOf(t)}
    IN  known \cup {Guess(task[t].ws, d) : d \in {c.dir : c \in In(task[t].ws)} \ {x.dir : x \in known}}

\* The repos a workspace holds (PresentRepos).
Holds(t, repo) ==
    \E c \in In(task[t].ws) :
        IF \E r \in RowsOf(t) : r.dir = c.dir THEN \E r \in RowsOf(t) : r.dir = c.dir /\ r.repo = repo
        ELSE ParseSlotDirName(Repos, c.dir).repo = repo

--------------------------------------------------------------------------------
(* The progress modal: creating, extending and forking.                    *)

Begin(kind, t, n, ws, from, step, repos, targets) ==
    flow' = [kind |-> kind, task |-> t, name |-> n, ws |-> ws, from |-> from, step |-> step,
             repos |-> repos, made |-> {}, failed |-> {}, late |-> {}, targets |-> targets, there |-> There]

At(kinds, step) == flow # None /\ flow.kind \in kinds /\ flow.step = step
Goto(step)      == flow' = [flow EXCEPT !.step = step]

\* The wizard: the name was free when it was typed.
BeginCreate(t, n, R) ==
    /\ Start /\ Idle /\ task[t].state = "absent" /\ ~NameInUse(n)
    /\ \A f \in forking : f.task # t
    /\ Begin("create", t, n, n, None, "mkdir", R, {})
    /\ UNCHANGED <<database, outside, api, forking, ending, pass, mishaps>>

\* The edit wizard offers the repos that are not there.
BeginAdd(t, R) ==
    /\ Start /\ Idle /\ Living(t) /\ task[t].ws # None
    /\ R # {} /\ \A r \in R : ~Holds(t, r)
    /\ Begin("add", t, task[t].name, task[t].ws, None, "repos", R, {})
    /\ UNCHANGED <<database, outside, api, forking, ending, pass, mishaps>>

\* A fork takes the directories named like managed repos as repos.
BeginFork(src, t, n) ==
    /\ Start /\ Idle /\ Living(src) /\ task[src].ws # None
    /\ task[t].state = "absent" /\ ~NameInUse(n) /\ \A f \in forking : f.task # t
    /\ Begin("fork", t, n, n, task[src].ws, "mkdir",
             Repos \cap {c.dir : c \in In(task[src].ws)}, {})
    /\ UNCHANGED <<database, outside, api, forking, ending, pass, mishaps>>

\* mutant: a directory that is there will do
MakeDirAnyway ==
    /\ At({"create", "fork"}, "mkdir")
    /\ dirs' = dirs \cup {flow.ws}
    /\ Goto(CASE flow.kind = "fork" -> "copy"
              [] flow.kind = "create" -> IF flow.repos = {} THEN "insert" ELSE "repos")
    /\ UNCHANGED <<database, disk, held, unmerged, api, forking, ending, pass, mishaps, ops>>

\* CreateWorkspaceDir refuses a directory that exists.
MakeDir ==
    /\ At({"create", "fork"}, "mkdir")
    /\ IF flow.ws \in dirs THEN flow' = None /\ UNCHANGED dirs
       ELSE /\ dirs' = dirs \cup {flow.ws}
            /\ Goto(CASE flow.kind = "fork" -> "copy"
                      [] flow.kind = "create" -> IF flow.repos = {} THEN "insert" ELSE "repos")
    /\ UNCHANGED <<database, disk, held, unmerged, api, forking, ending, pass, mishaps, ops>>

\* CopyNonRepoItems: slots are copied like any other directory.
CopyOthers ==
    /\ At({"fork"}, "copy")
    /\ disk' = disk \cup {Copy(flow.ws, c.dir, c.repo, c.id, c.by, FALSE) :
                              c \in {c \in In(flow.from) : c.dir \notin flow.repos}}
    /\ Goto(IF flow.repos = {} THEN "insert" ELSE "repos")
    /\ UNCHANGED <<database, dirs, held, unmerged, api, forking, ending, pass, mishaps, ops>>

\* mutant: recorded under the name of the workspace
MadeByWorkspace(repo, label) ==
    [dir |-> DirName(repo, label), repo |-> repo, id |-> VCSName(flow.ws, repo, label)]

Made(repo, label) ==
    [dir |-> DirName(repo, label), repo |-> repo, id |-> VCSName(flow.name, repo, label)]

\* A copy is at hand, or none: it is recorded at once for a task that exists.
Tried(r, made, step) == flow' = [flow EXCEPT !.repos = @ \ {r}, !.made = @ \cup made, !.step = step]

\* CreateSlot makes a copy of the next repo.
CloneRepo(r) ==
    /\ At({"create", "add"}, "repos") /\ r \in flow.repos
    /\ LET label == Resolve(flow.ws, flow.name, r, Initial)
       IN  /\ Can(flow.ws, r, label)
           /\ MakeCopy(flow.ws, flow.name, r, label)
           /\ Tried(r, {Made(r, label)}, IF flow.kind = "add" THEN "record" ELSE "tried")
    /\ UNCHANGED <<database, api, forking, ending, pass, mishaps, ops>>

\* No identity is free, or the command fails.
CloneFails(r) ==
    /\ At({"create", "add"}, "repos") /\ r \in flow.repos
    /\ LET label == Resolve(flow.ws, flow.name, r, Initial)
       IN  \/ /\ Can(flow.ws, r, label) /\ Mishap
              /\ UNCHANGED outside \/ OnlyDeletes(r, VCSName(flow.name, r, label))
           \/ ~Can(flow.ws, r, label) /\ UNCHANGED <<outside, mishaps>>
    /\ Tried(r, {}, "tried")
    /\ UNCHANGED <<database, api, forking, ending, pass, ops>>

\* A fork that fails when its copy is there (jj edit, the files that are not
\* committed) leaves it, and no more is made of it than of one that does not.
ForkRepo(r) ==
    /\ At({"fork"}, "repos") /\ r \in flow.repos
    /\ Forkable(flow.name, r) /\ Fork(flow.from, flow.ws, flow.name, r)
    /\ Tried(r, {}, "tried")
    /\ UNCHANGED <<database, api, forking, ending, pass, mishaps, ops>>

ForkFails(r) ==
    /\ At({"fork"}, "repos") /\ r \in flow.repos
    /\ \/ /\ Forkable(flow.name, r) /\ Mishap
          /\ UNCHANGED outside \/ OnlyDeletes(r, flow.name)
       \/ ~Forkable(flow.name, r) /\ UNCHANGED <<outside, mishaps>>
    /\ Tried(r, {}, "tried")
    /\ UNCHANGED <<database, api, forking, ending, pass, ops>>

\* On to the next repo, or to the launch; a creation without any copy ends.
Proceed ==
    /\ At({"create", "add", "fork"}, "tried")
    /\ CASE flow.repos # {} -> Goto("repos") /\ UNCHANGED outside
         [] flow.repos = {} /\ flow.kind = "add" -> flow' = None /\ UNCHANGED outside
         [] flow.repos = {} /\ flow.kind = "create" /\ flow.made = {} ->
                flow' = None /\ RemoveAll(flow.ws)
         [] OTHER -> Goto("insert") /\ UNCHANGED outside
    /\ UNCHANGED <<database, api, forking, ending, pass, mishaps, ops>>

\* A cancelled flow ends when a repo has been tried: an addition keeps what it
\* has, the others remove the directory.
Cancel ==
    /\ At({"create", "fork", "add"}, "tried")
    /\ flow' = None
    /\ IF flow.kind = "add" THEN UNCHANGED outside ELSE RemoveAll(flow.ws)
    /\ UNCHANGED <<database, api, forking, ending, pass, mishaps, ops>>

\* CreateTask or ForkTask: only the latter inserts a row with its workspace.
InsertTask ==
    /\ At({"create", "fork"}, "insert")
    /\ Insert(flow.task, flow.name, IF flow.kind = "fork" THEN flow.ws ELSE None)
    /\ IF flow.kind = "fork" THEN flow' = None ELSE Goto("setdir")
    /\ UNCHANGED <<rows, outside, api, forking, ending, pass, mishaps, ops>>

SetDir ==
    /\ At({"create"}, "setdir")
    /\ task' = [task EXCEPT ![flow.task].ws = flow.ws]
    /\ IF flow.made = {} THEN flow' = None ELSE Goto("record")
    /\ UNCHANGED <<rows, outside, api, forking, ending, pass, mishaps, ops>>

RecordSlot(x) ==
    /\ At({"create", "add"}, "record") /\ x \in flow.made
    /\ \/ rows' = Recorded(rows, {Record(flow.task, x.dir, x.repo, x.id, flow.name)}) /\ UNCHANGED mishaps
       \/ UNCHANGED rows /\ Mishap
    /\ CASE flow.kind = "add" -> flow' = [flow EXCEPT !.made = {}, !.step = "tried"]
         [] flow.kind = "create" /\ flow.made # {x} -> flow' = [flow EXCEPT !.made = @ \ {x}]
         [] OTHER -> flow' = None
    /\ UNCHANGED <<task, outside, api, forking, ending, pass, ops>>

\* The launch fails: the modal says so, and what was made stays.
LaunchFails ==
    /\ At({"create", "fork"}, "insert") \/ At({"create"}, "setdir")
    /\ Mishap /\ flow' = None
    /\ UNCHANGED <<database, outside, api, forking, ending, pass, ops>>

--------------------------------------------------------------------------------
(* A shared fork: the name is asked for, a goroutine inserts the row.      *)

BeginShared(src, t, n) ==
    /\ Start /\ Idle /\ Living(src) /\ task[src].ws # None
    /\ task[t].state = "absent" /\ ~NameInUse(n) /\ forking = {}
    /\ forking' = {[task |-> t, name |-> n, ws |-> task[src].ws]}
    /\ UNCHANGED <<database, outside, flow, api, ending, pass, mishaps>>

InsertShared(f) ==
    /\ f \in forking /\ forking' = forking \ {f}
    /\ Insert(f.task, f.name, f.ws)
    /\ UNCHANGED <<rows, outside, flow, api, ending, pass, mishaps, ops>>

--------------------------------------------------------------------------------
(* Completion.                                                             *)

\* mutant: sharers are not looked for
ConfirmAnyway(t) ==
    /\ Start /\ flow = None /\ Living(t) /\ \A e \in ending : e.task # t
    /\ ending' = ending \cup {[task |-> t, step |-> "state", heir |-> None, there |-> {}]}
    /\ IF task[t].ws = None THEN UNCHANGED flow
       ELSE Begin("complete", t, task[t].name, task[t].ws, None, "stop", {}, Targets(t))
    /\ UNCHANGED <<database, outside, api, forking, pass, mishaps>>

\* "y": a workspace that nobody shares is torn down, its copies listed first.
Confirm(t) ==
    /\ Start /\ flow = None /\ Living(t) /\ \A e \in ending : e.task # t
    /\ ending' = ending \cup {[task |-> t, step |-> "state", heir |-> None, there |-> {}]}
    /\ IF task[t].ws = None \/ Sharers(task[t].ws, t) # {} THEN UNCHANGED flow
       ELSE Begin("complete", t, task[t].name, task[t].ws, None, "stop", {}, Targets(t))
    /\ UNCHANGED <<database, outside, api, forking, pass, mishaps>>

Advance(e, e2) == ending' = (ending \ {e}) \cup {e2}

SetCompleted(e) ==
    /\ e \in ending /\ e.step = "state"
    /\ task' = [task EXCEPT ![e.task].state = "completed"]
    /\ Advance(e, [e EXCEPT !.step = "ask"])
    /\ UNCHANGED <<rows, outside, flow, api, forking, pass, mishaps, ops>>

\* Claude cannot be stopped: the task lives on, a modal ends with an error.
CompleteFails(e) ==
    /\ e \in ending /\ e.step = "state" /\ Mishap
    /\ ending' = ending \ {e}
    /\ flow' = IF At({"complete"}, "stop") /\ flow.task = e.task THEN None ELSE flow
    /\ UNCHANGED <<database, outside, api, forking, pass, ops>>

\* mutant: the rows go with the task, whoever shares the workspace
AskNobody(e) ==
    /\ e \in ending /\ e.step = "ask"
    /\ Advance(e, [e EXCEPT !.step = "write", !.there = There])
    /\ UNCHANGED <<database, outside, flow, api, forking, pass, mishaps, ops>>

\* releaseWorkspaceRepos: the oldest task that shares the workspace, if any ...
AskHeir(e) ==
    /\ e \in ending /\ e.step = "ask"
    /\ LET S == Sharers(task[e.task].ws, e.task)
           h == IF S = {} THEN None
                ELSE CHOOSE u \in S : \A v \in S : task[u].age <= task[v].age
       IN  Advance(e, [e EXCEPT !.step = "write", !.heir = h, !.there = There])
    /\ UNCHANGED <<database, outside, flow, api, forking, pass, mishaps, ops>>

\* ... inherits the rows, but for directories it has rows of; or they go.
Release(e) ==
    /\ e \in ending /\ e.step = "write"
    /\ ending' = ending \ {e}
    /\ LET rest == rows \ RowsOf(e.task)
       IN  rows' = IF e.heir = None THEN rest
                   ELSE rest \cup {[r EXCEPT !.task = e.heir] :
                            r \in {r \in RowsOf(e.task) : \A q \in RowsOf(e.heir) : q.dir # r.dir}}
    /\ IF At({"complete"}, "stop") /\ flow.task = e.task THEN Goto("forget") ELSE UNCHANGED flow
    /\ UNCHANGED <<task, outside, api, forking, pass, mishaps, ops>>

\* What could not be forgotten is shown, and done without.
ForgetNext(x) ==
    /\ At({"complete"}, "forget") /\ x \in flow.targets \ (flow.made \cup flow.failed)
    /\ \/ Forget(flow.ws, x) /\ flow' = [flow EXCEPT !.made = @ \cup {x}] /\ UNCHANGED mishaps
       \/ flow' = [flow EXCEPT !.failed = @ \cup {x}] /\ Mishap /\ UNCHANGED outside
    /\ UNCHANGED <<database, api, forking, ending, pass, ops>>

RemoveDir ==
    /\ At({"complete"}, "forget") /\ flow.targets = flow.made \cup flow.failed
    /\ flow' = None /\ RemoveAll(flow.ws)
    /\ UNCHANGED <<database, api, forking, ending, pass, mishaps, ops>>

--------------------------------------------------------------------------------
(* An agent's request (workspaceAddOp, workspaceRemoveSlotOp).             *)

Requests(op, t, repo, label, step, target, force) ==
    api' = [op |-> op, task |-> t, ws |-> task[t].ws, repo |-> repo, label |-> label,
            step |-> step, target |-> target, force |-> force]

\* Shared workspaces are refused, and a second copy must be labelled.
AddSlot(t, repo, label) ==
    /\ Start /\ Idle /\ Living(t) /\ task[t].ws # None /\ Sharers(task[t].ws, t) = {}
    /\ label = Initial => ~Holds(t, repo)
    /\ Requests("add", t, repo, label, "clone", None, FALSE)
    /\ UNCHANGED <<database, outside, flow, forking, ending, pass, mishaps>>

\* (late is history: what was made in a workspace that is being torn down.)
CloneSlot ==
    /\ api # None /\ api.step = "clone"
    /\ LET name == task[api.task].name
           l    == Resolve(api.ws, name, api.repo, api.label)
           x    == [dir |-> DirName(api.repo, l), repo |-> api.repo, id |-> VCSName(name, api.repo, l)]
       IN  \/ /\ Can(api.ws, api.repo, l) /\ MakeCopy(api.ws, name, api.repo, l)
              /\ api' = [api EXCEPT !.step = "record", !.target = x]
              /\ flow' = IF flow # None /\ flow.kind = "complete" /\ flow.ws = api.ws
                         THEN [flow EXCEPT !.late = @ \cup {x.dir}] ELSE flow
              /\ UNCHANGED mishaps
           \/ /\ Can(api.ws, api.repo, l) /\ Mishap /\ api' = None /\ UNCHANGED flow
              /\ UNCHANGED outside \/ OnlyDeletes(api.repo, x.id)
           \/ ~Can(api.ws, api.repo, l) /\ api' = None /\ UNCHANGED <<outside, flow, mishaps>>
    /\ UNCHANGED <<database, forking, ending, pass, ops>>

RecordAdded ==
    /\ api # None /\ api.step = "record" /\ api' = None
    /\ LET x == api.target
       IN  \/ rows' = Recorded(rows, {Record(api.task, x.dir, x.repo, x.id, task[api.task].name)}) /\ UNCHANGED mishaps
           \/ UNCHANGED rows /\ Mishap
    /\ UNCHANGED <<task, outside, flow, forking, ending, pass, ops>>

\* The slots of a workspace: its rows, and what the directory names say.
Slots(t) ==
    LET known == {[dir |-> r.dir, repo |-> r.repo, id |-> r.id] : r \in RowsOf(t)}
    IN  known \cup {LET s == ParseSlotDirName(Repos, d)
                    IN  [dir |-> d, repo |-> s.repo, id |-> VCSName(task[t].ws, s.repo, s.label)] :
                       d \in {c.dir : c \in In(task[t].ws)} \ {x.dir : x \in known}}

\* Work in a git slot stops a removal, and so does a missing directory, unless
\* it is forced.
RemoveSlot(t, x, force) ==
    /\ Start /\ Idle /\ Living(t) /\ task[t].ws # None /\ x \in Slots(t)
    /\ force \/ \E c \in In(task[t].ws) : c.dir = x.dir
                    /\ (x.repo \in Repos \ JJ => ~HasWork(Ident(c.repo, c.id)))
    /\ Requests("remove", t, x.repo, None, "forget", x, force)
    /\ UNCHANGED <<database, outside, flow, forking, ending, pass, mishaps>>

Gone == api' = [api EXCEPT !.step = "delete"]

\* A removal ends where the VCS fails, as jj does for a name it does not know,
\* but a forced one goes on.
ForgetSlot ==
    /\ api # None /\ api.step = "forget"
    /\ LET ok == api.repo \in JJ => Ident(api.repo, api.target.id) \in held
       IN  \/ ok /\ Forget(api.ws, api.target) /\ Gone /\ UNCHANGED mishaps
           \/ /\ IF ok THEN Mishap ELSE UNCHANGED mishaps
              /\ IF api.force THEN Gone ELSE api' = None
              /\ UNCHANGED outside
    /\ UNCHANGED <<database, flow, forking, ending, pass, ops>>

DeleteSlot ==
    /\ api # None /\ api.step = "delete"
    /\ disk' = disk \ {c \in In(api.ws) : c.dir = api.target.dir}
    /\ api' = [api EXCEPT !.step = "drop"]
    /\ UNCHANGED <<database, dirs, held, unmerged, flow, forking, ending, pass, mishaps, ops>>

DropRow ==
    /\ api # None /\ api.step = "drop" /\ api' = None
    /\ rows' = {r \in rows : ~(r.task = api.task /\ r.dir = api.target.dir)}
    /\ UNCHANGED <<task, outside, flow, forking, ending, pass, mishaps, ops>>

--------------------------------------------------------------------------------
(* The reconciler, Claudes, and the end of krang.                          *)

\* The tasks whose workspace bears their name, as listed now.
BeginPass ==
    /\ pass = {}
    /\ pass' = {t \in Tasks : Living(t) /\ task[t].ws # None /\ task[t].name = task[t].ws}
    /\ pass' # {}
    /\ UNCHANGED <<database, outside, flow, api, forking, ending, mishaps, ops>>

\* A workspace without any row gets the guessed ones.
Backfill(t) ==
    /\ t \in pass /\ pass' = pass \ {t}
    /\ rows' = IF RowsOf(t) # {} THEN rows
               ELSE Recorded(rows, {Record(t, c.dir, c.dir, task[t].ws, None) : c \in In(task[t].ws)})
    /\ UNCHANGED <<task, outside, flow, api, forking, ending, mishaps, ops>>

\* A window is lost with nothing to resume; the rows stay.
Fail(t) ==
    /\ Living(t) /\ Mishap
    /\ task' = [task EXCEPT ![t].state = "failed"]
    /\ UNCHANGED <<rows, outside, krang, ops>>

\* A task's Claude commits, or somebody on behalf of a task that was.
Commit(c) ==
    /\ c \in disk /\ c.real /\ c.repo \notin JJ /\ Ident(c.repo, c.id) \in held
    /\ \E t \in Tasks : task[t].state # "absent" /\ task[t].ws = c.ws
    /\ unmerged' = unmerged \cup {[repo |-> c.repo, id |-> c.id, by |-> c.id]}
    /\ UNCHANGED <<database, dirs, disk, held, krang, mishaps, ops>>

Merge(w) ==
    /\ w \in unmerged /\ unmerged' = {v \in unmerged : v.repo # w.repo \/ v.by # w.by}
    /\ UNCHANGED <<database, dirs, disk, held, krang, mishaps, ops>>

\* krang is killed and started again.
Crash ==
    /\ Mishap
    /\ flow' = None /\ api' = None /\ forking' = {} /\ ending' = {} /\ pass' = {}
    /\ UNCHANGED <<database, outside, ops>>

Next ==
    \/ \E t \in Tasks, n \in TaskNames, R \in SUBSET Repos : BeginCreate(t, n, R)
    \/ \E t \in Tasks, R \in SUBSET Repos : BeginAdd(t, R)
    \/ \E src, t \in Tasks, n \in TaskNames : BeginFork(src, t, n) \/ BeginShared(src, t, n)
    \/ MakeDir \/ CopyOthers
    \/ \E r \in Repos : CloneRepo(r) \/ CloneFails(r) \/ ForkRepo(r) \/ ForkFails(r)
    \/ Proceed \/ Cancel \/ InsertTask \/ SetDir
    \/ flow # None /\ \E x \in flow.made : RecordSlot(x)
    \/ LaunchFails
    \/ \E f \in forking : InsertShared(f)
    \/ \E t \in Tasks : Confirm(t)
    \/ \E e \in ending : SetCompleted(e) \/ CompleteFails(e) \/ AskHeir(e) \/ Release(e)
    \/ flow # None /\ \E x \in flow.targets : ForgetNext(x)
    \/ RemoveDir
    \/ \E t \in Tasks, r \in Repos, l \in AgentLabels \cup {Initial} : AddSlot(t, r, l)
    \/ CloneSlot \/ RecordAdded
    \/ \E t \in Tasks : \E x \in Slots(t), force \in BOOLEAN : RemoveSlot(t, x, force)
    \/ ForgetSlot \/ DeleteSlot \/ DropRow
    \/ BeginPass \/ \E t \in Tasks : Backfill(t) \/ Fail(t)
    \/ \E c \in disk : Commit(c)
    \/ \E w \in unmerged : Merge(w)
    \/ Crash

Spec == Init /\ [][Next]_vars

--------------------------------------------------------------------------------
(* Properties.                                                             *)

I(c) == Ident(c.repo, c.id)

\* Commits that are merged nowhere stay on some branch, whatever is created,
\* forked, removed or completed (slot.go:364 "cleanup goes out of its way to keep
\* unpushed work, so creation must not throw it away").
Commits == {[repo |-> w.repo, by |-> w.by] : w \in unmerged}
Keeping == disk' # disk \/ held' # held => Commits \subseteq Commits'
WorkKept == [][Keeping]_vars

\* Only a fork loses any: it deletes a branch that bears its name.
OnlyForksLoseWork == [][~At({"fork"}, "repos") => Keeping]_vars

\* A row of a living task tells the truth about the copy in its directory, unless
\* that was made for another task, and somebody has shared the workspace; and the
\* guess of a reconcile pass is what DeriveProvenance says.
Shares(ws) == \E u \in Tasks : task[u].ws = ws /\ task[u].name # ws
RowsTellTruth ==
    \A r \in rows, c \in disk :
        c.real /\ Living(r.task) /\ task[r.task].ws = c.ws /\ r.dir = c.dir
        => IF r.by = None THEN r.repo = r.dir /\ r.id = c.ws
           ELSE r.repo = c.repo /\ (r.id = c.id \/ (r.by # c.by /\ Shares(c.ws)))

\* A row has a name once it is there, and no workspace before.
TasksKnown == \A t \in Tasks : /\ task[t].name = None <=> task[t].state = "absent"
                               /\ task[t].state = "absent" => task[t].ws = None

\* n is the name of a task of the workspace ws, or of the one it is made for.
NamedIn(ws, n) == \E u \in Tasks : task[u].ws = ws /\ task[u].name = n
MadeFor(ws, n) == n = ws \/ NamedIn(ws, n)

\* A directory and an identity are those of a copy of the repo for a task.
Shaped(x, n) == \E l \in Labels : /\ Validate(Repos, x.repo, l) /\ x.repo \in Repos
                                  /\ x.dir = DirName(x.repo, l) /\ x.id = VCSName(n, x.repo, l)
DiskShaped == \A c \in disk : Shaped(c, c.by) /\ (c.real => MadeFor(c.ws, c.by))
RowsShaped == \A r \in rows : LET ws == task[r.task].ws IN
                 /\ ws # None
                 /\ IF r.by = None THEN r.repo = r.dir /\ r.id = ws
                    ELSE Shaped(r, r.by) /\ NamedIn(ws, r.by)

\* Work is on branches that are there.
WorkHeld == \A w \in unmerged : Ident(w.repo, w.id) \in held

\* A flow and a request know their task; one whose workspace is still to be set
\* is not completed meanwhile.
Settled(f) == task[f.task].ws = f.ws /\ task[f.task].name = f.name
FlowKnown == flow # None =>
    /\ flow.there \subseteq There
    /\ flow.kind \in {"create", "fork"} => flow.name = flow.ws /\ flow.step \notin {"stop", "forget"}
    /\ flow.kind = "fork" => flow.step \notin {"setdir", "record"}
    /\ flow.step = "setdir" => /\ task[flow.task].ws = None /\ task[flow.task].name = flow.name
                               /\ \A e \in ending : e.task # flow.task
    /\ flow.kind \in {"add", "complete"} \/ flow.step = "record" => Settled(flow)
    /\ flow.kind = "add" => flow.step \in {"repos", "tried", "record"}
    /\ flow.kind \in {"create", "add"} => \A x \in flow.made : Shaped(x, flow.name)

\* A completion has found nobody else in its workspace, and knows all that is in
\* it or made late; of what it has forgotten nothing is left, but where the
\* agent's request has taken the identity for another copy.
Undone(x, c) == c.real /\ c.ws = flow.ws /\ c.dir = x.dir /\ c.dir \notin flow.late /\ I(c) = Ident(x.repo, x.id)
Retaken(c)   == (api = None \/ api.op = "add") /\ \E d \in disk \ {c} : d.real /\ I(d) = I(c)
CompletionSafe == flow # None /\ flow.kind = "complete" =>
    /\ flow.step \in {"stop", "forget"}
    /\ \A u \in flow.there \ {flow.task} : Living(u) => task[u].ws # flow.ws
    /\ \A c \in In(flow.ws) : c.dir \in flow.late \cup {x.dir : x \in flow.targets}
    /\ IF flow.step = "stop" THEN flow.made = {} /\ flow.failed = {}
       ELSE task[flow.task].state = "completed"
    /\ \A x \in flow.made, c \in disk : Undone(x, c) => c.repo \in JJ /\ (I(c) \in held => Retaken(c))

RequestKnown == api # None =>
    /\ flow = None \/ flow.kind = "complete"
    /\ task[api.task].ws = api.ws /\ task[api.task].name # None
    /\ IF api.op = "add"
         THEN /\ api.step \in {"clone", "record"} /\ api.repo \in Repos /\ api.label \in Labels
              /\ api.step = "record" => api.target # None /\ Shaped(api.target, task[api.task].name)
         ELSE /\ api.step \in {"forget", "delete", "drop"} /\ api.target # None /\ api.target.repo = api.repo
              /\ api.step = "delete" /\ ~api.force =>
                    \A c \in In(api.ws) : c.real /\ c.dir = api.target.dir /\ I(c) = Ident(api.repo, api.target.id)
                                            => c.repo \in JJ /\ I(c) \notin held
              /\ api.step = "drop" => \A c \in In(api.ws) : c.dir # api.target.dir

\* Who has completed stays so, and has looked for all who were there.
EndingKnown == \A e \in ending :
    /\ e.there \subseteq There
    /\ e.heir # e.task
    /\ task[e.task].state # "absent"
    /\ e.step # "state" => task[e.task].state = "completed"
    /\ e.step = "write" /\ e.heir = None =>
          \A u \in e.there : Living(u) /\ task[u].ws # None => task[u].ws # task[e.task].ws
    /\ e.step = "write" /\ e.heir # None => task[e.heir].ws = task[e.task].ws /\ task[e.heir].ws # None
PassKnown == \A t \in pass : task[t].ws # None

Known == /\ TasksKnown /\ DiskShaped /\ RowsShaped /\ WorkHeld
         /\ FlowKnown /\ CompletionSafe /\ RequestKnown /\ EndingKnown /\ PassKnown

\* A working copy is in a workspace that is there, and alone in its directory.
Housed        == \A c \in disk : c.ws \in dirs
OneCopyPerDir == \A c, d \in disk : c.ws = d.ws /\ c.dir = d.dir => c = d

\* A worktree of git has its branch, and no other worktree has checked it out: what
\* is forgotten, taken back or forked is never the branch of a copy in use.
WorktreesApart == \A c \in disk : c.real /\ c.repo \notin JJ =>
    I(c) \in held /\ \A d \in disk : d.real /\ I(d) = I(c) => d = c

\* A fork copies into a directory that nobody else has filled, and forks no repo
\* into a place that is taken.
ForkPrepared == flow # None /\ flow.kind = "fork" =>
    /\ flow.step \in {"copy", "repos", "tried"} => flow.ws \in dirs
    /\ flow.step = "copy" => In(flow.ws) = {}
    /\ flow.step \in {"repos", "tried"} => \A c \in In(flow.ws) : c.dir \notin flow.repos

OnDisk == Housed /\ OneCopyPerDir /\ WorktreesApart /\ ForkPrepared

\* All of this has its type, rows may be believed, and so may what krang knows
\* of the steps it is in the middle of; and working copies do not get mixed up.
Consistent == TypeOK /\ RowsTellTruth /\ Known
Inv == Consistent /\ OnDisk

\* A working copy does not go without its identity (a branch with work may stay,
\* and an identity another copy has taken), unless its making is cancelled, an
\* agent had it made while the completion was at work, the VCS fails, or krang
\* takes the directory for a copy of another identity.
Unforgotten(c) ==
    \/ At({"create", "fork"}, "tried")
    \/ At({"complete"}, "forget") /\
         \/ c.dir \in flow.late
         \/ \E x \in flow.targets : x.dir = c.dir /\ (x \in flow.failed \/ Ident(x.repo, x.id) # I(c))
    \/ api # None /\ api.target # None /\
         \/ api.step = "delete" /\ api.force
         \/ Ident(api.target.repo, api.target.id) # I(c)
IdentityGoesWithCopy ==
    [][\A c \in disk \ disk' :
          /\ c.real /\ I(c) \in held' /\ ~HasWork(I(c))
          /\ \A d \in disk \ {c} : d.real => I(d) # I(c)
          => Unforgotten(c)]_vars

\* The row of a copy in a workspace that somebody still uses is not dropped,
\* unless a task of that workspace has a row of the directory, if only a guessed
\* one, or that user came when the completion had looked for somebody like it.
RowsSurvive ==
    [][\A r \in rows, c \in disk \cap disk', t \in Tasks :
          /\ c.real /\ c.repo = r.repo /\ c.id = r.id /\ c.dir = r.dir /\ c.ws = task[r.task].ws
          /\ \A q \in rows' : q.repo # r.repo \/ q.id # r.id
          /\ Living(t) /\ task[t].ws = c.ws
          => \/ \E e \in ending \ ending' : e.step = "write" /\ e.task = r.task /\ t \notin e.there
             \/ \E q \in rows' : q.dir = r.dir /\ task[q.task].ws = c.ws]_vars

\* The directory of a living task is not removed, but by a flow that had made it
\* and is cancelled, unless the task is a shared fork whose row was inserted when
\* the completion had begun.
DirKept ==
    [][\A t \in Tasks :
          Living(t) /\ task[t].ws \in dirs \ dirs'
          => At({"create", "fork"}, "tried") \/ t \notin flow.there]_vars

\* Directory names of slots lead back to their repo and label (ParsesBack), and
\* VCS names meet only where a task is named like a slot (NamesCollide), for repos
\* and tasks whose names hold the separator too. This says nothing of the state:
\* one is enough.
OneWord  == {<<v>> : v \in Words}
TwoWords == Words \X Words
SlotNamesHold ==
    ops = 0 => LET names  == OneWord \cup TwoWords
                   labels == OneWord \cup {Initial}
               IN  /\ \A p, q, r \in names : ParsesBack({p, q, r}, labels)
                   /\ \A r \in names : NamesCollide(names, {r}, labels)

\* Directories are used as WorkspaceDirectory says.
Using(t, n) == task[t].state \in {"living", "failed"} /\ task[t].ws = n
Building(n) == /\ flow # None /\ flow.kind \in {"create", "fork"} /\ flow.ws = n
               /\ flow.step \notin {"mkdir", "record"}
InUse(n)    == (\E t \in Tasks : Using(t, n)) \/ (flow # None /\ flow.kind = "complete" /\ flow.ws = n)
use == [n \in TaskNames |-> IF n \notin dirs THEN "free" ELSE IF Building(n) THEN "building"
                            ELSE IF InUse(n) THEN "used" ELSE "left"]
Directory == INSTANCE WorkspaceDirectory WITH Names <- TaskNames
DirectoriesKeptApart == Directory!Spec
================================================================================
