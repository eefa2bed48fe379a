# krang in TLA+

krang is a terminal program that runs many Claude Code sessions as *tasks*. A
task is a row in SQLite, a tmux window with a Claude in it, and often a
workspace directory with jj or git working copies. A Bubble Tea model draws the
list and reacts to keys; an HTTP server in the same process takes hook events
from every Claude and workspace requests from the agents in the tasks.

Nearly everything that changes state runs in a goroutine (a `tea.Cmd`) that the
Update loop has started, so almost any two operations may overlap. The modules
here say what holds nevertheless, where it stops holding, and prove every safety
property of a run for any number of tasks, windows, goroutines and requests.

## 1. The system

| Component (source) | State | Operations |
|---|---|---|
| Workspace request pipeline (`hooks/workspace.go`, `tui/workspacereq.go`) | handlers, channel of 16, queue, the in-flight slot, reply channels, deadlines | submit, receive, deliver, start, finish, report, time out |
| Workspace API executors (`tui/workspaceapi.go`) | directories and `workspace_repos` rows | add, remove_slot, list, repos |
| Workspace client (`workspaceclient/`, `cmd/workspace.go`) | none | one HTTP call, an exit code |
| Task lifecycle (`task/manager.go`) | a row per task, tmux windows in the active and the parked session | create, fork, import, park, unpark, dormify ("freeze"), wake ("thaw"), relaunch, complete |
| Reconciler (`task/reconcile.go`) | the same | a pass at startup and every 10 seconds |
| Hook events and attention (`tui/model.go`, `hooks/handler.go`, `classify/`) | attention column, pending permissions, generation counters | event, classification result |
| Session adoption and forks (`tui/model.go`) | session ids, contested sessions | adopt, route by cwd |
| Slots and provenance (`workspace/slot.go`, `task/slots.go`, `db/workspacerepos.go`) | working copies, jj workspaces and git branches, rows | create, record, derive, reassign, forget |
| Wizard and repo picker (`tui/wizard.go`, `tui/repopicker.go`, `tui/forms.go`, `github/`, `workspace/reposets.go`) | tabs, ticks, filter, remote search and clone | the keys of the form; debounce, search, clone |
| Workspace VCS operations (`workspace/workspace.go`) | repositories | clone, fork, forget, destroy |
| TUI flows and keys (`tui/model.go`) | mode, progress flow, cursor | the create, add-repos, fork and complete flows |
| Startup and quit (`cmd/root.go`, `hooks/server.go`) | state file, sessions | instance check, serve, stop, clean up |
| Summaries, sit rep, process tree, usage | text for the list | timers |
| View, themes, setup, configuration | layout, files | sequential |

How they meet:

* agents call the HTTP server; its handler sends a request into a channel and
  waits; a self-re-arming command receives from it; Update queues or starts it;
  a goroutine works and answers on the request's reply channel;
* keys start task operations and flows from Update; every one of them runs in a
  goroutine, reads the row it is about, and writes single columns;
* hook events go from the server through a channel of 64 into Update, which
  starts a goroutine for each that writes the attention;
* the reconciler, the summaries and the process collector are timers.

What is hard, and so what the properties are about (`hazards` in `PROJECT.json`
has each with its line): reads of a row long before it is used; two writes that
belong together and are not a transaction; deadlines that pass while the work
goes on; a modal dialog that holds the whole process up; SQLite without a busy
timeout; windows that close by themselves; krang killed between two steps.

What makes each component correct:

* requests: one workspace mutation at a time, in order, and an answer that is
  true when it is given and stays true, also after a timeout;
* tasks: the row says where the window is; every live window belongs to a row;
  a finished task stays finished; nothing that can be resumed is lost;
* attention: what is shown is what the newest event says;
* sessions: an event reaches the task whose Claude sent it, a session has one
  task, and a transcript stays where it can be resumed;
* slots: a row tells the truth about the copy in its directory, a jj workspace or
  git branch krang made goes with its copy, work is never thrown away, and no
  two tasks get one directory by accident;
* the wizard: every visible field can be typed into, Esc leads out, what is
  ticked is what is cloned, and answers do not go back in time.

## 2. Modules and plan

| Module | Content | State |
|---|---|---|
| `WorkspaceRequests` | the request pipeline, the flows of the keyboard, deadlines, quit, crash | checked, proved |
| `SerialMutator` | what an agent is promised; `WorkspaceRequests` implements it | checked, proved |
| `TaskLifecycle` | rows and windows under overlapping operations of `task.Manager` | checked, proved |
| `TaskStates` | the states of a task, and what each change of state needs; `TaskLifecycle` implements it | checked, proved |
| `HookAttention` | hook events, their asynchronous writes, classification, pending permissions, the hook channel at quit | checked, proved |
| `SessionForks` | routing of events, adoption, contested sessions, copied transcripts | checked, proved |
| `WorkspaceSlots` | working copies, VCS identities and provenance rows through create, add, fork, share, complete, remove, backfill, crash | checked, proved |
| `WorkspaceDirectory` | what becomes of the directory of a name; `WorkspaceSlots` implements it | checked, proved |
| `SlotNames` | directory and VCS names of slots as pure operators | checked, proved |
| `TaskWizard` | the wizard, the repo picker, remote searches and clones | checked, proved |
| `WorkspaceRequestsProofs`, `TaskLifecycleProofs`, `HookAttentionProofs`, `SessionForksProofs`, `WorkspaceSlotsProofs`, `SlotNamesProofs`, `TaskWizardProofs` | theorems about each of them | proved |
| `LeastNumber` | a set of numbers has a least one; for the proofs about the first of a list | proved |
| `MC...` | instances for the runs | |

The order followed what a user loses when it is wrong: first an agent told that
nothing happened when something did, then a Claude that nobody can reach, then a
wrong colour in the list, a transcript or a branch lost, last a form that does
not answer.

Left to do: the parts of section 6 that decide some state (the instance check,
companion windows, the `single_repo` strategy), and what can be proved of them.

### WorkspaceRequests and the code

| State | Code |
|---|---|
| `handler`, `caller`, `expired` | `submitWorkspaceRequest` of one HTTP call: before the send, waiting, returned; what it answered; whether its deadline passed |
| `channel`, `pump` | `workspaceRequests`, and the request `waitForWorkspaceRequest` has taken and Update has not seen |
| `queue`, `inflight` | `Model.workspaceQueue`, `Model.workspaceRequest` |
| `work`, `effect`, `reply` | the goroutine of `runWorkspaceRequest`; whether it has changed anything yet, or all of it; its reply channel |
| `mode`, `progress` | `Model.mode` (modes that do not count as busy are `"Normal"`) and `Model.wsProgress` |
| `krang` | running; Update loop ended (`Quit`); `Server.Stop` returned (`Exit`); killed (`Crash`) |

Update ends every message with `startNextWorkspaceRequest`, so `Settle`, the
drain of the queue, is part of each of its actions and never an action of its
own. The model assumes that `krang.yaml` sets a workspace strategy; without one
there is nothing to serialise. `Outcomes` has the answers of the executors: all of
them refuse before they touch anything, except that `operation_failed` with
`applied: "no"` also stands for an add that failed half way (section 5). The
promise therefore tells the two apart. `SerialMutator` knows only the mutation at
work, what each has changed and what its caller believes: that it was turned down
(nothing was or will be done), that it failed (its change is not made, a part of
the work may be), that it is done, or nothing certain.

### TaskLifecycle and the code

| State | Code |
|---|---|
| `row` | the columns `state`, `tmux_window`, `session_id` (is it set) of each task; `"absent"` before the INSERT |
| `place`, `owner` | tmux: which session a window is in, or whether it is not yet or no more; the task it was made for |
| `op` | the `tea.Cmd` goroutines: the operation, the copy of the row it has read (`seen`), the window it has made (`new`), its next step (`pc`) |
| `krang` | up; Update loop ended; rows listed for the clean-up; parked session cleaned up; process gone |
| `listed` | `hasParked` of `runTUI`: the tasks found parked when krang leaves |
| `stale`, `torn`, `op[g].fresh` | auxiliary: they record that a task was written from an outdated copy, or left half done, and guard nothing |

Each of the manager's operations is cut where another goroutine can get in
between: at every tmux command and every UPDATE. A window may close at any
moment, tmux may refuse to create, move or kill, every write may fail, and krang
may die at any step. An operation of a task never asks whether another is at
work on it, because the code does not. Looking a window up is taken to tell the
truth: were `WindowExists` to fail for a living window, the reconciler would
freeze the task and leave its window behind.

`TaskStates` is the diagram of `docs/architecture.md` ("Task States") as a state
machine: of a task it knows the state, whether the window its row names is alive
and whether it has a session. The refinement maps the row to it, and a task that
has been written from an outdated copy to `"astray"`, which a task never leaves
and of which nothing is said. Most steps of an operation are stutters there; the
one that writes the state must find a legal transition.

### HookAttention and the code

| State | Code |
|---|---|
| `posts` | HTTP handlers in `Server.handleEvent` whose callback has not returned |
| `channel`, `pump` | `hookEvents`, and the event `waitForHookEvent` has taken and Update has not seen |
| `state`, `attention` | columns of the row, as far as this needs them |
| `perms`, `gen`, `spinner` | `Model.pendingPerms`, `classifyGen`, `pendingOps` |
| `jobs` | the commands of `handleHookEvent`, `classifyAttention`, `applyClassificationResult` |
| `ending` | `Manager.Complete` between its two writes |
| `shown`, `muddled` | auxiliary: the attention if each decision were written at once; tasks of which a newer goroutine worked before an older one, or whose write was refused |

Each event starts a goroutine that reads the row, decides and writes; nothing
orders two of them, and the errors of `UpdateAttention` are dropped. The
properties about what is shown are therefore claims about tasks that are not
muddled, and cover everything Update decides: which agents wait, what suppresses
what, which verdicts are outdated. `krang` starts with any attention in the row
and no pending permission, which is what a restart finds.

### SessionForks and the code

| State | Code |
|---|---|
| `row`, `created` | `state`, `session_id`, `cwd`, `workspace_dir`, `source_task_id`; the order of `List` |
| `contested` | `Model.contestedSessions` |
| `dialog` | `Model.forkSourceTask`: the copy of the row the fork dialog was opened on |
| `closing` | the goroutines of `Manager.Complete`: which transcripts each will remove, by the rows it has read |
| `fork` | the progress flow of `startFork`, as far as its transcript goes |
| `events`, `jobs` | hook events not yet handled; goroutines about to `UpdateCwd` |
| `claude`, `files`, `home` | external: what each Claude reports, where it is and was launched, the transcripts in `~/.claude/projects`, where a session was started |

A directory is a workspace's root or something in it. The encoding of a path as
a project directory is taken to be injective. `FirstIn` is the first task of
`List` that matches, as the loops over it find it; `Owner` is the oldest of the
tasks of a session, the row that the query without an order scans first. A session
that is imported is one of krang's or one that the user has started; nothing asks
whether a task has it. `Complete` reads all rows, the completed ones too
(`ListAll`), and computes what to remove; `Completed`, after the seconds in which
the window closes and anything else may happen, removes just that.

### WorkspaceSlots and the code

| State | Code |
|---|---|
| `task`, `rows` | `tasks` (state, name, workspace, age) and `workspace_repos` |
| `dirs`, `disk` | workspace directories and the working copies in them; a copied slot (`CopyNonRepoItems`) is a directory that is not real |
| `held`, `unmerged` | external: jj workspaces and git branches, and branches with unmerged commits |
| `flow` | `Model.wsProgress`: create, add repos, fork, complete, with its step |
| `api` | the agent's request at work |
| `forking`, `ending`, `pass` | the goroutines of `forkSharedCmd`, of `Manager.Complete` and of a reconcile pass |

Each command that touches the disk, the VCS or the database is a step of its
own; flows may be cancelled after each, killed in the middle, and a step may
fail; a clone or fork that fails may have got as far as deleting the git branch of
its name (`OnlyDeletes`). jj refuses to forget a workspace it does not know, git refuses to delete a
branch that is checked out, `-d` one with unmerged commits. `SlotNames` has a
name as a sequence of words, joined in the code by `--`; names of repos and
tasks may contain the separator, labels may not. `WorkspaceDirectory` says of a
directory only whether it is free, being built, used or left behind; one that a
flow is building does not count as used, even if a shared fork that comes late has
it for its workspace.

Three fields are history and guard nothing: `by`, in a copy and in a row, is the
name of the task it was made or recorded for (none for a guess); `there`, in a
flow and in a completion, are the tasks that had a workspace when the flow began,
or when the completion looked for others. The properties need them to say *whose*
copy a row is about and *who could have been seen*.

### TaskWizard and the code

| State | Code |
|---|---|
| `strategy`, `orgs`, `local` | `workspace_strategy` and `github_orgs` of the configuration, the repos directory |
| `mode`, `wizard` | `Model.mode`, `Model.activeWizard` |
| `picker`, `remote` | `repoPicker` (ticks, marks, filter) and the Remote tab (`remoteState`, the focus of the three inputs) |
| `gen`, `timers`, `searches` | `remoteSearchGen`, the debounce ticks, the searches of `gh` under way |
| `clone` | the remote clone under way |

One action per key and pane; `Toggle`, `Esc` and the others dispatch as the
nested handlers do. The cursor is abstracted: a human may pick whatever is
visible. A message finds whatever wizard is open when it arrives.

## 3. What the runs check

| Run | Instance | Shows |
|---|---|---|
| `RequestsSafety` | two mutations, two tasks (one with a workspace), channel of one | the inductive invariant, honest answers (up to a failed operation's parts), a safe retry unless killed, the order of starts, what a completion may overlap, the refinement of `SerialMutator`; every call ends, every queued mutation is started or dropped |
| `RequestsReads` | two mutations and a listing, one task, channel of one | reads never wait |
| `RequestsOverlap` | as `RequestsSafety` | violated: a completion beside an agent's mutation |
| `LifecycleSafety` | one task, two goroutines, two windows, one restart | the inductive invariant; rows and windows agree; tasks go through the documented states only (`TaskStates`); quitting spares tasks at rest, unless parked behind the listing |
| `LifecycleLiveness` | one task, two goroutines, one window | a vanished window is noticed |
| `LifecycleRevival` | as `LifecycleSafety` | violated: a completed task comes back |
| `HookAttention` | one task, two agents, seven kinds of events, two events, channel of one | what is shown is what the newest event says; permissions stay visible; a completed task stays done; events are taken, Stops answered, leaving ends |
| `SessionForks` | two tasks, three sessions, two queued events, four posts, moves, imports, parkings and restarts together | one task per session but for imports, events reach their sender's task, transcripts stay at home, copies go |
| `ForkLosesTranscript` | the same | violated: adoption of a shared fork deletes its source's transcript |
| `WorkspaceSlots` | two tasks, one named like a slot of the other, a jj and a git repo, three operations, one mishap | rows tell the truth and survive, copies do not get mixed up, identities go with their copies, directories are kept apart, only forks lose work; slot names parse back and collide as they may, for repos named by one or two words, whose names overlap |
| `ForkDropsWork` | the same with four operations, git only, no mishap | violated: a fork deletes a branch with commits |
| `TaskWizard` | three repos (one on GitHub), two sets, one organization or none, one typed, two searches | no dead field, Esc leads out, results do not go back, repo ticks repair the selection, clones end |

Bounds, and why they are enough. A channel of one place is full as soon as one
request or event waits in it, so the blocked send, the queue behind a modal and
the deadline in the channel all occur; two mutations are the fewest that can
overtake or overlap. No operation on a task looks at another task, so one task
is enough for everything but the cleaning of the parked session, which asks
whether *any* task is parked; the theorem about it covers any number. Two
goroutines are the fewest that can interleave, and a crash makes room for a
third and a fourth one. Two windows let a task have one and get another, which
every argument about wake and relaunch turns on. `MaxRestarts` (0 or 1) bounds
the restarts of krang. The proofs have none of these bounds.

The events of one task never touch another, so `HookAttention` has one task;
`MaxEvents` is two, a first event and one that outdates, suppresses or
overtakes it, on top of any attention left by earlier ones; its seven kinds are
one for each way `AttentionFromEvent`, the pending permissions and the guards
can go. In `SessionForks` a task and its fork need two rows and three sessions
(the source's, the fork's, one after `/clear`); `MaxSteps` bounds what the
Claudes post and how they move, and imports, parkings and restarts with them: four
is enough for a change of directory of the source, an event of it, a change back
and the first event of a fork, or for an import and what two Claudes of one session
say. Dialogs, flows, completions and new sessions are not counted. In
`WorkspaceSlots`, `MaxOps` bounds what humans and agents start (three: make,
add or share, complete; four where a forced removal and a fork follow) and
`MaxMishaps` the crashes and failures; `AutoLabels` has the initial label and
one number, so that an identity that is taken, and one that is taken twice, both
occur. In `TaskWizard` `MaxGen` bounds the searches: the least number for which
answers can change places, also across two wizards.

Deadlock is not checked, except in `TaskWizard`, where a human can always go on:
elsewhere krang may be quit or killed for good, or the bounds used up, and the
last state is meant to have no successor.

The requests' `QueueMoves` is an implication because its second half is about
people: it assumes that a modal which is open again and again is at last
cancelled.

### Fairness

`WorkspaceRequests!Spec` is fair to the handlers and their timers, which the Go
runtime schedules and nothing can block; nothing is assumed of callers, of the
human or of commands. `CommandsReturn` (Bubble Tea delivers its messages; jj and
git return) and `Attended` are hypotheses of `QueueMoves` alone.
`TaskLifecycle!FairSpec` says that a goroutine which can go on does, that the
reconcile tick comes again and again (`model.go:414`, `2572`), and that a write
of the state that is retried for ever succeeds once. `HookAttention!Spec` is
fair to handlers that can send, to the receiving command, the Update loop, the
goroutines and `Stop`; it assumes that `claude -p`, which the code runs without a
timeout (`classify/classify.go:35`), returns. `TaskWizard!FairSpec` likewise
assumes of `git clone` or `jj git clone` (`github/github.go:56-63`) that it ends:
one that never did would leave a mode that ignores every key. It assumes nothing
of a search or of the human. Quitting, keys, hooks, windows that die and crashes
are never fair; `SessionForks` and `WorkspaceSlots` state safety only.

## 4. What is proved

Every safety property that a passing run checks is a theorem, for any sets of
requests, tasks, windows, goroutines, agents, sessions, repos, labels and
organizations, any capacity of a channel and any bound of a counter. The
assumptions are those the modules declare: `None` is none of the values it stands
in for, the bounds are natural numbers, what is declared a subset is one, names are
sequences of words, and (in `WorkspaceSlots`) the tasks are finitely many. Each component follows one
pattern: an invariant that is inductive, a lemma per conjunct or per action that
says that a step keeps it, and the properties from it.

**Requests.** `IInv` is inductive. `OneMutation` alone is not: it says nothing
of a request that is still in the queue. The invariant adds that a request is in
one place at a time (`OnePlace`), that one which has not been started has left
no trace (`Traces`), that the slot is held from a mutation's start until its
report (`SlotHeld`), and that an answer already in a reply channel is true
(`AnswersTrue`). The lemma `Drain` says what a drain of the queue may do; each
action of the Update loop is proved from it. From `IInv` follow type
correctness, `OneMutation`, `HonestAnswers`, `StartsOnlyWhenFree`,
`OnlyCompletionOverlaps`, and that the module implements `SerialMutator`.
`PromiseIsHonest` shows what that is worth: the steps of `SerialMutator` alone
imply `HonestAnswers`, for whatever implements them. What is claimed of a "no" is
that the change is not made and never will be; that nothing at all was touched is
claimed of every "no" except the one of `operation_failed`.

Those five parts are `Consistent`, which is inductive by itself. Two more say what
can be said of progress without fairness. `NobodyForgotten`: a call that was
accepted and has no answer is still in the channel, in the receiving command, in
the queue or at work, so no early return of the loop drops one. `QueueAwaits`: when
an Update leaves a queue behind, a mutation is at work or about to report, a flow
has the workspace, or a modal is open. `Settle` gives it at every Update; the proof
is about the steps in between, none of which may end what the queue waits for
without a drain.

Two of its properties need more than `IInv`. `RetryIsSafeUnlessKilled` is about
the *reason* a caller is given, so `Reasoned` adds what each reason says of the
request: who was refused, not accepted or dropped was told "no", and who met a
closed connection without a crash was never taken over and never will be.
`StartsInOrder` is about positions in `queue \o pump \o channel`, which four
actions cut and paste. `Order` says the same without arithmetic (both in the
queue, or one in the queue and one behind it, ...); `JoinOrder`, `AppendOrder` and
`TailOrder` say what the sequence operations do to it, `DrainOrder` what a drain
does, and `OrderStays` that no step turns two pending requests around.

**Tasks.** Operations on one task overlap freely, so nothing simple is true of
all behaviours. The claim of a task is made until an operation writes it from an
outdated copy (`stale`) or is left half done (`torn`). The invariant rests on
`FreshCopies`: while nobody else has written the row, it equals what the
operation read plus what the operation itself has written (`Expected`). Around
it: what each operation can be doing (`Shapes`) and that its row exists
(`Existing`); which windows tmux has given
out (`Known`); that a window that is given up has ended (`GivenUp`); that a new
window is known to nobody but its creator until it is recorded (`Hidden`); that
a stopped task has no window unless an operation is between its two writes
(`WholeRows`); and that a window out of place has been moved by an operation
which has not recorded it (`MovedWindows`, `Thawed`). From it follow type
correctness, `ActiveHasWindow`, `NoOrphanWindow`, `StateTellsPlace`,
`ResumableNeverFails`, and the action properties `TerminalIsFinal`,
`WindowGoneFirst` and `QuitSparesTasks`; the last needs no more than that the
listing and the killing are two steps, with a task parked in between as the
exception. `StatesFollowed` is the refinement of
`TaskStates`, which alone implies the first two of these (`StatesAreFinal`): a step writes at most one
row (`OneRow`); a write from a fresh copy is an insert (`BirthSteps`), a change of
the state (`StateSteps`, `LifeSteps`) or the arrival of a session (`SessionSteps`);
each is shown to be a transition with what it needs, and all else is a stutter. Two lemmas carry the proof: `LocalStep`
covers every step that writes no row, `WritePreserves` every write, under the
side conditions `Sound` and `SoundWrite` that each action is shown to meet.

**Attention.** `ShowsNewest` speaks of a task whose goroutines are at rest, so
the invariant has to say what becomes of those that are not. `Explained` does: the
newest goroutine that is sure to write (`Firm`: it carries a verdict, or an event
that changes the attention whatever it finds) says what is to be shown, changed at most to "waiting" by an
idle prompt behind it (`Nudges`, `Leads`); if there is none, what is in the row
does. That newest one is unique because of `Numbered`. `PermissionDue` and
`Finished` are the same for a pending permission and for a task being completed.
A task whose goroutines have overtaken each other, or whose write was refused, is
`muddled`; the proof shows that nothing else breaks the claim. `SpinnerHonest` comes along.

**Sessions.** `OneTaskPerSession` needs to know of the sessions that are only on
their way: in a hook event, in a Claude, in a fork that is not launched. `Known`
says that all of them were started by a Claude of some task, and `Rows` that a row is
there in full. The hard case is the fork that reports under the session of its
source until it has one of its own: `BorrowsFirst` says that this comes first and
never again, in the queue as in the row; it is claimed while every task has a
workspace of its own, which an imported one has not. `OneTaskPerSession` excepts
imported sessions, and its proof is that nothing else gives a task a session that
somebody has. From it follow `RoutedToSender` and the two properties about
transcripts, which are about single steps. `HomeTranscriptKeptAtHome` looks at a
completion twice: a transcript counts as kept only while it is there and no
completion has set out to remove it (`Kept`), so the step that reads the rows has
to answer for what the later one does.

**Workspaces.** The proof found that the properties first written here held only
within the bounds of the run, each for a reason the code has: names given twice, a
shared fork that arrives after somebody has looked, rows that a crash in the middle
of a removal has left behind. They now name these exceptions (section 5). The
invariant says of a copy and of a row that directory and identity are those of a
valid slot of some task (`DiskShaped`, `RowsShaped`), and of each actor what it may
still rely on of what it has read: a flow on the name and the directory of its task
(`FlowKnown`), a completion on having seen everybody who was there and every copy
that was not made late (`CompletionSafe`, `EndingKnown`), a request on its target
(`RequestKnown`), a pass on its list (`PassKnown`). `OnDisk` is about the copies
themselves, whatever the rows say: each is in a workspace that is there (`Housed`) and
alone in its directory (`OneCopyPerDir`), and a git worktree has its branch to itself
(`WorktreesApart`); a name that is free when it is resolved is free because of that, and
a fork, which checks no directory, may rely on the one it has made (`ForkPrepared`). Of a
jj copy only its directory is claimed: a removal that is killed half way leaves one whose
jj workspace is forgotten already. `RowsTellTruth` follows from what is known of rows,
copies and actors, and `OnlyForksLoseWork`, `IdentityGoesWithCopy`, `RowsSurvive` and
`DirKept` step by step. `KeptApart` is the refinement of `WorkspaceDirectory`: each action maps
to one of its steps for the one name it is about, and to none for the others.

**Names.** `LeadsBack` and `NamesMeet` hold for any repos, tasks and labels; `NamesHold`
cites them for `SlotNamesHold`, names of one or two words over any set of words, which
is what the run checks for its words. The argument: the repo a slot was made from is the
longest managed prefix of its directory name, since a longer one would be the
directory name itself, which `Validate` excludes.

**The wizard.** `IInv` is inductive once it also says that a Remote tab in its search
phase has an organization (`OrgChosen`), in which its searches and clones are
started. `Whole`, the part about what is open, is kept by every
key, `Asked`, the part about searches and clones, by every answer. From it follow
`EscBacksOut`, by a measure of how deep a human is in, `NewestShown` and
`RepoToggleRepairs`.

`StartsOnlyWhenFree`, `OneMutation`, `WindowGoneFirst`, `TerminalIsFinal` and the two
type invariants are not checked by runs of their own: the first four are proved (the
run's `FollowsStates` implies the last two of them), and type correctness is a
conjunct of each invariant.

**Model-checked only.** Liveness (`EveryCallEnds`, `QueueMoves`,
`LostWindowNoticed`, `EventsTaken`, `StopAnswered`, `ExitEnds`, `CloneReturns`),
which is out of the prover's reach: it rests on fairness and `ENABLED`. The four
violations of section 5 are counterexamples that TLC finds.

## 5. Where the code departs from what it says

Runs show four cases (`findings` in `PROJECT.json`): a completion that overlaps
an agent's mutation; a completed task that comes back; a fork that deletes the
transcript of its source; a fork that deletes a branch with unmerged commits.
The rest was met while modelling. The models do as the code does, and a property
says so where it makes an exception.

**Requests**

* `RetryIsSafe`, without the exception for a krang that is killed, does not hold:
  exit code 4 stands for any broken connection, and a krang killed in the middle
  of an add has made a working copy (`exit.go:87-88`, `121-122`: "Nothing
  applied; retrying is safe.").
* An add that fails before it has a copy to name answers `operation_failed` with
  `applied: "no"` (`workspaceapi.go:156-165`) and exits 1, "Nothing applied"
  (`exit.go:110-113`). By then it may have pruned worktrees and reclaimed a merged
  branch (`slot.go:347`, `366-373`), or jj may have made the directory
  (`slot.go:315-317`). No commit is lost by it, and the workspace has no new copy;
  `HonestAnswers` claims only that much of such an answer.
* `operation_failed` with `applied: "yes"` (`workspaceapi.go:259`) exits 1, of
  which the help says "Nothing applied" (`exit.go:110-113`).
* A request still in the channel at its deadline is answered `timeout`,
  `unknown`, though nobody has accepted it (`hooks/workspace.go:369`).
* `y` on the completion prompt completes the task under the cursor, for which no
  warnings need have been computed (`model.go:1734`, `README.md:248`).

**Tasks**

* Freezing or completing a task whose window is gone fails until the reconciler
  has cleared the window (`manager.go:618-629`).
* Two thaws of one task at once resume its session in two windows.
* A task that is parked after krang has listed the rows on its way out, and before
  it kills the parked session, loses its window (`root.go:267-276`): the goroutine
  of a key outlives the Update loop.
* A reconcile pass that meets another operation can leave an active task with an
  empty window id, which no later pass heals (`reconcile.go:29`, `50-53`); that
  is the exception `ActiveHasWindow` makes for stale writes.

**Attention**

* A verdict is applied with no look at the state of its task
  (`model.go:2984-2986`), although late events "must not reset the attention
  state" of a completed one (`model.go:2938-2940`): the exception of
  `CompletedShowsDone`.
* Goroutines of two events may write in the wrong order; only unmuddled tasks
  show the newest event.
* After a restart no permission is pending any more, so one that is still shown
  is cleared by the next tool use of any agent.
* `Server.Stop` waits for ever while the hook channel is full: the callback sends
  without the request's context (`root.go:239`, `server.go:97`), which is the
  exception of `ExitEnds`.

**Sessions**

* A contested session's events go to the fork when `cwd` differs from the one
  recorded for the source, not when it "matches the fork's workspace"
  (`model.go:236-255`): a source that has changed directory loses its events to
  the fork until that is adopted.
* The mark of a contested session stays when its fork is cancelled or fails, and a
  second fork of the same source overwrites it.
* A fork whose launch fails leaves the copied transcript behind.
* An import inserts whatever session id it is given (`manager.go:178-196`), and no
  constraint keeps one session from having two tasks: both can be thawed, and the
  events of both Claudes go to the older one.
* A completion removes the copy by the directories that were recorded before it
  closed the window (`manager.go:529-568`): of a source that was in a working copy
  then and is at home again, it removes the home transcript.

**Workspaces**

* A shared fork whose goroutine inserts its row after a completion has looked for
  sharers loses the directory and the rows (`model.go:1749`, `manager.go:583`).
* A cancelled creation removes the directory it has made, also when a shared fork of
  an earlier task of that name, inserted late, lives in it by now (an exception of
  `DirKept`).
* A removal that is killed before it drops the row (`workspaceapi.go:254-259`) leaves
  one that is believed of whatever is put in that directory later. If that was made
  for another task of the shared workspace, completion forgets the wrong identity
  and leaves the copy's own (an exception of `RowsTellTruth` and
  `IdentityGoesWithCopy`).
* Two completions of two tasks that share a workspace may each leave it to the
  other, and nobody removes directory or rows.
* An agent's add that is in flight while a completion is confirmed brings the
  directory back after it was removed.
* In a shared workspace the edit wizard adds a copy under the name of the sharing
  fork (the API refuses shared workspaces). The reconciler's backfill later
  guesses another identity for that directory, and the true row is dropped when
  rows are handed over (contrary to `workspacerepos.go:94-96`).
* A reconcile pass with an old list backfills rows for a completed task whose name
  a new one has taken.
* A failed launch leaves the directory without a row; forks record no rows at all
  and live on guesses.
* Nothing in the database keeps two living tasks from having one name: a shared
  fork whose row is not inserted and the wizard can make them.

**The wizard**

* Ticking a set compares the other sets with what was ticked before
  (`repopicker.go:147-157`; the comment there is "Also sync other sets that share
  members"). With sets `{r1, r2}` and `{r2}`: tick the first twice, and `r2` is
  selected although nothing but the second set shows a mark. Single repos repair
  it (`RepoToggleRepairs`).
* A marked set selects its members also if they are not in the list (excluded, or
  not cloned), and a clone makes the list anew and drops all ticks.
* Results and query outlive the organization they were found in
  (`wizard.go:545-559`, `575-593`): a late answer of one is shown, and cloned, as
  another's; the text entered again in another organization is not searched; the
  answer to a query that was emptied comes back; a new wizard can get an older
  one's results. `NewestShown` is about their order only.
* The edit wizard lists repos that are there until the list is made anew: the
  exclusion is applied by `refreshLocalRepos` alone (`docs/design/workspaces.md:294-296`).
* `workspace.Create`, `AddRepos`, `Destroy` and `CloneRepo` have no callers
  outside tests; the picker of `ModeRepoSelect` and `tabbedRepoPicker`'s own key
  handler are unreachable.

## 6. What is not modelled

* Companion windows, the search for transcripts of an import, the shell command
  line and `Focus`: they decide neither a state nor a window that other
  operations use.
* In `HookAttention` the counts of subagents and background processes, the event
  log and window colours; what a restart makes krang forget.
* In `WorkspaceSlots` the `single_repo` strategy (one copy that is the workspace
  itself), uncommitted changes in a working copy, commands that hang, the empty
directory that jj leaves when it fails on its own; in
  `SessionForks` project directories whose encodings coincide.
* In `TaskWizard` the fields of the Flags tab, cursor positions and the list
  forms of the other strategies beyond their Enter and Esc. The fork dialog's
  own fields and the sorting and filtering of the task list are not modelled.
* The check for a running instance at startup and the state file
  (`hooks/server.go:66`): two krangs started at once.
* Summaries, sit rep, usage, the process tree, views, themes, setup and
  configuration are sequential readers or formatting, with no state another
  component depends on.
* jj, git, gh, tmux, SQLite and Claude are external: each is taken as atomic
  commands that may fail.
