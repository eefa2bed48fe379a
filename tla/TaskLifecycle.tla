----------------------------- MODULE TaskLifecycle -----------------------------
(***************************************************************************)
(* The life of a task: its row in SQLite, its tmux windows, and the        *)
(* operations of task.Manager that keep the two in step.                   *)
(*                                                                         *)
(* Every operation is a tea.Cmd, so it runs in a goroutine of its own. It  *)
(* reads the row once, then works from that copy: a sequence of tmux       *)
(* commands and single-column UPDATEs, each of which may fail and between  *)
(* which any other goroutine may run. Nothing keeps two operations of one  *)
(* task apart. The reconciler is such an operation, started by a timer.    *)
(*                                                                         *)
(* Names, companion windows, working copies, attention and the transcript  *)
(* are left out: none of them decides a state or a window of a task.       *)
(***************************************************************************)
EXTENDS Naturals, FiniteSets

CONSTANTS
    Tasks,        \* rows of the tasks table
    Windows,      \* ids tmux can give; it never gives one twice
    Goroutines,   \* commands that can be at work at once
    MaxRestarts,  \* bound: how often krang is started again
    None          \* no window, no task

ASSUME NoneAssumption     == None \notin Windows /\ None \notin Tasks
ASSUME RestartsAssumption == MaxRestarts \in Nat

VARIABLES
    krang,     \* the process: up, its loop left, cleaning up, cleaned up, down
    listed,    \* the tasks that the clean-up at the end has found parked
    row,       \* the row of each task: state, tmux_window, session_id is set
    place,     \* where each window is: a session, or not yet, or no more
    owner,     \* the task it was made for
    op,        \* what each goroutine is doing
    restarts,
    stale,     \* auxiliary: tasks written by an operation whose copy of the
               \* row was out of date, or read between two writes of another
    torn       \* auxiliary: tasks an operation left half done, because a
               \* write or a kill failed or krang died

tmux == <<place, owner>>
vars == <<krang, listed, row, tmux, op, restarts, stale, torn>>

--------------------------------------------------------------------------------
States   == {"absent", "active", "parked", "dormant", "completed", "failed"}
Living   == {"active", "parked"}
Terminal == {"completed", "failed"}
Row      == [state : States, window : Windows \cup {None}, session : BOOLEAN]
NoRow    == [state |-> "absent", window |-> None, session |-> FALSE]

Kinds == {"create", "fork", "park", "unpark", "dormify", "wake", "relaunch",
          "complete", "reconcile"}
Steps == {"move", "look", "close", "closing", "kill", "window",
          "insert", "setwindow", "setstate", "state", "clear"}

\* seen is the row as the operation read it, new the window it has created,
\* fresh whether the row was whole when it was read and is still the same.
Op == [kind : Kinds \cup {"none"}, task : Tasks \cup {None}, pc : Steps \cup {"none"},
       seen : Row, new : Windows \cup {None}, fresh : BOOLEAN]
Idle == [kind |-> "none", task |-> None, pc |-> "none",
         seen |-> NoRow, new |-> None, fresh |-> TRUE]

TypeOK ==
    /\ krang \in {"up", "stopping", "cleaning", "leaving", "down"}
    /\ listed \subseteq Tasks
    /\ row \in [Tasks -> Row]
    /\ place \in [Windows -> {"unborn", "active", "parked", "gone"}]
    /\ owner \in [Windows -> Tasks \cup {None}]
    /\ op \in [Goroutines -> Op]
    /\ restarts \in 0..MaxRestarts
    /\ stale \subseteq Tasks /\ torn \subseteq Tasks

Init ==
    /\ krang = "up" /\ listed = {}
    /\ row = [t \in Tasks |-> NoRow]
    /\ place = [w \in Windows |-> "unborn"] /\ owner = [w \in Windows |-> None]
    /\ op = [g \in Goroutines |-> Idle]
    /\ restarts = 0
    /\ stale = {} /\ torn = {}

Alive(w)  == w # None /\ place[w] \in {"active", "parked"}
AtWork(t) == \E g \in Goroutines : op[g].task = t
At(g, pc) == krang # "down" /\ op[g].pc = pc

--------------------------------------------------------------------------------
(* What an operation does next.                                            *)

Goto(g, pc) == op' = [op EXCEPT ![g].pc = pc]
Return(g)   == op' = [op EXCEPT ![g] = Idle]

\* What o has done that no row tells of yet: a window moved or created, a
\* state without its window, a window without its state.
Unrecorded(o) ==
    \/ o.pc \in {"insert", "setwindow", "setstate", "clear"}
    \/ o.pc = "state" /\ o.kind \in {"park", "unpark", "relaunch"}

\* The operation g returns an error in the middle of its work.
Abandon(g) ==
    /\ torn' = IF Unrecorded(op[g]) THEN torn \cup {op[g].task} ELSE torn
    /\ Return(g)

\* g writes r into the row of its task and goes on as next; the copies that
\* other operations hold of this row are out of date from now on.
Write(g, r, next) ==
    LET t == op[g].task
    IN  /\ row' = [row EXCEPT ![t] = r]
        /\ op' = [h \in Goroutines |->
                    IF h = g THEN next
                    ELSE IF op[h].task = t THEN [op[h] EXCEPT !.fresh = FALSE]
                    ELSE op[h]]
        /\ stale' = IF op[g].fresh THEN stale ELSE stale \cup {t}
        /\ UNCHANGED <<krang, listed, tmux, restarts, torn>>

--------------------------------------------------------------------------------
(* Starting an operation: it reads the row and refuses, or goes to work.   *)

\* mutants: a thaw that does not ask for a frozen task; a reconciler that
\* forgets the parked session
AllowedWakeAny(kind, r) ==
    CASE kind = "park"      -> r.state = "active"
      [] kind = "unpark"    -> r.state = "parked"
      [] kind = "dormify"   -> r.state \in Living
      [] kind = "wake"      -> r.state \notin Living /\ r.session
      [] kind = "relaunch"  -> r.state \in Living
      [] kind = "complete"  -> TRUE
      [] kind = "reconcile" -> r.state \in Living /\ r.window # None
AllowedNotParked(kind, r) ==
    CASE kind = "park"      -> r.state = "active"
      [] kind = "unpark"    -> r.state = "parked"
      [] kind = "dormify"   -> r.state \in Living
      [] kind = "wake"      -> r.state = "dormant" /\ r.session
      [] kind = "relaunch"  -> r.state \in Living
      [] kind = "complete"  -> TRUE
      [] kind = "reconcile" -> r.state = "active" /\ r.window # None

Allowed(kind, r) ==
    CASE kind = "park"      -> r.state = "active"
      [] kind = "unpark"    -> r.state = "parked"
      [] kind = "dormify"   -> r.state \in Living
      [] kind = "wake"      -> r.state = "dormant" /\ r.session
      [] kind = "relaunch"  -> r.state \in Living
      [] kind = "complete"  -> TRUE
      [] kind = "reconcile" -> r.state \in Living /\ r.window # None

FirstStep(kind, r) ==
    CASE kind \in {"park", "unpark"}      -> "move"
      [] kind \in {"dormify", "complete"} -> IF r.window # None THEN "close" ELSE "state"
      [] kind = "relaunch"                -> IF r.state = "parked" THEN "move"
                                             ELSE IF r.window # None THEN "kill" ELSE "window"
      [] kind = "reconcile"               -> "look"
      [] OTHER                            -> "window"

\* Some operation is between its two writes of the row.
HalfWritten(t) == \E h \in Goroutines : op[h].task = t /\ op[h].pc \in {"setstate", "clear"}

Start(g, kind, t) ==
    /\ op' = [op EXCEPT ![g] = [kind |-> kind, task |-> t, pc |-> FirstStep(kind, row[t]),
                                seen |-> row[t], new |-> None, fresh |-> ~HalfWritten(t)]]
    /\ UNCHANGED <<krang, listed, row, tmux, restarts, stale, torn>>

Begin(g, kind, t) ==
    /\ krang = "up" /\ op[g] = Idle
    /\ row[t].state # "absent" /\ Allowed(kind, row[t])
    /\ Start(g, kind, t)

\* A task is created under an id nobody else has.
BeginCreate(g, kind, t) ==
    /\ krang = "up" /\ op[g] = Idle
    /\ row[t].state = "absent" /\ ~AtWork(t)
    /\ Start(g, kind, t)

\* An imported session becomes a frozen task in one INSERT.
Import(t) ==
    /\ krang = "up"
    /\ row[t].state = "absent" /\ ~AtWork(t)
    /\ row' = [row EXCEPT ![t] = [state |-> "dormant", window |-> None, session |-> TRUE]]
    /\ UNCHANGED <<krang, listed, tmux, op, restarts, stale, torn>>

\* A forked task learns its session from the first hook event in its cwd.
Adopt(t) ==
    /\ krang = "up"
    /\ row[t].state = "active" /\ row[t].window # None /\ ~row[t].session
    /\ row' = [row EXCEPT ![t].session = TRUE]
    /\ op' = [h \in Goroutines |->
                IF op[h].task = t THEN [op[h] EXCEPT !.fresh = FALSE] ELSE op[h]]
    /\ UNCHANGED <<krang, listed, tmux, restarts, stale, torn>>

--------------------------------------------------------------------------------
(* tmux.                                                                   *)

\* mutant: Unpark moves where Park does
TargetParked(kind) == IF kind # "relaunch" THEN "parked" ELSE "active"

Target(kind) == IF kind = "park" THEN "parked" ELSE "active"

\* Park and Unpark move the window first; one that is not there is an error.
\* Relaunch unparks by calling Unpark, which reads the row again.
Move(g) ==
    LET unparking == op[g].kind = "relaunch"
        w == IF unparking THEN row[op[g].task].window ELSE op[g].seen.window
    IN  /\ At(g, "move")
        /\ \/ /\ Alive(w) /\ (unparking => row[op[g].task].state = "parked")
              /\ place' = [place EXCEPT ![w] = Target(op[g].kind)]
              /\ Goto(g, "state")
           \/ Return(g) /\ UNCHANGED place
        /\ UNCHANGED <<krang, listed, row, owner, restarts, stale, torn>>

\* Reconcile lists the windows of both sessions and asks once more for one
\* it did not find; a window that is there ends its interest in the row.
Look(g) ==
    /\ At(g, "look")
    /\ IF Alive(op[g].seen.window) THEN Return(g) ELSE Goto(g, "state")
    /\ UNCHANGED <<krang, listed, row, tmux, restarts, stale, torn>>

\* gracefulCloseWindow: without a pane pid, kill-window has nothing to kill.
Close(g) ==
    /\ At(g, "close")
    /\ IF Alive(op[g].seen.window) THEN Goto(g, "closing") ELSE Return(g)
    /\ UNCHANGED <<krang, listed, row, tmux, restarts, stale, torn>>

\* ... SIGINT and up to 15 seconds later the window is gone, or killed,
Closed(g) ==
    /\ At(g, "closing")
    /\ place' = [place EXCEPT ![op[g].seen.window] = "gone"]
    /\ Goto(g, "state")
    /\ UNCHANGED <<krang, listed, row, owner, restarts, stale, torn>>

\* ... or kill-window fails and the operation gives up.
CloseFails(g) ==
    /\ At(g, "closing") /\ Return(g)
    /\ UNCHANGED <<krang, listed, row, tmux, restarts, stale, torn>>

\* shutdownClaudeForRelaunch waits for the process and kills the window it
\* was shown, if that is there,
Kill(g) ==
    LET w == op[g].seen.window
    IN  /\ At(g, "kill")
        /\ place' = IF Alive(w) THEN [place EXCEPT ![w] = "gone"] ELSE place
        /\ Goto(g, "window")
        /\ UNCHANGED <<krang, listed, row, owner, restarts, stale, torn>>

\* ... and goes on to create another even if it could not.
KillFails(g) ==
    /\ At(g, "kill") /\ Alive(op[g].seen.window)
    /\ torn' = torn \cup {op[g].task}
    /\ Goto(g, "window")
    /\ UNCHANGED <<krang, listed, row, tmux, restarts, stale>>

CreateWindow(g, w) ==
    /\ At(g, "window") /\ place[w] = "unborn"
    /\ place' = [place EXCEPT ![w] = "active"]
    /\ owner' = [owner EXCEPT ![w] = op[g].task]
    /\ op' = [op EXCEPT ![g].new = w,
                        ![g].pc = IF op[g].kind \in {"create", "fork"} THEN "insert" ELSE "setwindow"]
    /\ UNCHANGED <<krang, listed, row, restarts, stale, torn>>

CreateFails(g) ==
    /\ At(g, "window") /\ Return(g)
    /\ UNCHANGED <<krang, listed, row, tmux, restarts, stale, torn>>

\* The user closes a window, or Claude ends and Enter is pressed.
WindowDies(w) ==
    /\ Alive(w)
    /\ place' = [place EXCEPT ![w] = "gone"]
    /\ UNCHANGED <<krang, listed, row, owner, op, restarts, stale, torn>>

--------------------------------------------------------------------------------
(* SQLite.  A write may fail (SQLITE_BUSY) and the operation then returns. *)

Insert(g) ==
    /\ At(g, "insert")
    /\ Write(g, [state |-> "active", window |-> op[g].new, session |-> op[g].kind = "create"], Idle)

\* mutant: the window of a task that could not be saved is left alone
InsertFailsKeepsWindow(g) ==
    /\ At(g, "insert") /\ Return(g)
    /\ UNCHANGED <<krang, listed, row, tmux, restarts, stale, torn>>

\* A task that could not be saved takes its window with it, if it can.
InsertFails(g) ==
    LET w == op[g].new
    IN  /\ At(g, "insert") /\ Return(g)
        /\ \/ /\ place' = IF Alive(w) THEN [place EXCEPT ![w] = "gone"] ELSE place
              /\ UNCHANGED torn
           \/ /\ Alive(w) /\ torn' = torn \cup {op[g].task}
              /\ UNCHANGED place
        /\ UNCHANGED <<krang, listed, row, owner, restarts, stale>>

\* Wake and Relaunch record the window before they call the task active.
SetWindow(g) ==
    /\ At(g, "setwindow")
    /\ Write(g, [row[op[g].task] EXCEPT !.window = op[g].new], [op[g] EXCEPT !.pc = "setstate"])

SetActive(g) ==
    /\ At(g, "setstate")
    /\ Write(g, [row[op[g].task] EXCEPT !.state = "active"], Idle)

\* mutant: whatever vanishes has failed
NewStateFailed(o) ==
    CASE o.kind = "park"                    -> "parked"
      [] o.kind \in {"unpark", "relaunch"}  -> "active"
      [] o.kind = "dormify"                 -> "dormant"
      [] o.kind = "complete"                -> "completed"
      [] o.kind = "reconcile"               -> "failed"

\* The reconciler freezes what can be resumed.
NewState(o) ==
    CASE o.kind = "park"                    -> "parked"
      [] o.kind \in {"unpark", "relaunch"}  -> "active"
      [] o.kind = "dormify"                 -> "dormant"
      [] o.kind = "complete"                -> "completed"
      [] o.kind = "reconcile"               -> IF o.seen.session THEN "dormant" ELSE "failed"

AfterState(o) ==
    CASE o.kind \in {"park", "unpark"} -> Idle
      [] o.kind = "relaunch"           -> [o EXCEPT !.pc = IF o.seen.window # None THEN "kill"
                                                                                   ELSE "window"]
      [] OTHER                         -> [o EXCEPT !.pc = "clear"]

SetState(g) ==
    /\ At(g, "state")
    /\ Write(g, [row[op[g].task] EXCEPT !.state = NewState(op[g])], AfterState(op[g]))

\* The state is recorded before the window is forgotten.
Clear(g) ==
    /\ At(g, "clear")
    /\ Write(g, [row[op[g].task] EXCEPT !.window = None], Idle)

\* mutant: the reconciler clears the window of a task it could not mark
StateFailsClears(g) ==
    /\ At(g, "state")
    /\ IF op[g].kind = "reconcile" THEN Goto(g, "clear") /\ UNCHANGED torn ELSE Abandon(g)
    /\ UNCHANGED <<krang, listed, row, tmux, restarts, stale>>

StateFails(g) ==
    /\ At(g, "state") /\ Abandon(g)
    /\ UNCHANGED <<krang, listed, row, tmux, restarts, stale>>

WriteFails(g) ==
    /\ krang # "down" /\ op[g].pc \in {"setwindow", "setstate", "clear"}
    /\ Abandon(g)
    /\ UNCHANGED <<krang, listed, row, tmux, restarts, stale>>

--------------------------------------------------------------------------------
(* The process.                                                            *)

\* The Update loop ends; the goroutines run on.
Quit ==
    /\ krang = "up" /\ krang' = "stopping"
    /\ UNCHANGED <<listed, row, tmux, op, restarts, stale, torn>>

\* The rows are listed, to see whether a task is parked; an error ends it here.
ListParked ==
    /\ krang = "stopping"
    /\ \/ krang' = "cleaning" /\ listed' = {t \in Tasks : row[t].state = "parked"}
       \/ krang' = "leaving" /\ UNCHANGED listed
    /\ UNCHANGED <<row, tmux, op, restarts, stale, torn>>

\* mutant: the parked session is always killed
CleanParkedAlways ==
    /\ krang = "cleaning" /\ krang' = "leaving" /\ listed' = {}
    /\ place' = [w \in Windows |-> IF place[w] = "parked" THEN "gone" ELSE place[w]]
    /\ UNCHANGED <<row, owner, op, restarts, stale, torn>>

\* The parked session is killed, with what is in it by then, if none was.
CleanParked ==
    /\ krang = "cleaning" /\ krang' = "leaving" /\ listed' = {}
    /\ \/ /\ listed = {}
          /\ place' = [w \in Windows |-> IF place[w] = "parked" THEN "gone" ELSE place[w]]
       \/ UNCHANGED place
    /\ UNCHANGED <<row, owner, op, restarts, stale, torn>>

\* Exit, SIGKILL or a panic: what the goroutines were doing is forgotten.
Die ==
    /\ krang # "down" /\ krang' = "down"
    /\ torn' = torn \cup {t \in Tasks : \E g \in Goroutines :
                             op[g].task = t /\ Unrecorded(op[g])}
    /\ op' = [g \in Goroutines |-> Idle] /\ listed' = {}
    /\ UNCHANGED <<row, tmux, restarts, stale>>

\* The startup pass is a Reconcile like any other; where its writes fail, it
\* might as well not have run.
Restart ==
    /\ krang = "down" /\ restarts < MaxRestarts
    /\ krang' = "up" /\ restarts' = restarts + 1
    /\ UNCHANGED <<listed, row, tmux, op, stale, torn>>

--------------------------------------------------------------------------------
Running(g) ==
    \/ Move(g) \/ Look(g) \/ Close(g) \/ Closed(g) \/ CloseFails(g)
    \/ Kill(g) \/ KillFails(g)
    \/ \E w \in Windows : CreateWindow(g, w)
    \/ CreateFails(g)
    \/ Insert(g) \/ InsertFails(g) \/ SetWindow(g) \/ SetActive(g)
    \/ SetState(g) \/ Clear(g) \/ StateFails(g) \/ WriteFails(g)

Next ==
    \/ \E g \in Goroutines, t \in Tasks :
          \/ \E kind \in Kinds \ {"create", "fork"} : Begin(g, kind, t)
          \/ \E kind \in {"create", "fork"} : BeginCreate(g, kind, t)
    \/ \E g \in Goroutines : Running(g)
    \/ \E t \in Tasks : Import(t) \/ Adopt(t)
    \/ \E w \in Windows : WindowDies(w)
    \/ Quit \/ ListParked \/ CleanParked \/ Die \/ Restart

Spec == Init /\ [][Next]_vars

--------------------------------------------------------------------------------
(* Fairness.  Commands return and ticks keep coming; SQLite is not busy    *)
(* for ever, so a write that is tried again and again succeeds.            *)

Fairness ==
    /\ \A g \in Goroutines : WF_vars(Running(g)) /\ SF_vars(SetState(g))
    /\ \A t \in Tasks : SF_vars(\E g \in Goroutines : Begin(g, "reconcile", t))

FairSpec == Spec /\ Fairness

--------------------------------------------------------------------------------
(* Properties.  Operations of one task overlap freely, so the row and the  *)
(* windows can come apart.  What is claimed of a task is claimed until an  *)
(* operation writes it from an outdated copy of its row (stale) and, where *)
(* it says so, until one is left half done (torn).                         *)

Orderly(t) == t \notin stale \cup torn

\* A task that has a live state has a window to act on: with an empty id, Park
\* and the closing of a window would find none (reconcile.go, "skip the window
\* clear").  The order of the two writes of every operation keeps this through
\* failing writes and crashes; only a stale write breaks it.
HasWindow(t) == row[t].state \in Living => row[t].window # None
ActiveHasWindow == \A t \in Tasks : t \notin stale => HasWindow(t)

\* One task, one window: a live window is the one its task's row names, or one
\* that an operation at work on the task is about to write there.
Carries(g, w) == op[g].new = w /\ op[g].pc \in {"insert", "setwindow"}
NoOrphanWindow ==
    \A w \in Windows : Alive(w) /\ Orderly(owner[w]) =>
        row[owner[w]].window = w \/ \E g \in Goroutines : op[g].task = owner[w] /\ Carries(g, w)

\* Once no operation is at work on it, a task's state tells where its window
\* is: in the session of its state, or nowhere for a frozen or ended task.
StateTellsPlace ==
    \A t \in Tasks : Orderly(t) /\ ~AtWork(t) =>
        /\ row[t].state \notin Living => row[t].window = None
        /\ Alive(row[t].window) => place[row[t].window] = row[t].state

\* "failed" is for tasks that cannot be resumed: one that ever had a session is
\* frozen instead, and never ends up where no key brings it back.
ResumableNeverFails ==
    \A t \in Tasks : t \notin stale => (row[t].state = "failed" => ~row[t].session)

\* A completed task stays completed, and a failed one can only be completed:
\* its name, its directory and its identities are free for others by then.
Ended(t) == /\ row[t].state = "completed" => row'[t].state = "completed"
            /\ row[t].state = "failed"    => row'[t].state \in Terminal
TerminalIsFinal  == [][\A t \in Tasks : t \notin stale' => Ended(t)]_vars
TerminalIsAlways == [][\A t \in Tasks : Ended(t)]_vars

\* No row says that a task has stopped before the window it names is gone
\* (architecture.md, "Update DB state only after the window is confirmed dead").
WindowGoneFirst ==
    [][\A t \in Tasks : t \notin stale' /\ row[t].state \in Living /\ row'[t].state \notin Living
          => ~Alive(row[t].window)]_vars

\* Tasks go through the states that architecture.md draws, each change of state
\* with what it needs (TaskStates), however operations overlap, fail and die half
\* way; a task that is written from an outdated copy goes astray.
Life == INSTANCE TaskStates WITH
    life      <- [t \in Tasks |-> IF t \in stale THEN "astray" ELSE row[t].state],
    windowed  <- [t \in Tasks |-> Alive(row[t].window)],
    resumable <- [t \in Tasks |-> row[t].session]
FollowsStates == Life!Spec

\* Leaving krang kills no window of a task that is at rest and was found parked,
\* or is not parked: the parked session goes only when the listing found nothing
\* in it that a key resumes.  Goroutines run on behind the listing, though, and a
\* task that a late Park has put into the session since then goes with it.
ParkedLate(t) == row[t].state = "parked" /\ t \notin listed
QuitSparesTasks ==
    [][krang = "cleaning" /\ krang' = "leaving" =>
          \A w \in Windows : Alive(w) /\ Orderly(owner[w]) /\ ~AtWork(owner[w]) /\ ~ParkedLate(owner[w])
                             => place'[w] = place[w]]_vars

\* A window that has vanished is noticed, parked or not, while krang is up: the
\* row comes to name another window, or the task is frozen, ended or torn.
Lost(t) == row[t].state \in Living /\ row[t].window # None /\ ~Alive(row[t].window)
LostWindowNoticed == \A t \in Tasks : Lost(t) ~> ~Lost(t) \/ krang # "up"

--------------------------------------------------------------------------------
(* The inductive invariant (TaskLifecycleProofs).                          *)

\* What every operation can be doing, and when it holds a window of its own.
Course(kind) ==
    CASE kind \in {"create", "fork"}      -> {"window", "insert"}
      [] kind \in {"park", "unpark"}      -> {"move", "state"}
      [] kind \in {"dormify", "complete"} -> {"close", "closing", "state", "clear"}
      [] kind = "wake"                    -> {"window", "setwindow", "setstate"}
      [] kind = "relaunch"                -> {"move", "state", "kill", "window", "setwindow", "setstate"}
      [] kind = "reconcile"               -> {"look", "state", "clear"}
Shape(o) ==
    \/ o = Idle
    \/ /\ o.kind \in Kinds /\ o.task \in Tasks /\ o.pc \in Course(o.kind)
       /\ o.new # None <=> o.pc \in {"insert", "setwindow", "setstate"}
       /\ o.pc \in {"look", "close", "closing", "kill"} => o.seen.window # None
       /\ IF o.kind \in {"create", "fork"} THEN o.seen = NoRow
          ELSE o.seen.state # "absent" /\ Allowed(o.kind, o.seen)
Shapes == \A g \in Goroutines : Shape(op[g])

\* A window that some row, copy or operation knows has been given out by tmux,
\* and for that task.
Belongs(w, t) == w # None => place[w] # "unborn" /\ owner[w] = t
Known ==
    /\ \A t \in Tasks : Belongs(row[t].window, t) /\ (row[t].state = "absent" => row[t] = NoRow)
    /\ \A g \in Goroutines : /\ Belongs(op[g].seen.window, op[g].task)
                              /\ Belongs(op[g].new, op[g].task)
    /\ \A w \in Windows : Alive(w) => owner[w] \in Tasks

\* Whoever works on a task has found its row, and no row is ever deleted.
Existing ==
    \A g \in Goroutines : op[g].kind \in Kinds \ {"create", "fork"}
        => row[op[g].task].state # "absent"

\* The row an operation counts on, having read seen and written what it has.
Expected(o) ==
    CASE o.pc = "clear" -> [o.seen EXCEPT !.state = NewState(o)]
      [] o.kind = "relaunch" /\ o.pc = "setstate"
                        -> [o.seen EXCEPT !.state = "active", !.window = o.new]
      [] o.kind # "relaunch" /\ o.pc = "setstate"
                        -> [o.seen EXCEPT !.window = o.new]
      [] o.kind = "relaunch" /\ o.pc \in {"kill", "window", "setwindow"}
                        -> [o.seen EXCEPT !.state = "active"]
      [] OTHER          -> o.seen
Fresh(g)    == op[g] # Idle /\ op[g].fresh
FreshCopies == \A g \in Goroutines : Fresh(g) => row[op[g].task] = Expected(op[g])

\* A stopped task with a window id is one an operation has half written, so a
\* fresh copy of a stopped task has none.
WholeRows ==
    /\ \A t \in Tasks : Orderly(t) /\ row[t].state \notin Living =>
          row[t].window = None \/ HalfWritten(t)
    /\ \A g \in Goroutines : Fresh(g) /\ Orderly(op[g].task) /\ op[g].seen.state \notin Living =>
          op[g].seen.window = None

\* Whoever gives a window up has seen it end.
Dead(w) == w = None \/ place[w] = "gone"
GivesUp(o) ==
    \/ o.kind \in {"dormify", "complete", "reconcile"} /\ o.pc \in {"state", "clear"}
    \/ o.kind = "relaunch" /\ o.pc \in {"window", "setwindow", "setstate"} /\ o.task \notin torn
GivenUp == \A g \in Goroutines : GivesUp(op[g]) => Dead(op[g].seen.window)

\* A window that is not recorded yet is known to its creator alone.
Hidden ==
    \A g \in Goroutines : op[g].pc \in {"insert", "setwindow"} =>
        /\ place[op[g].new] \in {"active", "gone"}
        /\ \A t \in Tasks : row[t].window # op[g].new
        /\ \A h \in Goroutines : op[h].seen.window # op[g].new /\ (h # g => op[h].new # op[g].new)

\* A thawed task's window stays where it was made until the task is active.
Thawing(g) == Fresh(g) /\ op[g].kind = "wake" /\ op[g].pc = "setstate"
Thawed ==
    \A g \in Goroutines : Thawing(g) =>
        /\ place[op[g].new] \in {"active", "gone"}
        /\ \A h \in Goroutines : op[h].seen.window = op[g].new => op[h].seen.state \notin Living

\* A window out of place is one that an operation has moved and not recorded.
Moved(g, t)     == op[g].task = t /\ op[g].pc = "state" /\ op[g].kind \in {"park", "unpark", "relaunch"}
InPlace(w, st)  == Alive(w) => place[w] = st
MovedWindows ==
    /\ \A t \in Tasks : Orderly(t) /\ row[t].state \in Living /\ (\A g \in Goroutines : ~Moved(g, t))
          => InPlace(row[t].window, row[t].state)
    /\ \A t \in Tasks, g \in Goroutines :
          Orderly(t) /\ Moved(g, t) /\ Fresh(g) /\ (\A h \in Goroutines \ {g} : ~Moved(h, t))
          => InPlace(row[t].window, Target(op[g].kind))

IInv ==
    /\ TypeOK /\ Shapes /\ Known /\ Existing /\ FreshCopies /\ WholeRows /\ GivenUp
    /\ Hidden /\ Thawed /\ MovedWindows
    /\ ActiveHasWindow /\ NoOrphanWindow /\ ResumableNeverFails

================================================================================
