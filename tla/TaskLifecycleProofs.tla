-------------------------- MODULE TaskLifecycleProofs --------------------------
(***************************************************************************)
(* Theorems about TaskLifecycle, for any tasks, windows and goroutines.    *)
(***************************************************************************)
EXTENDS TaskLifecycle, TLAPS

USE NoneAssumption, RestartsAssumption

--------------------------------------------------------------------------------
(* Windows.                                                                *)

\* Windows may end, and do nothing else.
OnlyEnds ==
    /\ place' \in [Windows -> {"unborn", "active", "parked", "gone"}]
    /\ \A w \in Windows : place'[w] = place[w] \/ (Alive(w) /\ place'[w] = "gone")

\* A step that only ends windows opens none and brings none back.
LEMMA Ends ==
    ASSUME TypeOK, OnlyEnds
    PROVE  /\ \A w \in Windows : Alive(w)' => Alive(w) /\ place'[w] = place[w]
           /\ \A w \in Windows : place[w] = "unborn" <=> place'[w] = "unborn"
           /\ \A w \in Windows : place[w] = "gone" => place'[w] = "gone"
           /\ \A w \in Windows : place[w] \in {"active", "gone"} => place'[w] \in {"active", "gone"}
  BY DEF TypeOK, OnlyEnds, Alive

--------------------------------------------------------------------------------
(* A step of one operation that writes no row.                             *)

\* What the operation o of goroutine g must be for the invariant to hold after
\* g has gone over from op[g] to o.
Sound(g, o) ==
    /\ o \in Op /\ Shape(o)
    /\ Belongs(o.seen.window, o.task)
    /\ o.new = None /\ o.pc \notin {"clear", "setstate"}
    /\ o.seen \in {op[g].seen, NoRow} \/ (o.task \in Tasks /\ o.seen = row[o.task])
    /\ o # Idle /\ o.fresh =>
          /\ row[o.task] = Expected(o)
          /\ Orderly(o.task) /\ o.seen.state \notin Living => o.seen.window = None
    /\ o.kind \in Kinds \ {"create", "fork"} => row[o.task].state # "absent"
    /\ GivesUp(o)' => Dead(o.seen.window)'
    /\ ~(o.pc = "state" /\ o.kind \in {"park", "unpark", "relaunch"})

\* ... and what of op[g] must not be forgotten.
Settled(g) ==
    /\ Unrecorded(op[g]) =>
          \/ op[g].task \in torn'
          \/ op[g].pc = "insert" /\ place'[op[g].new] \notin {"active", "parked"}

\* The row of a task that is being thawed names the new window and is dormant.
LEMMA ThawingRow ==
    ASSUME IInv, NEW h \in Goroutines, Thawing(h)
    PROVE  /\ op[h].task \in Tasks /\ op[h].new \in Windows
           /\ row[op[h].task].window = op[h].new
           /\ row[op[h].task].state = "dormant"
  <1>1. /\ op[h] \in Op /\ Shape(op[h]) /\ op[h] # Idle
        /\ row[op[h].task] = Expected(op[h])
        /\ op[h].kind = "wake" /\ op[h].pc = "setstate"
    BY DEF IInv, TypeOK, Shapes, FreshCopies, Thawing, Fresh
  <1>2. row[op[h].task] = [op[h].seen EXCEPT !.window = op[h].new]
    BY <1>1 DEF Expected
  <1>3. op[h].seen.state = "dormant"
    BY <1>1 DEF Shape, Allowed
  <1>. QED BY <1>1, <1>2, <1>3 DEF Shape, Op, Row

\* Windows stay in place where rows, moved windows and fresh copies do.
LEMMA StayInPlace ==
    ASSUME IInv, UNCHANGED row, torn \subseteq torn', UNCHANGED stale,
           \A t \in Tasks, st \in States : InPlace(row[t].window, st) => InPlace(row[t].window, st)',
           \A t \in Tasks, h \in Goroutines :
              /\ Moved(h, t)' => Moved(h, t) /\ op'[h] = op[h]
              /\ Orderly(t)' /\ Moved(h, t) => Moved(h, t)'
    PROVE  MovedWindows'
  <1>. USE DEF IInv
  <1>1. \A t \in Tasks : row[t].state \in Living => row[t].state \in States
    BY DEF Living, States
  <1>2. \A t \in Tasks : Orderly(t)' => Orderly(t)
    BY DEF Orderly
  <1>3. ASSUME NEW t \in Tasks, Orderly(t)', row'[t].state \in Living,
               \A h \in Goroutines : ~Moved(h, t)'
        PROVE  InPlace(row[t].window, row[t].state)'
    <2>1. InPlace(row[t].window, row[t].state)
      BY <1>2, <1>3 DEF MovedWindows
    <2>. QED BY <1>1, <1>3, <2>1
  <1>4. ASSUME NEW t \in Tasks, NEW h \in Goroutines, Orderly(t)', Moved(h, t)', Fresh(h)',
               \A k \in Goroutines \ {h} : ~Moved(k, t)'
        PROVE  InPlace(row[t].window, Target(op[h].kind))'
    <2>1. Moved(h, t) /\ op'[h] = op[h] /\ Fresh(h)
      BY <1>4 DEF Fresh
    <2>2. InPlace(row[t].window, Target(op[h].kind))
      BY <1>2, <1>4, <2>1 DEF MovedWindows
    <2>3. Target(op[h].kind) \in States
      BY DEF Target, States
    <2>4. InPlace(row[t].window, Target(op[h].kind))'
      BY <2>1, <2>2, <2>3
    <2>. QED BY <2>4
  <1>. QED BY <1>3, <1>4 DEF MovedWindows

\* A goroutine that goes on in step with its task, and only ends windows, keeps
\* the invariant.
LEMMA LocalStep ==
    ASSUME IInv, NEW g \in Goroutines, NEW o,
           op' = [op EXCEPT ![g] = o],
           UNCHANGED <<krang, listed, row, owner, restarts, stale>>,
           torn \subseteq torn', torn' \subseteq Tasks,
           OnlyEnds, Sound(g, o), Settled(g)
    PROVE  IInv'
  <1>. USE DEF IInv
  <1>1. op' \in [Goroutines -> Op] /\ op'[g] = o /\ \A h \in Goroutines \ {g} : op'[h] = op[h]
    BY DEF TypeOK, Sound
  <1>2. TypeOK'
    BY <1>1 DEF TypeOK, OnlyEnds
  <1>3. Shapes'
    BY <1>1 DEF Shapes, Sound
  <1>4. Known'
    BY <1>1, Ends DEF Known, Sound, Belongs, TypeOK, Row, Op
  <1>5. FreshCopies'
    BY <1>1 DEF FreshCopies, Fresh, Sound
  <1>6. WholeRows'
    <2>1. ASSUME NEW t \in Tasks, Orderly(t)', row[t].state \notin Living, row[t].window # None
          PROVE  HalfWritten(t)'
      BY <1>1, <2>1 DEF WholeRows, HalfWritten, Orderly, Settled, Unrecorded
    <2>. QED BY <1>1, <2>1 DEF WholeRows, Fresh, Orderly, Sound
  <1>7. GivenUp'
    BY <1>1, Ends DEF GivenUp, Dead, GivesUp, Sound, TypeOK, Op, Row
  <1>8. Hidden'
    <2>. SUFFICES ASSUME NEW h \in Goroutines, op'[h].pc \in {"insert", "setwindow"}
                  PROVE  /\ place'[op'[h].new] \in {"active", "gone"}
                         /\ \A t \in Tasks : row[t].window # op'[h].new
                         /\ \A k \in Goroutines : /\ op'[k].seen.window # op'[h].new
                                                  /\ k # h => op'[k].new # op'[h].new
      BY DEF Hidden
    <2>1. h # g /\ op'[h] = op[h] /\ op[h].new \in Windows
      BY <1>1 DEF Sound, Shape, Shapes, Idle, TypeOK, Op
    <2>2. /\ place[op[h].new] \in {"active", "gone"}
          /\ \A t \in Tasks : row[t].window # op[h].new
          /\ \A k \in Goroutines : /\ op[k].seen.window # op[h].new
                                   /\ k # h => op[k].new # op[h].new
      BY <2>1 DEF Hidden
    <2>. QED BY <1>1, <2>1, <2>2, Ends DEF Sound, NoRow
  <1>9. Thawed'
    <2>. SUFFICES ASSUME NEW h \in Goroutines, Thawing(h)'
                  PROVE  /\ place'[op'[h].new] \in {"active", "gone"}
                         /\ \A k \in Goroutines :
                               op'[k].seen.window = op'[h].new => op'[k].seen.state \notin Living
      BY DEF Thawed
    <2>1. h # g /\ op'[h] = op[h] /\ Thawing(h)
      BY <1>1 DEF Thawing, Fresh, Sound
    <2>2. /\ place[op[h].new] \in {"active", "gone"}
          /\ \A k \in Goroutines :
                op[k].seen.window = op[h].new => op[k].seen.state \notin Living
      BY <2>1 DEF Thawed
    <2>3. op[h].new \in Windows /\ op[h].task \in Tasks
          /\ row[op[h].task].window = op[h].new /\ row[op[h].task].state = "dormant"
      BY <2>1, ThawingRow
    <2>4. ASSUME o.task \in Tasks, o.seen = row[o.task], o.seen.window = op[h].new
          PROVE  o.seen.state \notin Living
      BY <2>3, <2>4 DEF Known, Belongs, Living
    <2>. QED BY <1>1, <2>1, <2>2, <2>3, <2>4, Ends DEF Sound, NoRow
  <1>10. MovedWindows'
    <2>1. \A t \in Tasks, h \in Goroutines : Moved(h, t)' => Moved(h, t) /\ op'[h] = op[h]
      BY <1>1 DEF Moved, Sound
    <2>2. \A t \in Tasks, h \in Goroutines : Orderly(t)' /\ Moved(h, t) => Moved(h, t)'
      BY <1>1 DEF Moved, Orderly, Settled, Unrecorded
    <2>3. \A t \in Tasks, st \in States :
             InPlace(row[t].window, st) => InPlace(row[t].window, st)'
      BY Ends DEF InPlace, Alive, TypeOK, Row
    <2>. QED BY <2>1, <2>2, <2>3, StayInPlace
  <1>11. ActiveHasWindow' /\ ResumableNeverFails' /\ Existing'
    BY <1>1 DEF ActiveHasWindow, ResumableNeverFails, HasWindow, Existing, Sound
  <1>12. NoOrphanWindow'
    <2>. SUFFICES ASSUME NEW w \in Windows, Alive(w)', Orderly(owner[w])', row[owner[w]].window # w
                  PROVE  \E h \in Goroutines : op'[h].task = owner[w] /\ Carries(h, w)'
      BY DEF NoOrphanWindow
    <2>1. Alive(w) /\ Orderly(owner[w])
      BY Ends DEF Orderly
    <2>2. PICK h \in Goroutines : op[h].task = owner[w] /\ Carries(h, w)
      BY <2>1 DEF NoOrphanWindow
    <2>3. h # g
      BY <2>2 DEF Carries, Settled, Unrecorded, Orderly, Alive
    <2>. QED BY <1>1, <2>2, <2>3 DEF Carries
  <1>. QED BY <1>2, <1>3, <1>4, <1>5, <1>6, <1>7, <1>8, <1>9, <1>10, <1>11, <1>12

--------------------------------------------------------------------------------
(* The steps that write no row.                                            *)

\* An operation that returns, having lost nothing it has done.
LEMMA Returning ==
    ASSUME IInv, NEW g \in Goroutines, Return(g),
           UNCHANGED <<krang, listed, row, owner, restarts, stale>>,
           torn \subseteq torn', torn' \subseteq Tasks,
           OnlyEnds, Settled(g)
    PROVE  IInv'
  <1>1. Sound(g, Idle)
    BY DEF Sound, Idle, Op, Row, NoRow, States, Shape, Belongs, GivesUp, Kinds
  <1>. QED BY <1>1, LocalStep DEF Return

\* An operation that gives up before, or instead of, a write.
LEMMA Abandoning ==
    ASSUME IInv, NEW g \in Goroutines, Abandon(g), op[g] # Idle,
           UNCHANGED <<krang, listed, row, place, owner, restarts, stale>>
    PROVE  IInv'
  <1>1. torn' \subseteq Tasks /\ torn \subseteq torn' /\ OnlyEnds
    BY DEF Abandon, IInv, TypeOK, Shapes, Shape, OnlyEnds
  <1>2. Settled(g)
    BY DEF Abandon, Settled
  <1>. QED BY <1>1, <1>2, Returning DEF Abandon

\* An operation that goes on without having recorded or created anything.
LEMMA Going ==
    ASSUME IInv, NEW g \in Goroutines, NEW from, NEW to, op[g].pc = from, Goto(g, to),
           UNCHANGED <<krang, listed, row, owner, restarts, stale>>,
           torn \subseteq torn', torn' \subseteq Tasks,
           OnlyEnds,
           LET ended == op[g].seen.window = None \/ place'[op[g].seen.window] = "gone"
           IN  \/ from = "look" /\ to = "state" /\ ended
               \/ from = "close" /\ to = "closing"
               \/ from = "closing" /\ to = "state" /\ ended
               \/ from = "kill" /\ to = "window" /\ (op[g].task \in torn' \/ ended)
    PROVE  IInv'
  <1>1. op[g] \in Op /\ Shape(op[g]) /\ op[g] # Idle
    BY DEF IInv, TypeOK, Shapes, Idle
  <1>2. PICK o : o = [op[g] EXCEPT !.pc = to]
    OBVIOUS
  <1>3. /\ o \in Op /\ o.kind = op[g].kind /\ o.task = op[g].task /\ o.pc = to
        /\ o.seen = op[g].seen /\ o.new = op[g].new /\ o.fresh = op[g].fresh
    BY <1>1, <1>2 DEF Op, Steps
  <1>4. /\ from = "look" => o.kind = "reconcile"
        /\ from \in {"close", "closing"} => o.kind \in {"dormify", "complete"}
        /\ from = "kill" => o.kind = "relaunch"
    BY <1>1, <1>3 DEF Shape, Course, Kinds
  <1>5. o.pc \in Course(o.kind)
    BY <1>3, <1>4 DEF Course
  <1>6. Shape(o) /\ o.new = None
    BY <1>1, <1>3, <1>4, <1>5 DEF Shape
  <1>7. Expected(o) = Expected(op[g])
    BY <1>1, <1>3, <1>4 DEF Expected
  <1>8. GivesUp(o)' => Dead(o.seen.window)'
    BY <1>3, <1>4 DEF GivesUp, Dead
  <1>9. Sound(g, o)
    BY <1>1, <1>3, <1>4, <1>6, <1>7, <1>8
       DEF Sound, IInv, Known, Existing, FreshCopies, WholeRows, Fresh
  <1>10. Settled(g)
    BY DEF Settled, Unrecorded
  <1>. QED BY <1>2, <1>9, <1>10, LocalStep DEF Goto

\* A window that was given out and is not alive has ended.
LEMMA NotAlive ==
    ASSUME IInv, NEW g \in Goroutines, ~Alive(op[g].seen.window)
    PROVE  Dead(op[g].seen.window)
  BY DEF IInv, TypeOK, Known, Belongs, Alive, Dead, Op, Row

\* Looking for a window, closing and killing it keep the invariant.
LEMMA ClosingPreserves ==
    ASSUME IInv, NEW g \in Goroutines,
           Look(g) \/ Close(g) \/ Closed(g) \/ CloseFails(g) \/ Kill(g) \/ KillFails(g)
    PROVE  IInv'
  <1>1. op[g] \in Op /\ Shape(op[g]) /\ TypeOK
    BY DEF IInv, TypeOK, Shapes
  <1>2. UNCHANGED place => OnlyEnds
    BY <1>1 DEF OnlyEnds, TypeOK
  <1>3. CASE Look(g)
    <2>1. CASE Alive(op[g].seen.window)
      BY <1>1, <1>2, <1>3, <2>1, Returning DEF Look, At, tmux, Settled, Unrecorded, TypeOK
    <2>2. CASE ~Alive(op[g].seen.window)
      BY <1>1, <1>2, <1>3, <2>2, Going, NotAlive DEF Look, At, tmux, Dead, TypeOK
    <2>. QED BY <2>1, <2>2
  <1>4. CASE Close(g)
    <2>1. CASE Alive(op[g].seen.window)
      BY <1>1, <1>2, <1>4, <2>1, Going DEF Close, At, tmux, TypeOK
    <2>2. CASE ~Alive(op[g].seen.window)
      BY <1>1, <1>2, <1>4, <2>2, Returning DEF Close, At, tmux, Settled, Unrecorded, TypeOK
    <2>. QED BY <2>1, <2>2
  <1>5. CASE Closed(g)
    <2>. DEFINE w == op[g].seen.window
    <2>1. w \in Windows /\ place[w] # "unborn"
      BY <1>1, <1>5 DEF Closed, At, Shape, Idle, Op, Row, IInv, Known, Belongs
    <2>2. OnlyEnds /\ place'[w] = "gone"
      BY <1>1, <1>5, <2>1 DEF Closed, OnlyEnds, TypeOK, Alive
    <2>. QED BY <1>1, <1>5, <2>2, Going DEF Closed, At, TypeOK
  <1>6. CASE CloseFails(g)
    BY <1>1, <1>2, <1>6, Returning DEF CloseFails, At, tmux, Settled, Unrecorded, TypeOK
  <1>7. CASE Kill(g)
    <2>. DEFINE w == op[g].seen.window
    <2>1. CASE Alive(w)
      <3>1. w \in Windows
        BY <1>1, <2>1 DEF Alive, Op, Row
      <3>2. OnlyEnds /\ place'[w] = "gone"
        BY <1>1, <1>7, <2>1, <3>1 DEF Kill, OnlyEnds, TypeOK
      <3>. QED BY <1>1, <1>7, <3>2, Going DEF Kill, At, TypeOK
    <2>2. CASE ~Alive(w)
      BY <1>1, <1>2, <1>7, <2>2, Going, NotAlive DEF Kill, At, Dead, TypeOK
    <2>. QED BY <2>1, <2>2
  <1>8. CASE KillFails(g)
    <2>1. torn' \subseteq Tasks /\ torn \subseteq torn' /\ op[g].task \in torn'
      BY <1>1, <1>8 DEF KillFails, At, Shape, Idle, TypeOK
    <2>. QED BY <1>1, <1>2, <1>8, <2>1, Going DEF KillFails, At, tmux
  <1>. QED BY <1>3, <1>4, <1>5, <1>6, <1>7, <1>8

\* A step that fails keeps the invariant.
LEMMA FailingPreserves ==
    ASSUME IInv, NEW g \in Goroutines,
           CreateFails(g) \/ InsertFails(g) \/ StateFails(g) \/ WriteFails(g)
    PROVE  IInv'
  <1>1. op[g] \in Op /\ Shape(op[g]) /\ TypeOK
    BY DEF IInv, TypeOK, Shapes
  <1>2. UNCHANGED place => OnlyEnds
    BY <1>1 DEF OnlyEnds, TypeOK
  <1>3. CASE CreateFails(g)
    BY <1>1, <1>2, <1>3, Returning DEF CreateFails, At, tmux, Settled, Unrecorded, TypeOK
  <1>4. CASE InsertFails(g)
    <2>. DEFINE w == op[g].new
    <2>1. w \in Windows /\ op[g].task \in Tasks
      BY <1>1, <1>4 DEF InsertFails, At, Shape, Idle, Op
    <2>2. CASE torn' = torn \cup {op[g].task} /\ UNCHANGED place
      <3>1. torn' \subseteq Tasks /\ Settled(g)
        BY <1>1, <2>1, <2>2 DEF TypeOK, Settled
      <3>. QED BY <1>2, <1>4, <2>2, <3>1, Returning DEF InsertFails
    <2>3. CASE /\ place' = IF Alive(w) THEN [place EXCEPT ![w] = "gone"] ELSE place
               /\ UNCHANGED torn
      <3>1. OnlyEnds /\ Settled(g)
        BY <1>1, <1>4, <2>1, <2>3 DEF InsertFails, At, OnlyEnds, Settled, TypeOK, Alive
      <3>. QED BY <1>1, <1>4, <2>3, <3>1, Returning DEF InsertFails, TypeOK
    <2>. QED BY <1>4, <2>2, <2>3 DEF InsertFails
  <1>5. CASE StateFails(g)
    BY <1>5, Abandoning DEF StateFails, At, tmux, Idle
  <1>6. CASE WriteFails(g)
    BY <1>6, Abandoning DEF WriteFails, At, tmux, Idle
  <1>. QED BY <1>3, <1>4, <1>5, <1>6

\* An operation starts from a row that it has just read.
LEMMA StartPreserves ==
    ASSUME IInv, NEW g \in Goroutines, NEW kind \in Kinds, NEW t \in Tasks,
           op[g] = Idle, Start(g, kind, t), UNCHANGED <<krang, listed>>,
           IF kind \in {"create", "fork"} THEN row[t].state = "absent"
           ELSE row[t].state # "absent" /\ Allowed(kind, row[t])
    PROVE  IInv'
  <1>1. PICK o : o = [kind |-> kind, task |-> t, pc |-> FirstStep(kind, row[t]),
                      seen |-> row[t], new |-> None, fresh |-> ~HalfWritten(t)]
    OBVIOUS
  <1>2. row[t] \in Row /\ TypeOK
    BY DEF IInv, TypeOK
  <1>3. /\ o.kind = kind /\ o.task = t /\ o.pc = FirstStep(kind, row[t])
        /\ o.seen = row[t] /\ o.new = None /\ o.fresh = ~HalfWritten(t)
    BY <1>1
  <1>4. /\ o.pc \in {"move", "close", "state", "kill", "window", "look"}
        /\ o.pc \in Course(kind)
        /\ o.pc \in {"look", "close", "kill"} => row[t].window # None
        /\ o.pc = "state" => kind \in {"dormify", "complete"} /\ row[t].window = None
        /\ o.pc \in {"kill", "window"} /\ kind = "relaunch" => row[t].state = "active"
        /\ o.pc = "window" /\ kind = "relaunch" => row[t].window = None
    <2>1. CASE kind \in {"create", "fork"}
      BY <1>3, <2>1 DEF FirstStep, Course
    <2>2. CASE kind \in {"park", "unpark"}
      BY <1>3, <2>2 DEF FirstStep, Course
    <2>3. CASE kind \in {"dormify", "complete"}
      BY <1>3, <2>3 DEF FirstStep, Course
    <2>4. CASE kind = "wake"
      BY <1>3, <2>4 DEF FirstStep, Course
    <2>5. CASE kind = "relaunch"
      BY <1>3, <2>5 DEF FirstStep, Course, Allowed, Living
    <2>6. CASE kind = "reconcile"
      BY <1>3, <2>6 DEF FirstStep, Course, Allowed
    <2>. QED BY <2>1, <2>2, <2>3, <2>4, <2>5, <2>6 DEF Kinds
  <1>5. o \in Op
    BY <1>1, <1>2, <1>4 DEF Op, Steps, HalfWritten
  <1>6. Shape(o)
    BY <1>2, <1>3, <1>4 DEF Shape, IInv, Known, NoRow
  <1>7. row[t] = Expected(o)
    <2>1. row[t].state = "active" => row[t] = [row[t] EXCEPT !.state = "active"]
      BY <1>2 DEF Row
    <2>. QED BY <1>3, <1>4, <2>1 DEF Expected
  <1>8. o.fresh /\ Orderly(t) /\ row[t].state \notin Living => row[t].window = None
    BY <1>3 DEF IInv, WholeRows
  <1>9. GivesUp(o)' => Dead(o.seen.window)'
    BY <1>3, <1>4 DEF GivesUp, Dead
  <1>10. Sound(g, o)
    BY <1>3, <1>4, <1>5, <1>6, <1>7, <1>8, <1>9 DEF Sound, IInv, Known
  <1>11. OnlyEnds /\ Settled(g)
    BY <1>2 DEF Start, tmux, OnlyEnds, TypeOK, Settled, Unrecorded, Idle
  <1>. QED BY <1>1, <1>2, <1>10, <1>11, LocalStep DEF Start, tmux, TypeOK

\* Starting an operation keeps the invariant.
LEMMA BeginPreserves ==
    ASSUME IInv, NEW g \in Goroutines, NEW kind \in Kinds, NEW t \in Tasks,
           (kind \notin {"create", "fork"} /\ Begin(g, kind, t))
              \/ (kind \in {"create", "fork"} /\ BeginCreate(g, kind, t))
    PROVE  IInv'
  BY StartPreserves DEF Begin, BeginCreate, Start

--------------------------------------------------------------------------------
(* The steps of tmux and of the process.                                   *)

\* Windows that end disturb nothing.
LEMMA WindowsEnd ==
    ASSUME IInv, OnlyEnds, UNCHANGED <<row, owner, op, stale, torn>>,
           krang' \in {"up", "stopping", "cleaning", "leaving", "down"}, listed' \subseteq Tasks,
           restarts' \in 0..MaxRestarts
    PROVE  IInv'
  <1>. USE DEF IInv
  <1>1. TypeOK'
    BY DEF TypeOK, OnlyEnds
  <1>2. Shapes' /\ FreshCopies' /\ WholeRows' /\ ActiveHasWindow' /\ ResumableNeverFails' /\ Existing'
    BY DEF Shapes, Existing, FreshCopies, Fresh, WholeRows, Orderly, HalfWritten, ActiveHasWindow, HasWindow,
           ResumableNeverFails
  <1>3. Known'
    BY Ends DEF Known, Belongs, TypeOK, Row, Op
  <1>4. GivenUp'
    BY Ends DEF GivenUp, GivesUp, Dead, TypeOK, Op, Row
  <1>5. Hidden'
    <2>1. \A h \in Goroutines : op[h].pc \in {"insert", "setwindow"} => op[h].new \in Windows
      BY DEF Shapes, Shape, Idle, TypeOK, Op
    <2>. QED BY <2>1, Ends DEF Hidden
  <1>6. Thawed'
    <2>1. \A h \in Goroutines : Thawing(h) => op[h].new \in Windows
      BY ThawingRow
    <2>. QED BY <2>1, Ends DEF Thawed, Thawing, Fresh
  <1>7. MovedWindows'
    <2>1. \A t \in Tasks, st \in States :
             InPlace(row[t].window, st) => InPlace(row[t].window, st)'
      BY Ends DEF InPlace, Alive, TypeOK, Row
    <2>. QED BY <2>1 DEF MovedWindows, Moved, Fresh, Orderly, Living, States, Target
  <1>8. NoOrphanWindow'
    BY Ends DEF NoOrphanWindow, Carries, Orderly
  <1>. QED BY <1>1, <1>2, <1>3, <1>4, <1>5, <1>6, <1>7, <1>8

\* Leaving and restarting krang, and windows that die, keep the invariant.
LEMMA ProcessPreserves ==
    ASSUME IInv, Quit \/ ListParked \/ CleanParked \/ Restart \/ \E w \in Windows : WindowDies(w)
    PROVE  IInv'
  <1>1. TypeOK
    BY DEF IInv
  <1>2. UNCHANGED place => OnlyEnds
    BY <1>1 DEF TypeOK, OnlyEnds
  <1>3. CASE Quit
    BY <1>1, <1>2, <1>3, WindowsEnd DEF Quit, tmux, TypeOK
  <1>4. CASE CleanParked
    <2>1. OnlyEnds
      BY <1>1, <1>4 DEF CleanParked, OnlyEnds, TypeOK, Alive
    <2>. QED BY <1>1, <1>4, <2>1, WindowsEnd DEF CleanParked, TypeOK
  <1>5. CASE ListParked
    <2>1. krang' \in {"cleaning", "leaving"} /\ listed' \subseteq Tasks
      BY <1>1, <1>5 DEF ListParked, TypeOK
    <2>2. OnlyEnds /\ UNCHANGED <<row, owner, op, stale, torn>> /\ restarts' \in 0..MaxRestarts
      BY <1>1, <1>2, <1>5 DEF ListParked, tmux, TypeOK
    <2>. QED BY <2>1, <2>2, WindowsEnd
  <1>6. CASE Restart
    <2>1. restarts' \in 0..MaxRestarts
      BY <1>1, <1>6 DEF Restart, TypeOK
    <2>. QED BY <1>1, <1>2, <1>6, <2>1, WindowsEnd DEF Restart, tmux, TypeOK
  <1>7. ASSUME NEW w \in Windows, WindowDies(w) PROVE IInv'
    <2>1. OnlyEnds
      BY <1>1, <1>7 DEF WindowDies, OnlyEnds, TypeOK
    <2>. QED BY <1>1, <1>7, <2>1, WindowsEnd DEF WindowDies, TypeOK
  <1>. QED BY <1>3, <1>4, <1>5, <1>6, <1>7

\* A krang that dies tears what its operations had not recorded.
LEMMA DiePreserves ==
    ASSUME IInv, Die
    PROVE  IInv'
  <1>. USE DEF IInv, Die, tmux
  <1>1. op' = [g \in Goroutines |-> Idle] /\ Idle \in Op
    BY DEF Idle, Op, NoRow, Row, States
  <1>2. \A t \in Tasks : Orderly(t)' =>
           /\ Orderly(t)
           /\ \A g \in Goroutines : op[g].task = t => ~Unrecorded(op[g])
    BY DEF Orderly
  <1>3. TypeOK'
    BY <1>1 DEF TypeOK
  <1>4. Shapes' /\ FreshCopies' /\ GivenUp' /\ Hidden' /\ Thawed'
    BY <1>1 DEF Shapes, Shape, FreshCopies, Fresh, GivenUp, GivesUp, Hidden, Thawed, Thawing, Idle
  <1>5. Known'
    <2>1. \A g \in Goroutines : op'[g].seen.window = None /\ op'[g].new = None
      BY <1>1 DEF Idle, NoRow
    <2>. QED BY <2>1 DEF Known, Belongs, Alive
  <1>6. WholeRows'
    BY <1>1, <1>2 DEF WholeRows, HalfWritten, Unrecorded, Fresh
  <1>7. MovedWindows'
    BY <1>1, <1>2 DEF MovedWindows, Moved, Unrecorded, InPlace, Alive, Idle
  <1>8. ActiveHasWindow' /\ ResumableNeverFails' /\ Existing'
    BY <1>1 DEF ActiveHasWindow, HasWindow, ResumableNeverFails, Existing, Idle, Kinds
  <1>9. NoOrphanWindow'
    BY <1>1, <1>2 DEF NoOrphanWindow, Carries, Unrecorded, Known, Alive
  <1>. QED BY <1>3, <1>4, <1>5, <1>6, <1>7, <1>8, <1>9

\* A window has moved, and only the operation that moved it knows where to.
LEMMA MovePreserves ==
    ASSUME IInv, NEW g \in Goroutines, Move(g)
    PROVE  IInv'
  <1>. USE DEF IInv
  <1>1. op[g] \in Op /\ Shape(op[g]) /\ op[g] # Idle /\ op[g].pc = "move" /\ op[g].task \in Tasks
    BY DEF Move, At, TypeOK, Shapes, Shape, Idle
  <1>2. CASE Return(g) /\ UNCHANGED place
    <2>1. OnlyEnds /\ Settled(g)
      BY <1>1, <1>2 DEF OnlyEnds, TypeOK, Settled, Unrecorded
    <2>. QED BY <1>2, <2>1, Returning DEF Move, TypeOK
  <1>t. PICK t \in Tasks : t = op[g].task
    BY <1>1
  <1>w. PICK w : w = IF op[g].kind = "relaunch" THEN row[t].window ELSE op[g].seen.window
    OBVIOUS
  <1>3. CASE /\ Alive(w) /\ (op[g].kind = "relaunch" => row[t].state = "parked")
             /\ place' = [place EXCEPT ![w] = Target(op[g].kind)]
             /\ Goto(g, "state")
    <2>0. UNCHANGED <<krang, listed, row, owner, restarts, stale, torn>>
      BY DEF Move
    <2>1. /\ op' \in [Goroutines -> Op] /\ \A h \in Goroutines \ {g} : op'[h] = op[h]
          /\ op'[g].kind = op[g].kind /\ op'[g].task = t /\ op'[g].pc = "state"
          /\ op'[g].seen = op[g].seen /\ op'[g].new = op[g].new /\ op'[g].fresh = op[g].fresh
          /\ op'[g].new = None
      BY <1>1, <1>3, <1>t DEF Goto, TypeOK, Op, Steps, Shape
    <2>2. /\ w \in Windows /\ Belongs(w, t) /\ Alive(w) /\ place'[w] = Target(op[g].kind)
          /\ \A v \in Windows \ {w} : place'[v] = place[v]
          /\ \A v \in Windows : Alive(v)' <=> Alive(v)
          /\ place' \in [Windows -> {"unborn", "active", "parked", "gone"}]
      <3>1. w \in Windows \cup {None} /\ Belongs(w, t)
        BY <1>1, <1>t, <1>w DEF TypeOK, Op, Row, Known
      <3>2. w \in Windows /\ Alive(w)
        BY <1>3, <3>1 DEF Alive
      <3>3. Target(op[g].kind) \in {"active", "parked"}
        BY DEF Target
      <3>. QED BY <1>3, <3>1, <3>2, <3>3 DEF Alive, TypeOK
    <2>3. op[g].kind \in {"park", "unpark", "relaunch"}
      BY <1>1 DEF Shape, Course, Kinds
    <2>4. TypeOK'
      BY <2>0, <2>1, <2>2 DEF TypeOK
    <2>5. Shapes'
      <3>1. op'[g].pc \in Course(op'[g].kind)
        BY <2>1, <2>3 DEF Course
      <3>2. Shape(op'[g])
        BY <1>1, <2>1, <2>3, <3>1 DEF Shape
      <3>. QED BY <2>1, <3>2 DEF Shapes
    <2>6. Known'
      <3>1. \A v \in Windows : place[v] # "unborn" => place'[v] # "unborn"
        BY <2>2 DEF Alive
      <3>2. \A v \in Windows \cup {None} : \A s : Belongs(v, s) => Belongs(v, s)'
        BY <2>0, <3>1 DEF Belongs
      <3>3. /\ \A h \in Goroutines : op[h].seen.window \in Windows \cup {None}
                                     /\ op[h].new \in Windows \cup {None}
            /\ \A s \in Tasks : row[s].window \in Windows \cup {None}
        BY DEF TypeOK, Op, Row
      <3>4. \A h \in Goroutines : /\ op'[h].seen = op[h].seen /\ op'[h].new = op[h].new
                                   /\ op'[h].task = op[h].task
        <4>1. \A h \in Goroutines \ {g} : op'[h] = op[h]
          BY <2>1
        <4>2. op'[g].seen = op[g].seen /\ op'[g].new = op[g].new /\ op'[g].task = op[g].task
          BY <2>1, <1>t
        <4>. QED BY <4>1, <4>2
      <3>. QED BY <2>0, <2>2, <3>2, <3>3, <3>4 DEF Known
    <2>7. FreshCopies'
      <3>1. Expected(op'[g]) = op'[g].seen /\ Expected(op[g]) = op[g].seen
        BY <1>1, <2>1 DEF Expected
      <3>. QED BY <1>1, <1>t, <2>0, <2>1, <3>1 DEF FreshCopies, Fresh
    <2>8. WholeRows'
      <3>1. \A s \in Tasks : HalfWritten(s) => HalfWritten(s)'
        BY <2>1, <1>1 DEF HalfWritten
      <3>2. \A h \in Goroutines : /\ Fresh(h)' => Fresh(h)
                                   /\ op'[h].seen = op[h].seen /\ op'[h].task = op[h].task
        <4>1. \A h \in Goroutines \ {g} : op'[h] = op[h]
          BY <2>1
        <4>2. op'[g].seen = op[g].seen /\ op'[g].task = op[g].task /\ (Fresh(g)' => Fresh(g))
          BY <1>1, <1>t, <2>1 DEF Fresh
        <4>. QED BY <4>1, <4>2 DEF Fresh
      <3>. QED BY <2>0, <3>1, <3>2 DEF WholeRows, Orderly
    <2>9. GivenUp'
      BY <2>0, <2>1, <2>2, <2>3, <1>1 DEF GivenUp, GivesUp, Dead, Alive, TypeOK, Op, Row
    <2>10. Hidden'
      <3>1. \A h \in Goroutines : op[h].pc \in {"insert", "setwindow"} => w # op[h].new /\ op[h].new \in Windows
        BY <1>1, <1>w DEF Hidden, Shapes, Shape, Idle, TypeOK, Op
      <3>. QED BY <2>0, <2>1, <2>2, <3>1 DEF Hidden
    <2>11. Thawed'
      <3>. SUFFICES ASSUME NEW h \in Goroutines, Thawing(h)'
                    PROVE  /\ place'[op'[h].new] \in {"active", "gone"}
                           /\ \A k \in Goroutines :
                                 op'[k].seen.window = op'[h].new => op'[k].seen.state \notin Living
        BY DEF Thawed
      <3>1. h # g /\ op'[h] = op[h] /\ Thawing(h)
        BY <2>1 DEF Thawing, Fresh
      <3>2. /\ op[h].task \in Tasks /\ op[h].new \in Windows
            /\ row[op[h].task].window = op[h].new /\ row[op[h].task].state = "dormant"
        BY <3>1, ThawingRow
      <3>3. w # op[h].new
        <4>1. CASE op[g].kind = "relaunch"
          BY <1>3, <1>w, <3>2, <4>1, <2>2 DEF Known, Belongs
        <4>2. CASE op[g].kind \in {"park", "unpark"}
          <5>1. op[g].seen.state \in Living
            BY <1>1, <4>2 DEF Shape, Allowed, Living
          <5>. QED BY <3>1, <4>2, <5>1, <1>w DEF Thawed
        <4>. QED BY <2>3, <4>1, <4>2
      <3>. QED BY <2>1, <2>2, <3>1, <3>2, <3>3 DEF Thawed
    <2>12. MovedWindows'
      <3>1. ASSUME NEW s \in Tasks \ {t}, NEW st \in States, InPlace(row[s].window, st)
            PROVE  InPlace(row[s].window, st)'
        <4>1. row[s].window # w /\ row[s].window \in Windows \cup {None}
          BY <1>1, <2>2 DEF Known, Belongs, TypeOK, Row
        <4>. QED BY <2>0, <2>2, <3>1, <4>1 DEF InPlace, Alive
      <3>2. Moved(g, t)' /\ \A s \in Tasks \ {t} : ~Moved(g, s) /\ ~Moved(g, s)'
        BY <1>t, <2>1, <2>3 DEF Moved
      <3>3. \A h \in Goroutines \ {g}, s \in Tasks : /\ Moved(h, s)' <=> Moved(h, s)
                                                     /\ Fresh(h)' <=> Fresh(h)
        BY <2>1 DEF Moved, Fresh
      <3>4. Fresh(g)' => row[t].window = w
        <4>1. Fresh(g)' => row[t] = op[g].seen
          BY <1>1, <1>t, <2>1 DEF FreshCopies, Fresh, Expected
        <4>. QED BY <4>1, <1>w
      <3>5. ASSUME NEW s \in Tasks, Orderly(s)', row'[s].state \in Living,
                   \A h \in Goroutines : ~Moved(h, s)'
            PROVE  InPlace(row[s].window, row[s].state)'
        <4>1. s # t
          BY <3>2, <3>5
        <4>2. Orderly(s) /\ row[s].state \in Living /\ \A h \in Goroutines : ~Moved(h, s)
          BY <2>0, <3>2, <3>3, <3>5, <4>1 DEF Orderly
        <4>. QED BY <2>0, <3>1, <4>1, <4>2 DEF MovedWindows, Living, States
      <3>6. ASSUME NEW s \in Tasks, NEW h \in Goroutines, Orderly(s)', Moved(h, s)', Fresh(h)',
                   \A k \in Goroutines \ {h} : ~Moved(k, s)'
            PROVE  InPlace(row[s].window, Target(op[h].kind))'
        <4>1. CASE h = g
          BY <2>0, <2>1, <2>2, <3>2, <3>4, <3>6, <4>1 DEF InPlace
        <4>2. CASE h # g
          <5>1. s # t
            BY <3>2, <3>6, <4>2
          <5>2. InPlace(row[s].window, Target(op[h].kind))
            BY <2>0, <3>2, <3>3, <3>6, <4>2, <5>1 DEF MovedWindows, Orderly
          <5>3. op'[h].kind = op[h].kind /\ Target(op[h].kind) \in States
            BY <2>1, <4>2 DEF Target, States
          <5>4. InPlace(row[s].window, Target(op[h].kind))'
            BY <2>0, <3>1, <5>1, <5>2, <5>3
          <5>. QED BY <5>4
        <4>. QED BY <4>1, <4>2
      <3>. QED BY <3>5, <3>6 DEF MovedWindows
    <2>13. ActiveHasWindow' /\ ResumableNeverFails' /\ Existing'
      <3>1. \A h \in Goroutines \ {g} : op'[h] = op[h]
        BY <2>1
      <3>. QED BY <1>t, <2>0, <2>1, <3>1 DEF ActiveHasWindow, HasWindow, ResumableNeverFails, Existing
    <2>14. NoOrphanWindow'
      BY <2>0, <2>1, <2>2, <1>1, <1>t DEF NoOrphanWindow, Carries, Orderly
    <2>. QED BY <2>4, <2>5, <2>6, <2>7, <2>8, <2>9, <2>10, <2>11, <2>12, <2>13, <2>14
  <1>. QED BY <1>2, <1>3, <1>t, <1>w DEF Move

\* A new window is known to its creator, and carried by it to the row.
LEMMA CreatePreserves ==
    ASSUME IInv, NEW g \in Goroutines, NEW w \in Windows, CreateWindow(g, w)
    PROVE  IInv'
  <1>. USE DEF IInv
  <1>1. op[g] \in Op /\ Shape(op[g]) /\ op[g] # Idle /\ op[g].pc = "window"
    BY DEF CreateWindow, At, TypeOK, Shapes, Idle
  <1>t. PICK t \in Tasks : t = op[g].task
    BY <1>1 DEF Shape
  <1>2. PICK o : o = [op[g] EXCEPT !.new = w,
                        !.pc = IF op[g].kind \in {"create", "fork"} THEN "insert" ELSE "setwindow"]
    OBVIOUS
  <1>3. /\ o \in Op /\ o.kind = op[g].kind /\ o.task = t /\ o.new = w
        /\ o.seen = op[g].seen /\ o.fresh = op[g].fresh
        /\ o.pc = IF op[g].kind \in {"create", "fork"} THEN "insert" ELSE "setwindow"
    BY <1>1, <1>2, <1>t DEF Op, Steps
  <1>4. /\ op' \in [Goroutines -> Op] /\ op'[g] = o
        /\ \A h \in Goroutines \ {g} : op'[h] = op[h]
    BY <1>1, <1>2, <1>3 DEF CreateWindow, TypeOK
  <1>5. /\ UNCHANGED <<krang, listed, row, restarts, stale, torn>>
        /\ place[w] = "unborn" /\ place'[w] = "active" /\ owner'[w] = t
        /\ \A v \in Windows \ {w} : place'[v] = place[v] /\ owner'[v] = owner[v]
        /\ place' \in [Windows -> {"unborn", "active", "parked", "gone"}]
        /\ owner' \in [Windows -> Tasks \cup {None}]
    BY <1>t DEF CreateWindow, TypeOK
  <1>6. op[g].kind \in {"create", "fork", "wake", "relaunch"}
    BY <1>1 DEF Shape, Course, Kinds
  <1>7. /\ \A s \in Tasks : row[s].window # w
        /\ \A h \in Goroutines : op[h].seen.window # w /\ op[h].new # w
    BY <1>5 DEF Known, Belongs, NoneAssumption
  <1>8. TypeOK'
    BY <1>4, <1>5 DEF TypeOK
  <1>9. Shapes'
    <2>1. o.pc \in Course(o.kind)
      BY <1>3, <1>6 DEF Course
    <2>2. Shape(o)
      BY <1>1, <1>3, <2>1, <1>t DEF Shape
    <2>. QED BY <1>4, <2>2 DEF Shapes
  <1>10. Known'
    <2>1. \A v \in (Windows \ {w}) \cup {None} : \A s : Belongs(v, s) => Belongs(v, s)'
      BY <1>5 DEF Belongs
    <2>2. Belongs(w, t)'
      BY <1>5 DEF Belongs
    <2>3. /\ \A h \in Goroutines : /\ op[h].seen.window \in (Windows \ {w}) \cup {None}
                                   /\ op[h].new \in (Windows \ {w}) \cup {None}
          /\ \A s \in Tasks : row[s].window \in (Windows \ {w}) \cup {None}
      BY <1>7 DEF TypeOK, Op, Row
    <2>4. \A v \in Windows : Alive(v)' => owner'[v] \in Tasks
      BY <1>5 DEF Known, Alive
    <2>. QED BY <1>3, <1>4, <1>5, <1>t, <2>1, <2>2, <2>3, <2>4 DEF Known
  <1>11. FreshCopies'
    <2>1. Expected(o) = Expected(op[g])
      BY <1>1, <1>3, <1>6 DEF Expected
    <2>. QED BY <1>1, <1>3, <1>4, <1>5, <1>t, <2>1 DEF FreshCopies, Fresh
  <1>12. WholeRows'
    <2>1. \A s \in Tasks : HalfWritten(s) => HalfWritten(s)'
      BY <1>1, <1>4 DEF HalfWritten
    <2>2. \A h \in Goroutines : /\ Fresh(h)' => Fresh(h)
                                 /\ op'[h].seen = op[h].seen /\ op'[h].task = op[h].task
      BY <1>1, <1>3, <1>4, <1>t DEF Fresh
    <2>. QED BY <1>5, <2>1, <2>2 DEF WholeRows, Orderly
  <1>13. GivenUp'
    <2>1. ASSUME NEW h \in Goroutines \ {g}, GivesUp(op[h])'
          PROVE  Dead(op[h].seen.window)'
      <3>1. op'[h] = op[h] /\ GivesUp(op[h])
        BY <1>4, <1>5, <2>1 DEF GivesUp
      <3>2. Dead(op[h].seen.window) /\ op[h].seen.window \in (Windows \ {w}) \cup {None}
        BY <1>7, <3>1 DEF GivenUp, TypeOK, Op, Row
      <3>. QED BY <1>5, <3>1, <3>2 DEF Dead
    <2>2. ASSUME GivesUp(op[g])'
          PROVE  Dead(op[g].seen.window)'
      <3>1. op'[g].seen = op[g].seen /\ GivesUp(op[g])
        BY <1>1, <1>3, <1>4, <1>5, <1>6, <1>t, <2>2 DEF GivesUp
      <3>2. Dead(op[g].seen.window) /\ op[g].seen.window \in (Windows \ {w}) \cup {None}
        BY <1>1, <1>7, <3>1 DEF GivenUp, Op, Row
      <3>. QED BY <1>5, <3>1, <3>2 DEF Dead
    <2>. QED BY <2>1, <2>2 DEF GivenUp
  <1>14. Hidden'
    <2>1. \A h \in Goroutines \ {g} : op[h].pc \in {"insert", "setwindow"} => op[h].new \in Windows \ {w}
      BY <1>7 DEF Shapes, Shape, Idle, TypeOK, Op
    <2>. QED BY <1>3, <1>4, <1>5, <1>7, <2>1 DEF Hidden
  <1>15. Thawed'
    <2>1. \A h \in Goroutines : Thawing(h)' => /\ Thawing(h) /\ op'[h] = op[h]
                                              /\ op[h].new \in Windows \ {w}
      BY <1>3, <1>4, <1>7, ThawingRow DEF Thawing, Fresh
    <2>2. \A h \in Goroutines : op'[h].seen = op[h].seen
      BY <1>3, <1>4
    <2>. QED BY <1>5, <2>1, <2>2 DEF Thawed
  <1>16. MovedWindows'
    <2>1. \A s \in Tasks, st \in States : InPlace(row[s].window, st) => InPlace(row[s].window, st)'
      BY <1>5, <1>7 DEF InPlace, Alive, TypeOK, Row
    <2>2. \A s \in Tasks : ~Moved(g, s) /\ ~Moved(g, s)'
      BY <1>1, <1>3, <1>4 DEF Moved
    <2>3. \A s \in Tasks, h \in Goroutines \ {g} : Moved(h, s)' <=> Moved(h, s)
      BY <1>4 DEF Moved
    <2>. QED BY <1>4, <1>5, <2>1, <2>2, <2>3, StayInPlace
  <1>17. ActiveHasWindow' /\ ResumableNeverFails' /\ Existing'
    BY <1>3, <1>4, <1>5, <1>t DEF ActiveHasWindow, HasWindow, ResumableNeverFails, Existing
  <1>18. NoOrphanWindow'
    <2>. SUFFICES ASSUME NEW v \in Windows, Alive(v)', Orderly(owner[v])', row'[owner'[v]].window # v
                  PROVE  \E h \in Goroutines : op'[h].task = owner'[v] /\ Carries(h, v)'
      BY DEF NoOrphanWindow
    <2>1. CASE v = w
      BY <1>3, <1>4, <1>5, <2>1 DEF Carries
    <2>2. CASE v # w
      <3>1. Alive(v) /\ Orderly(owner[v]) /\ row[owner[v]].window # v /\ owner'[v] = owner[v]
        BY <1>5, <2>2 DEF Alive, Orderly
      <3>2. PICK h \in Goroutines : op[h].task = owner[v] /\ Carries(h, v)
        BY <3>1 DEF NoOrphanWindow
      <3>. QED BY <1>1, <1>4, <3>1, <3>2 DEF Carries
    <2>. QED BY <2>1, <2>2
  <1>. QED BY <1>8, <1>9, <1>10, <1>11, <1>12, <1>13, <1>14, <1>15, <1>16, <1>17, <1>18

--------------------------------------------------------------------------------
(* The steps that write a row.                                             *)

\* What a write of r by g, which goes on as next, must be.  The claims about a
\* task end with the first write from an outdated copy, so most of it is asked
\* of fresh copies only.
SoundWrite(g, t, r, next) ==
    /\ r \in Row /\ r.state # "absent" /\ r.window \in {None, op[g].new, row[t].window}
    /\ next \in Op /\ Shape(next) /\ next.pc \notin {"insert", "setwindow", "state"}
    /\ next = Idle \/ (/\ next.task = t /\ next.seen = op[g].seen /\ next.new = op[g].new
                       /\ next.fresh = op[g].fresh)
    /\ next.pc = "setstate" => op[g].pc = "setwindow"
    /\ GivesUp(next) => Dead(next.seen.window)
    /\ op[g].fresh =>
          /\ next # Idle => r = Expected(next)
          /\ r.state \in Living /\ t \notin stale => r.window # None
          /\ r.state = "failed" /\ t \notin stale => ~r.session
          /\ Orderly(t) =>
                /\ r.state \notin Living => r.window = None \/ next.pc \in {"setstate", "clear"}
                /\ r.state \in Living /\ (\A h \in Goroutines \ {g} : ~Moved(h, t))
                      => InPlace(r.window, r.state)
                /\ Alive(row[t].window) => r.window = row[t].window
                /\ op[g].pc \in {"insert", "setwindow"} => r.window = op[g].new

\* A sound write to the row keeps the invariant.
LEMMA WritePreserves ==
    ASSUME IInv, NEW g \in Goroutines, NEW t \in Tasks, t = op[g].task,
           NEW r, NEW next, Write(g, r, next), SoundWrite(g, t, r, next)
    PROVE  IInv'
  <1>. USE DEF IInv
  <1>1. op[g] \in Op /\ Shape(op[g]) /\ op[g] # Idle
    BY DEF TypeOK, Shapes, Idle
  <1>2. /\ UNCHANGED <<krang, listed, place, owner, restarts, torn>>
        /\ row' \in [Tasks -> Row] /\ row'[t] = r /\ \A s \in Tasks \ {t} : row'[s] = row[s]
        /\ stale' = IF op[g].fresh THEN stale ELSE stale \cup {t}
    BY DEF Write, tmux, TypeOK, SoundWrite
  <1>3. op'[g] = next /\ DOMAIN op' = Goroutines
    BY DEF Write
  <1>4. ASSUME NEW h \in Goroutines \ {g}
        PROVE  /\ op'[h] \in Op /\ op'[h].kind = op[h].kind /\ op'[h].task = op[h].task
               /\ op'[h].pc = op[h].pc /\ op'[h].seen = op[h].seen /\ op'[h].new = op[h].new
               /\ op[h].task # t => op'[h] = op[h]
               /\ op[h].task = t => op'[h].fresh = FALSE
    <2>1. op[h] \in Op /\ op'[h] = IF op[h].task = t THEN [op[h] EXCEPT !.fresh = FALSE] ELSE op[h]
      BY DEF Write, TypeOK
    <2>. QED BY <2>1 DEF Op
  <1>5. \A s \in Tasks : Orderly(s)' => Orderly(s) /\ (s = t => op[g].fresh)
    BY <1>2 DEF Orderly
  <1>6. \A s \in Tasks : s \notin stale' => s \notin stale /\ (s = t => op[g].fresh)
    BY <1>2
  <1>7. ASSUME NEW h \in Goroutines, Fresh(h)'
        PROVE  IF h = g THEN next # Idle /\ op[g].fresh /\ next.task = t
               ELSE op'[h] = op[h] /\ op[h].task # t /\ Fresh(h)
    <2>1. CASE h # g
      <3>1. op'[h].fresh
        BY <1>7 DEF Fresh
      <3>2. op[h].task # t /\ op'[h] = op[h]
        BY <1>4, <2>1, <3>1
      <3>. QED BY <1>7, <2>1, <3>2 DEF Fresh
    <2>2. CASE h = g
      <3>1. next # Idle /\ next.fresh
        BY <1>3, <1>7, <2>2 DEF Fresh
      <3>. QED BY <2>2, <3>1 DEF SoundWrite
    <2>. QED BY <2>1, <2>2
  <1>8. TypeOK'
    <2>1. op' \in [Goroutines -> Op]
      BY <1>3, <1>4 DEF Write, SoundWrite
    <2>. QED BY <1>2, <2>1 DEF TypeOK
  <1>9. Shapes'
    <2>1. ASSUME NEW h \in Goroutines \ {g} PROVE Shape(op'[h])
      <3>1. CASE op[h].task = t
        <4>1. op[h] # Idle /\ Shape(op[h])
          BY <3>1 DEF Shapes, Idle
        <4>2. /\ op'[h].kind = op[h].kind /\ op'[h].task = op[h].task /\ op'[h].pc = op[h].pc
              /\ op'[h].seen = op[h].seen /\ op'[h].new = op[h].new
          BY <1>4
        <4>. QED BY <4>1, <4>2 DEF Shape
      <3>2. CASE op[h].task # t
        BY <1>4, <3>2 DEF Shapes
      <3>. QED BY <3>1, <3>2
    <2>. QED BY <1>3, <2>1 DEF Shapes, SoundWrite
  <1>10. Known'
    <2>1. \A w, s : Belongs(w, s) <=> Belongs(w, s)'
      BY <1>2 DEF Belongs
    <2>2. Belongs(r.window, t)
      BY DEF SoundWrite, Known, Belongs
    <2>3. Belongs(next.seen.window, next.task) /\ Belongs(next.new, next.task)
      BY DEF SoundWrite, Known, Belongs, Idle, NoRow
    <2>4. \A h \in Goroutines : Belongs(op'[h].seen.window, op'[h].task) /\ Belongs(op'[h].new, op'[h].task)
      BY <1>3, <1>4, <2>3 DEF Known
    <2>5. \A s \in Tasks : Belongs(row'[s].window, s) /\ (row'[s].state = "absent" => row'[s] = NoRow)
      BY <1>2, <2>2 DEF Known, SoundWrite
    <2>. QED BY <1>2, <2>1, <2>4, <2>5 DEF Known, Alive
  <1>11. FreshCopies'
    BY <1>2, <1>3, <1>7 DEF FreshCopies, SoundWrite, Fresh, Shapes, Shape
  <1>12. WholeRows'
    <2>1. ASSUME NEW s \in Tasks, Orderly(s)', row'[s].state \notin Living, row'[s].window # None
          PROVE  HalfWritten(s)'
      <3>1. CASE s = t
        BY <1>2, <1>3, <1>5, <2>1, <3>1 DEF SoundWrite, HalfWritten, Idle
      <3>2. CASE s # t
        <4>1. HalfWritten(s)
          BY <1>2, <1>5, <2>1, <3>2 DEF WholeRows
        <4>2. PICK h \in Goroutines : op[h].task = s /\ op[h].pc \in {"setstate", "clear"}
          BY <4>1 DEF HalfWritten
        <4>3. op'[h].task = s /\ op'[h].pc \in {"setstate", "clear"}
          BY <1>4, <3>2, <4>2
        <4>. QED BY <4>3 DEF HalfWritten
      <3>. QED BY <3>1, <3>2
    <2>2. ASSUME NEW h \in Goroutines, Fresh(h)', Orderly(op[h].task)', op'[h].seen.state \notin Living
          PROVE  op'[h].seen.window = None
      <3>1. Orderly(op[h].task) /\ op'[h].task = op[h].task /\ Fresh(h) /\ op'[h].seen = op[h].seen
        <4>1. CASE h = g
          BY <1>1, <1>2, <1>3, <1>5, <1>7, <2>2, <4>1 DEF SoundWrite, Fresh
        <4>2. CASE h # g
          BY <1>2, <1>7, <2>2, <4>2 DEF Orderly
        <4>. QED BY <4>1, <4>2
      <3>. QED BY <2>2, <3>1 DEF WholeRows
    <2>. QED BY <2>1, <2>2 DEF WholeRows, Orderly
  <1>13. GivenUp'
    <2>1. ASSUME NEW h \in Goroutines \ {g}, GivesUp(op[h])' PROVE Dead(op[h].seen.window)'
      <3>1. GivesUp(op[h])
        BY <1>2, <1>4, <2>1 DEF GivesUp
      <3>2. Dead(op[h].seen.window) /\ op'[h].seen = op[h].seen
        BY <1>4, <3>1 DEF GivenUp
      <3>. QED BY <1>2, <3>2 DEF Dead
    <2>2. ASSUME GivesUp(next)' PROVE Dead(next.seen.window)'
      BY <1>2, <2>2 DEF SoundWrite, GivesUp, Dead
    <2>. QED BY <1>3, <2>1, <2>2 DEF GivenUp, GivesUp, Dead
  <1>14. Hidden'
    <2>. SUFFICES ASSUME NEW h \in Goroutines, op'[h].pc \in {"insert", "setwindow"}
                  PROVE  /\ place'[op'[h].new] \in {"active", "gone"}
                         /\ \A s \in Tasks : row'[s].window # op'[h].new
                         /\ \A k \in Goroutines : /\ op'[k].seen.window # op'[h].new
                                                  /\ k # h => op'[k].new # op'[h].new
      BY DEF Hidden
    <2>1. h # g
      BY <1>3 DEF SoundWrite
    <2>2. op'[h].new = op[h].new /\ op[h].pc \in {"insert", "setwindow"}
      BY <1>4, <2>1
    <2>3. op[h].new \in Windows
      BY <2>2 DEF Shapes, Shape, Idle, TypeOK, Op
    <2>4. /\ place[op[h].new] \in {"active", "gone"}
          /\ \A s \in Tasks : row[s].window # op[h].new
          /\ \A k \in Goroutines : /\ op[k].seen.window # op[h].new
                                   /\ k # h => op[k].new # op[h].new
      BY <2>2 DEF Hidden
    <2>5. \A s \in Tasks : row'[s].window # op[h].new
      BY <1>2, <2>1, <2>3, <2>4 DEF SoundWrite
    <2>6. ASSUME NEW k \in Goroutines
          PROVE  op'[k].seen.window # op[h].new /\ (k # h => op'[k].new # op[h].new)
      <3>1. CASE k = g
        BY <1>3, <2>1, <2>3, <2>4, <3>1 DEF SoundWrite, Idle, NoRow
      <3>2. CASE k # g
        BY <1>4, <2>4, <3>2
      <3>. QED BY <3>1, <3>2
    <2>. QED BY <1>2, <2>2, <2>4, <2>5, <2>6
  <1>15. Thawed'
    <2>. SUFFICES ASSUME NEW h \in Goroutines, Thawing(h)'
                  PROVE  /\ place'[op'[h].new] \in {"active", "gone"}
                         /\ \A k \in Goroutines :
                               op'[k].seen.window = op'[h].new => op'[k].seen.state \notin Living
      BY DEF Thawed
    <2>0. ASSUME NEW k \in Goroutines PROVE op'[k].seen \in {op[k].seen, NoRow}
      <3>1. CASE k = g
        BY <1>3, <3>1 DEF SoundWrite, Idle
      <3>2. CASE k # g
        BY <1>4, <3>2
      <3>. QED BY <3>1, <3>2
    <2>1. CASE h = g
      <3>1. next.pc = "setstate" /\ next # Idle
        BY <1>3, <2>1 DEF Thawing, Fresh
      <3>2. op[g].pc = "setwindow" /\ next.new = op[g].new /\ op[g].new \in Windows
        BY <1>1, <3>1 DEF SoundWrite, Shape, Op
      <3>3. /\ place[op[g].new] \in {"active", "gone"}
            /\ \A k \in Goroutines : op[k].seen.window # op[g].new
        BY <3>2 DEF Hidden
      <3>. QED BY <1>2, <1>3, <2>0, <2>1, <3>2, <3>3 DEF NoRow
    <2>2. CASE h # g
      <3>1. op'[h] = op[h] /\ Thawing(h)
        BY <1>7, <2>2 DEF Thawing
      <3>2. op[h].new \in Windows
        BY <3>1, ThawingRow
      <3>3. /\ place[op[h].new] \in {"active", "gone"}
            /\ \A k \in Goroutines :
                  op[k].seen.window = op[h].new => op[k].seen.state \notin Living
        BY <3>1 DEF Thawed
      <3>. QED BY <1>2, <2>0, <3>1, <3>2, <3>3 DEF NoRow
    <2>. QED BY <2>1, <2>2
  <1>16. MovedWindows'
    <2>1. \A s \in Tasks, h \in Goroutines \ {g} : Moved(h, s)' <=> Moved(h, s)
      BY <1>4 DEF Moved
    <2>2. \A s \in Tasks : ~Moved(g, s)' /\ (s # t => ~Moved(g, s))
      BY <1>3 DEF Moved, SoundWrite
    <2>3. \A w, st : InPlace(w, st)' <=> InPlace(w, st)
      BY <1>2 DEF InPlace, Alive
    <2>4. ASSUME NEW s \in Tasks, Orderly(s)', row'[s].state \in Living,
                 \A h \in Goroutines : ~Moved(h, s)'
          PROVE  InPlace(row'[s].window, row'[s].state)
      <3>1. CASE s = t
        BY <1>2, <1>5, <2>1, <2>4, <3>1 DEF SoundWrite
      <3>2. CASE s # t
        <4>1. /\ Orderly(s) /\ row'[s] = row[s] /\ \A h \in Goroutines : ~Moved(h, s)
          BY <1>2, <1>5, <2>1, <2>2, <2>4, <3>2
        <4>. QED BY <2>4, <4>1 DEF MovedWindows
      <3>. QED BY <3>1, <3>2
    <2>5. ASSUME NEW s \in Tasks, NEW h \in Goroutines, Orderly(s)', Moved(h, s)', Fresh(h)',
                 \A k \in Goroutines \ {h} : ~Moved(k, s)'
          PROVE  InPlace(row'[s].window, Target(op'[h].kind))
      <3>1. h # g /\ op'[h] = op[h] /\ op[h].task # t /\ Fresh(h) /\ Moved(h, s)
        BY <1>7, <2>1, <2>2, <2>5
      <3>2. s # t /\ row'[s] = row[s] /\ Orderly(s)
        BY <1>2, <1>5, <2>5, <3>1 DEF Moved
      <3>3. \A k \in Goroutines \ {h} : ~Moved(k, s)
        BY <2>1, <2>2, <2>5, <3>1, <3>2
      <3>. QED BY <3>1, <3>2, <3>3 DEF MovedWindows
    <2>7. \A s \in Tasks, h \in Goroutines :
             InPlace(row[s].window, Target(op[h].kind))' <=> InPlace(row'[s].window, Target(op'[h].kind))
      BY <1>2 DEF InPlace, Alive, Target
    <2>. QED BY <1>2, <2>3, <2>4, <2>5, <2>7 DEF MovedWindows, InPlace, Alive
  <1>17. ActiveHasWindow' /\ ResumableNeverFails' /\ Existing'
    <2>1. ActiveHasWindow' /\ ResumableNeverFails'
      BY <1>2, <1>6 DEF ActiveHasWindow, HasWindow, ResumableNeverFails, SoundWrite
    <2>2. \A s \in Tasks : row[s].state # "absent" => row'[s].state # "absent"
      BY <1>2 DEF SoundWrite
    <2>3. ASSUME NEW h \in Goroutines, op'[h].kind \in Kinds \ {"create", "fork"}
          PROVE  row'[op'[h].task].state # "absent"
      <3>1. CASE h = g
        BY <1>2, <1>3, <2>3, <3>1 DEF SoundWrite, Idle, Kinds
      <3>2. CASE h # g
        <4>1. op[h].task \in Tasks /\ op'[h].task = op[h].task /\ op'[h].kind = op[h].kind
          <5>1. op'[h].task = op[h].task /\ op'[h].kind = op[h].kind
            BY <1>4, <3>2
          <5>2. op[h] # Idle
            BY <2>3, <5>1 DEF Idle, Kinds
          <5>. QED BY <5>1, <5>2 DEF Shapes, Shape
        <4>. QED BY <2>2, <2>3, <4>1 DEF Existing
      <3>. QED BY <3>1, <3>2
    <2>. QED BY <2>1, <2>3 DEF Existing
  <1>18. NoOrphanWindow'
    <2>. SUFFICES ASSUME NEW w \in Windows, Alive(w), Orderly(owner[w])', row'[owner[w]].window # w
                  PROVE  \E h \in Goroutines : op'[h].task = owner[w] /\ Carries(h, w)'
      BY <1>2 DEF NoOrphanWindow, Alive
    <2>0. owner[w] \in Tasks /\ Orderly(owner[w])
      BY <1>2, <1>5 DEF Known, Orderly
    <2>1. row[owner[w]].window # w
      BY <1>2, <1>5, <2>0 DEF SoundWrite
    <2>2. PICK h \in Goroutines : op[h].task = owner[w] /\ Carries(h, w)
      BY <2>0, <2>1 DEF NoOrphanWindow
    <2>3. h # g
      BY <1>2, <1>5, <2>0, <2>2 DEF SoundWrite, Carries
    <2>. QED BY <1>4, <2>2, <2>3 DEF Carries
  <1>. QED BY <1>8, <1>9, <1>10, <1>11, <1>12, <1>13, <1>14, <1>15, <1>16, <1>17, <1>18

\* The first row of a task.
LEMMA InsertPreserves ==
    ASSUME IInv, NEW g \in Goroutines, Insert(g)
    PROVE  IInv'
  <1>. USE DEF IInv
  <1>1. op[g] \in Op /\ Shape(op[g]) /\ op[g] # Idle /\ op[g].pc = "insert"
    BY DEF Insert, At, TypeOK, Shapes, Idle
  <1>2. PICK t \in Tasks : t = op[g].task
    BY <1>1 DEF Shape
  <1>3. PICK r : r = [state |-> "active", window |-> op[g].new, session |-> op[g].kind = "create"]
    OBVIOUS
  <1>4. op[g].new \in Windows /\ op[g].seen = NoRow /\ op[g].kind \in {"create", "fork"}
    BY <1>1 DEF Shape, Course, Kinds, Op
  <1>5. op[g].fresh => row[t].window = None
    <2>1. Expected(op[g]) = NoRow
      BY <1>1, <1>4 DEF Expected
    <2>. QED BY <1>1, <1>2, <2>1 DEF FreshCopies, Fresh, NoRow
  <1>6. InPlace(r.window, "active")
    BY <1>1, <1>3 DEF Hidden, InPlace, Alive
  <1>7. Shape(Idle) /\ Idle \in Op /\ ~GivesUp(Idle)
    BY DEF Shape, Idle, Op, NoRow, Row, States, GivesUp
  <1>8. SoundWrite(g, t, r, Idle)
    BY <1>1, <1>3, <1>4, <1>5, <1>6, <1>7 DEF SoundWrite, Row, States, Living, Alive, Idle
  <1>. QED BY <1>2, <1>3, <1>8, WritePreserves DEF Insert

\* The row comes to name the new window; no window is lost to it.
LEMMA SetWindowPreserves ==
    ASSUME IInv, NEW g \in Goroutines, SetWindow(g)
    PROVE  IInv'
  <1>. USE DEF IInv
  <1>1. op[g] \in Op /\ Shape(op[g]) /\ op[g] # Idle /\ op[g].pc = "setwindow"
    BY DEF SetWindow, At, TypeOK, Shapes, Idle
  <1>2. PICK t \in Tasks : t = op[g].task
    BY <1>1 DEF Shape
  <1>3. PICK r : r = [row[t] EXCEPT !.window = op[g].new]
    OBVIOUS
  <1>4. PICK next : next = [op[g] EXCEPT !.pc = "setstate"]
    OBVIOUS
  <1>5. /\ op[g].new \in Windows /\ row[t] \in Row /\ row[t].state # "absent"
        /\ op[g].kind \in {"wake", "relaunch"}
    BY <1>1, <1>2 DEF Shape, Course, Kinds, Op, TypeOK, Existing
  <1>6. /\ r \in Row /\ r.state = row[t].state /\ r.window = op[g].new /\ r.session = row[t].session
    BY <1>3, <1>5 DEF Row
  <1>7. /\ next \in Op /\ next.kind = op[g].kind /\ next.task = t /\ next.pc = "setstate"
        /\ next.seen = op[g].seen /\ next.new = op[g].new /\ next.fresh = op[g].fresh
        /\ next # Idle
    BY <1>1, <1>2, <1>4 DEF Op, Steps, Idle
  <1>8. Shape(next)
    <2>1. next.pc \in Course(next.kind)
      BY <1>5, <1>7 DEF Course
    <2>. QED BY <1>1, <1>2, <1>5, <1>7, <2>1 DEF Shape
  <1>9. GivesUp(next) => Dead(next.seen.window)
    BY <1>1, <1>2, <1>5, <1>7 DEF GivenUp, GivesUp
  <1>10. op[g].fresh => row[t] = Expected(op[g])
    BY <1>1, <1>2 DEF FreshCopies, Fresh
  <1>11. op[g].fresh => r = Expected(next)
    BY <1>1, <1>3, <1>5, <1>7, <1>10 DEF Expected
  <1>12. op[g].seen \in Row
    BY <1>1 DEF Op
  <1>13. ASSUME op[g].fresh, Orderly(t)
         PROVE  /\ r.state \in Living => InPlace(r.window, r.state)
                /\ ~Alive(row[t].window)
    <2>1. CASE op[g].kind = "wake"
      <3>1. row[t] = op[g].seen /\ op[g].seen.state = "dormant"
        BY <1>1, <1>10, <1>13, <2>1 DEF Expected, Shape, Allowed
      <3>2. op[g].seen.window = None
        BY <1>1, <1>2, <1>13, <3>1 DEF WholeRows, Fresh, Living
      <3>. QED BY <1>6, <3>1, <3>2 DEF Living, Alive
    <2>2. CASE op[g].kind = "relaunch"
      <3>1. row[t].state = "active" /\ row[t].window = op[g].seen.window
        BY <1>1, <1>10, <1>12, <1>13, <2>2 DEF Expected, Row
      <3>2. Dead(op[g].seen.window)
        BY <1>1, <1>2, <1>13, <2>2 DEF GivenUp, GivesUp, Orderly
      <3>. QED BY <1>1, <1>6, <3>1, <3>2 DEF Hidden, InPlace, Alive, Dead
    <2>. QED BY <1>5, <2>1, <2>2
  <1>14. SoundWrite(g, t, r, next)
    BY <1>1, <1>5, <1>6, <1>7, <1>8, <1>9, <1>11, <1>13 DEF SoundWrite, ResumableNeverFails
  <1>. QED BY <1>2, <1>3, <1>4, <1>14, WritePreserves DEF SetWindow

\* A thawed or relaunched task is active, with the window it has been given.
LEMMA SetActivePreserves ==
    ASSUME IInv, NEW g \in Goroutines, SetActive(g)
    PROVE  IInv'
  <1>. USE DEF IInv
  <1>1. op[g] \in Op /\ Shape(op[g]) /\ op[g] # Idle /\ op[g].pc = "setstate"
    BY DEF SetActive, At, TypeOK, Shapes, Idle
  <1>2. PICK t \in Tasks : t = op[g].task
    BY <1>1 DEF Shape
  <1>3. PICK r : r = [row[t] EXCEPT !.state = "active"]
    OBVIOUS
  <1>4. /\ op[g].new \in Windows /\ row[t] \in Row /\ op[g].seen \in Row
        /\ op[g].kind \in {"wake", "relaunch"}
    BY <1>1, <1>2 DEF Shape, Course, Kinds, Op, TypeOK
  <1>5. r \in Row /\ r.state = "active" /\ r.window = row[t].window /\ r.session = row[t].session
    BY <1>3, <1>4 DEF Row, States
  <1>6. op[g].fresh => row[t] = Expected(op[g])
    BY <1>1, <1>2 DEF FreshCopies, Fresh
  <1>7. op[g].fresh => /\ row[t].window = op[g].new
                       /\ op[g].kind = "relaunch" => row[t].state = "active"
    BY <1>1, <1>4, <1>6 DEF Expected, Row
  <1>8. ASSUME op[g].fresh, Orderly(t), \A h \in Goroutines \ {g} : ~Moved(h, t)
        PROVE  InPlace(r.window, "active")
    <2>1. CASE op[g].kind = "wake"
      BY <1>1, <1>5, <1>7, <1>8, <2>1 DEF Thawed, Thawing, Fresh, InPlace, Alive
    <2>2. CASE op[g].kind = "relaunch"
      <3>1. \A h \in Goroutines : ~Moved(h, t)
        BY <1>1, <1>8 DEF Moved
      <3>2. InPlace(row[t].window, row[t].state)
        BY <1>7, <1>8, <2>2, <3>1 DEF MovedWindows, Living
      <3>. QED BY <1>5, <1>7, <1>8, <2>2, <3>2
    <2>. QED BY <1>4, <2>1, <2>2
  <1>9. Shape(Idle) /\ Idle \in Op /\ ~GivesUp(Idle)
    BY DEF Shape, Idle, Op, NoRow, Row, States, GivesUp
  <1>10. SoundWrite(g, t, r, Idle)
    BY <1>1, <1>4, <1>5, <1>7, <1>8, <1>9 DEF SoundWrite, Living, Idle
  <1>. QED BY <1>2, <1>3, <1>10, WritePreserves DEF SetActive

\* The state follows the window: it has moved, or it has ended.
LEMMA SetStatePreserves ==
    ASSUME IInv, NEW g \in Goroutines, SetState(g)
    PROVE  IInv'
  <1>. USE DEF IInv
  <1>1. op[g] \in Op /\ Shape(op[g]) /\ op[g] # Idle /\ op[g].pc = "state"
    BY DEF SetState, At, TypeOK, Shapes, Idle
  <1>2. PICK t \in Tasks : t = op[g].task
    BY <1>1 DEF Shape
  <1>3. PICK r : r = [row[t] EXCEPT !.state = NewState(op[g])]
    OBVIOUS
  <1>4. PICK next : next = AfterState(op[g])
    OBVIOUS
  <1>5. /\ row[t] \in Row /\ op[g].seen \in Row /\ op[g].new = None
        /\ op[g].kind \in {"park", "unpark", "relaunch", "dormify", "complete", "reconcile"}
    BY <1>1 DEF Shape, Course, Kinds, Op, TypeOK
  <1>6. /\ NewState(op[g]) \in States \ {"absent"}
        /\ IF op[g].kind \in {"park", "unpark", "relaunch"}
           THEN NewState(op[g]) \in Living /\ NewState(op[g]) = Target(op[g].kind)
           ELSE NewState(op[g]) \notin Living
        /\ NewState(op[g]) = "failed" => op[g].kind = "reconcile" /\ ~op[g].seen.session
    BY <1>5 DEF NewState, States, Living, Target
  <1>7. /\ r \in Row /\ r.state = NewState(op[g])
        /\ r.window = row[t].window /\ r.session = row[t].session
    BY <1>3, <1>5, <1>6 DEF Row
  <1>8. IF op[g].kind \in {"park", "unpark"} THEN next = Idle
        ELSE /\ next \in Op /\ next.kind = op[g].kind /\ next.task = t
             /\ next.seen = op[g].seen /\ next.new = None /\ next.fresh = op[g].fresh
             /\ next # Idle
             /\ next.pc = IF op[g].kind # "relaunch" THEN "clear"
                          ELSE IF op[g].seen.window # None THEN "kill" ELSE "window"
    <2>1. CASE op[g].kind \in {"park", "unpark"}
      BY <1>4, <2>1 DEF AfterState
    <2>2. CASE op[g].kind = "relaunch"
      BY <1>1, <1>2, <1>4, <1>5, <2>2 DEF AfterState, Op, Steps, Idle
    <2>3. CASE op[g].kind \in {"dormify", "complete", "reconcile"}
      BY <1>1, <1>2, <1>4, <1>5, <2>3 DEF AfterState, Op, Steps, Idle
    <2>. QED BY <1>5, <2>1, <2>2, <2>3
  <1>9. next \in Op /\ Shape(next) /\ next.pc \notin {"insert", "setwindow", "state", "setstate"}
    <2>1. CASE op[g].kind \in {"park", "unpark"}
      <3>1. Idle \in Op /\ Idle.pc = "none"
        BY DEF Idle, Op, NoRow, Row, States
      <3>. QED BY <1>8, <2>1, <3>1 DEF Shape
    <2>2. CASE op[g].kind \notin {"park", "unpark"}
      <3>1. next.pc \in Course(next.kind)
        BY <1>5, <1>8, <2>2 DEF Course
      <3>. QED BY <1>1, <1>2, <1>5, <1>8, <2>2, <3>1 DEF Shape
    <2>. QED BY <2>1, <2>2
  <1>10. GivesUp(next) => Dead(next.seen.window)
    <2>1. CASE op[g].kind \in {"park", "unpark"}
      BY <1>8, <2>1 DEF GivesUp, Idle
    <2>2. CASE op[g].kind = "relaunch"
      BY <1>8, <2>2 DEF GivesUp, Dead
    <2>3. CASE op[g].kind \in {"dormify", "complete", "reconcile"}
      BY <1>1, <1>8, <2>3 DEF GivenUp, GivesUp
    <2>. QED BY <1>5, <2>1, <2>2, <2>3
  <1>11. op[g].fresh => row[t] = op[g].seen
    BY <1>1, <1>2 DEF FreshCopies, Fresh, Expected
  <1>12. op[g].fresh /\ next # Idle => r = Expected(next)
    <2>1. CASE op[g].kind = "relaunch"
      BY <1>3, <1>8, <1>11, <2>1 DEF Expected, NewState
    <2>2. CASE op[g].kind \in {"dormify", "complete", "reconcile"}
      <3>1. NewState(next) = NewState(op[g])
        BY <1>8, <2>2 DEF NewState
      <3>. QED BY <1>3, <1>8, <1>11, <2>2, <3>1 DEF Expected
    <2>. QED BY <1>5, <1>8, <2>1, <2>2
  <1>13. op[g].fresh /\ t \notin stale =>
            /\ r.state \in Living => r.window # None
            /\ r.state = "failed" => ~r.session
    <2>1. op[g].kind \in {"park", "unpark", "relaunch"} => op[g].seen.state \in Living
      BY <1>1 DEF Shape, Allowed, Living
    <2>. QED BY <1>6, <1>7, <1>11, <2>1 DEF ActiveHasWindow, HasWindow
  <1>14. ASSUME op[g].fresh, Orderly(t), r.state \in Living, \A h \in Goroutines \ {g} : ~Moved(h, t)
         PROVE  InPlace(r.window, r.state)
    <2>1. op[g].kind \in {"park", "unpark", "relaunch"}
      BY <1>5, <1>6, <1>7, <1>14
    <2>2. Moved(g, t) /\ Fresh(g)
      BY <1>1, <1>2, <1>14, <2>1 DEF Moved, Fresh
    <2>. QED BY <1>6, <1>7, <1>14, <2>1, <2>2 DEF MovedWindows
  <1>15. op[g].fresh /\ r.state \notin Living => next.pc = "clear"
    BY <1>5, <1>6, <1>7, <1>8
  <1>16. SoundWrite(g, t, r, next)
    BY <1>1, <1>2, <1>5, <1>6, <1>7, <1>8, <1>9, <1>10, <1>12, <1>13, <1>14, <1>15 DEF SoundWrite
  <1>. QED BY <1>2, <1>3, <1>4, <1>16, WritePreserves DEF SetState

\* A window is forgotten once it has ended.
LEMMA ClearPreserves ==
    ASSUME IInv, NEW g \in Goroutines, Clear(g)
    PROVE  IInv'
  <1>. USE DEF IInv
  <1>1. op[g] \in Op /\ Shape(op[g]) /\ op[g] # Idle /\ op[g].pc = "clear"
    BY DEF Clear, At, TypeOK, Shapes, Idle
  <1>2. PICK t \in Tasks : t = op[g].task
    BY <1>1 DEF Shape
  <1>3. PICK r : r = [row[t] EXCEPT !.window = None]
    OBVIOUS
  <1>4. /\ row[t] \in Row /\ op[g].seen \in Row /\ row[t].state # "absent"
        /\ op[g].kind \in {"dormify", "complete", "reconcile"}
    BY <1>1, <1>2 DEF Shape, Course, Kinds, Op, TypeOK, Existing
  <1>5. r \in Row /\ r.state = row[t].state /\ r.window = None /\ r.session = row[t].session
    BY <1>3, <1>4 DEF Row
  <1>6. NewState(op[g]) \in States \ Living
    BY <1>4 DEF NewState, States, Living
  <1>7. op[g].fresh => row[t] = [op[g].seen EXCEPT !.state = NewState(op[g])]
    BY <1>1, <1>2 DEF FreshCopies, Fresh, Expected
  <1>8. op[g].fresh => r.state \notin Living /\ row[t].window = op[g].seen.window
    BY <1>4, <1>5, <1>6, <1>7 DEF Row
  <1>9. ~Alive(op[g].seen.window)
    BY <1>1, <1>4 DEF GivenUp, GivesUp, Dead, Alive
  <1>10. Shape(Idle) /\ Idle \in Op /\ ~GivesUp(Idle)
    BY DEF Shape, Idle, Op, NoRow, Row, States, GivesUp
  <1>11. SoundWrite(g, t, r, Idle)
    BY <1>1, <1>4, <1>5, <1>8, <1>9, <1>10 DEF SoundWrite, ResumableNeverFails, Idle
  <1>. QED BY <1>2, <1>3, <1>11, WritePreserves DEF Clear

\* A session is imported under an id that no operation knows.
LEMMA ImportPreserves ==
    ASSUME IInv, NEW t \in Tasks, Import(t)
    PROVE  IInv'
  <1>. USE DEF IInv
  <1>1. /\ UNCHANGED <<krang, listed, place, owner, op, restarts, stale, torn>>
        /\ row' \in [Tasks -> Row] /\ \A s \in Tasks \ {t} : row'[s] = row[s]
        /\ row'[t].state = "dormant" /\ row'[t].window = None
        /\ row[t] = NoRow
        /\ \A g \in Goroutines : op[g].task # t
    BY DEF Import, AtWork, tmux, TypeOK, Row, States, Known
  <1>2. \A g \in Goroutines : op[g] = Idle \/ op[g].task \in Tasks \ {t}
    BY <1>1 DEF Shapes, Shape
  <1>3. TypeOK' /\ Shapes' /\ GivenUp'
    BY <1>1 DEF TypeOK, Shapes, GivenUp, GivesUp, Dead
  <1>4. Known'
    BY <1>1 DEF Known, Belongs, Alive
  <1>5. Existing' /\ FreshCopies'
    <2>1. ASSUME NEW g \in Goroutines, op[g].kind \in Kinds PROVE op[g].task \in Tasks \ {t}
      BY <1>2, <2>1 DEF Idle, Kinds
    <2>2. ASSUME NEW g \in Goroutines, Fresh(g) PROVE op[g].task \in Tasks \ {t}
      BY <1>2, <2>2 DEF Fresh
    <2>3. Existing'
      BY <1>1, <2>1 DEF Existing
    <2>4. FreshCopies'
      <3>1. \A g \in Goroutines : Fresh(g)' <=> Fresh(g)
        BY <1>1 DEF Fresh
      <3>. QED BY <1>1, <2>2, <3>1 DEF FreshCopies
    <2>. QED BY <2>3, <2>4
  <1>6. WholeRows'
    BY <1>1 DEF WholeRows, Orderly, HalfWritten, Fresh
  <1>7. Hidden'
    <2>1. \A g \in Goroutines : op[g].pc \in {"insert", "setwindow"} => op[g].new \in Windows
      BY DEF Shapes, Shape, Idle, TypeOK, Op
    <2>. QED BY <1>1, <2>1 DEF Hidden
  <1>8. Thawed'
    BY <1>1 DEF Thawed, Thawing, Fresh
  <1>9. MovedWindows'
    BY <1>1, <1>2 DEF MovedWindows, Moved, InPlace, Alive, Orderly, Fresh, Living, Target, Idle
  <1>10. ActiveHasWindow' /\ ResumableNeverFails'
    BY <1>1 DEF ActiveHasWindow, HasWindow, ResumableNeverFails, Living
  <1>11. NoOrphanWindow'
    BY <1>1 DEF NoOrphanWindow, Alive, Orderly, Carries, Known, NoRow
  <1>. QED BY <1>3, <1>4, <1>5, <1>6, <1>7, <1>8, <1>9, <1>10, <1>11

\* A session that is adopted makes the copies of its row out of date.
LEMMA AdoptPreserves ==
    ASSUME IInv, NEW t \in Tasks, Adopt(t)
    PROVE  IInv'
  <1>. USE DEF IInv
  <1>1. /\ UNCHANGED <<krang, listed, place, owner, restarts, stale, torn>>
        /\ row' \in [Tasks -> Row] /\ \A s \in Tasks \ {t} : row'[s] = row[s]
        /\ row[t].state = "active" /\ row'[t].state = "active" /\ row'[t].window = row[t].window
    <2>1. row \in [Tasks -> Row] /\ row[t] \in Row
      BY DEF TypeOK
    <2>2. row' = [row EXCEPT ![t] = [row[t] EXCEPT !.session = TRUE]]
      BY DEF Adopt
    <2>3. [row[t] EXCEPT !.session = TRUE] \in Row
      BY <2>1 DEF Row
    <2>. QED BY <2>1, <2>2, <2>3 DEF Adopt, tmux, Row
  <1>2. ASSUME NEW h \in Goroutines
        PROVE  /\ op'[h] \in Op /\ op'[h].kind = op[h].kind /\ op'[h].task = op[h].task
               /\ op'[h].pc = op[h].pc /\ op'[h].seen = op[h].seen /\ op'[h].new = op[h].new
               /\ op[h].task # t => op'[h] = op[h]
               /\ op[h].task = t => op'[h].fresh = FALSE
    <2>1. op[h] \in Op /\ op'[h] = IF op[h].task = t THEN [op[h] EXCEPT !.fresh = FALSE] ELSE op[h]
      BY DEF Adopt, TypeOK
    <2>. QED BY <2>1 DEF Op
  <1>u. \A h \in Goroutines : /\ op'[h].kind = op[h].kind /\ op'[h].task = op[h].task
                              /\ op'[h].pc = op[h].pc /\ op'[h].seen = op[h].seen
                              /\ op'[h].new = op[h].new
    BY <1>2
  <1>3. ASSUME NEW h \in Goroutines, Fresh(h)'
        PROVE  op'[h] = op[h] /\ op[h].task # t /\ Fresh(h)
    <2>1. op[h].task # t /\ op'[h] = op[h]
      BY <1>2, <1>3 DEF Fresh
    <2>. QED BY <1>3, <2>1 DEF Fresh
  <1>4. \A s \in Tasks : row'[s].state = row[s].state /\ row'[s].window = row[s].window
    BY <1>1
  <1>5. TypeOK'
    <2>1. op' \in [Goroutines -> Op]
      BY <1>2 DEF Adopt
    <2>. QED BY <1>1, <2>1 DEF TypeOK
  <1>6. Shapes'
    <2>1. ASSUME NEW h \in Goroutines PROVE Shape(op'[h])
      <3>1. CASE op[h].task = t
        <4>1. op[h] # Idle /\ Shape(op[h])
          BY <3>1 DEF Shapes, Idle
        <4>2. /\ op'[h].kind = op[h].kind /\ op'[h].task = op[h].task /\ op'[h].pc = op[h].pc
              /\ op'[h].seen = op[h].seen /\ op'[h].new = op[h].new
          BY <1>2
        <4>. QED BY <4>1, <4>2 DEF Shape
      <3>2. CASE op[h].task # t
        BY <1>2, <3>2 DEF Shapes
      <3>. QED BY <3>1, <3>2
    <2>. QED BY <2>1 DEF Shapes
  <1>7. Known'
    <2>1. \A w, s : Belongs(w, s)' <=> Belongs(w, s)
      BY <1>1 DEF Belongs
    <2>2. \A s \in Tasks : Belongs(row'[s].window, s) /\ (row'[s].state = "absent" => row'[s] = NoRow)
      BY <1>1, <1>4 DEF Known
    <2>3. \A h \in Goroutines : Belongs(op'[h].seen.window, op'[h].task) /\ Belongs(op'[h].new, op'[h].task)
      BY <1>u DEF Known
    <2>. QED BY <1>1, <2>1, <2>2, <2>3 DEF Known, Alive
  <1>8. Existing'
    <2>1. \A h \in Goroutines : op[h].kind \in Kinds => op[h].task \in Tasks
      BY DEF Shapes, Shape, Idle, Kinds
    <2>. QED BY <1>u, <1>4, <2>1 DEF Existing
  <1>9. FreshCopies'
    BY <1>1, <1>3 DEF FreshCopies, Shapes, Shape, Fresh
  <1>10. WholeRows'
    <2>1. \A s \in Tasks : HalfWritten(s) => HalfWritten(s)'
      BY <1>2 DEF HalfWritten
    <2>. QED BY <1>1, <1>3, <1>4, <2>1 DEF WholeRows, Orderly
  <1>11. GivenUp'
    <2>1. ASSUME NEW h \in Goroutines, GivesUp(op[h])' PROVE Dead(op[h].seen.window)'
      <3>1. GivesUp(op[h])
        BY <1>1, <1>2, <2>1 DEF GivesUp
      <3>2. Dead(op[h].seen.window) /\ op'[h].seen = op[h].seen
        BY <1>2, <3>1 DEF GivenUp
      <3>. QED BY <1>1, <3>2 DEF Dead
    <2>. QED BY <2>1 DEF GivenUp
  <1>12. Hidden'
    BY <1>1, <1>u, <1>4 DEF Hidden
  <1>13. Thawed'
    <2>1. \A h \in Goroutines : Thawing(h)' => Thawing(h)
      BY <1>3 DEF Thawing
    <2>. QED BY <1>1, <1>u, <2>1 DEF Thawed
  <1>14. MovedWindows'
    <2>1. \A s \in Tasks, h \in Goroutines : Moved(h, s)' <=> Moved(h, s)
      BY <1>2 DEF Moved
    <2>. QED BY <1>1, <1>2, <1>3, <1>4, <2>1 DEF MovedWindows, Orderly, InPlace, Alive, Target
  <1>15. ActiveHasWindow' /\ ResumableNeverFails'
    BY <1>1, <1>4 DEF ActiveHasWindow, HasWindow, ResumableNeverFails
  <1>16. NoOrphanWindow'
    BY <1>1, <1>u, <1>4 DEF NoOrphanWindow, Alive, Orderly, Carries, Known
  <1>. QED BY <1>5, <1>6, <1>7, <1>8, <1>9, <1>10, <1>11, <1>12, <1>13, <1>14, <1>15, <1>16

--------------------------------------------------------------------------------
(* The invariant.                                                          *)

\* The invariant holds at the start.
LEMMA InitEstablishes ==
    ASSUME Init
    PROVE  IInv
  <1>. USE DEF Init
  <1>1. Idle \in Op /\ NoRow \in Row
    BY DEF Idle, Op, NoRow, Row, States
  <1>2. /\ \A g \in Goroutines : op[g] = Idle
        /\ \A t \in Tasks : row[t] = NoRow
        /\ \A w \in Windows : place[w] = "unborn" /\ ~Alive(w)
    BY DEF Alive
  <1>3. TypeOK /\ Shapes
    BY <1>1, <1>2 DEF TypeOK, Shapes, Shape
  <1>4. Known /\ Existing /\ FreshCopies /\ WholeRows /\ GivenUp
    BY <1>2 DEF Known, Belongs, Existing, FreshCopies, Fresh, WholeRows, GivenUp, GivesUp,
                Idle, NoRow, Kinds
  <1>5. Hidden /\ Thawed /\ MovedWindows
    BY <1>2 DEF Hidden, Thawed, Thawing, MovedWindows, Moved, Idle, NoRow, Living
  <1>6. ActiveHasWindow /\ NoOrphanWindow /\ ResumableNeverFails
    BY <1>2 DEF ActiveHasWindow, HasWindow, NoOrphanWindow, ResumableNeverFails, NoRow, Living
  <1>. QED BY <1>3, <1>4, <1>5, <1>6 DEF IInv

\* A step of a running goroutine keeps the invariant.
LEMMA RunningPreserves ==
    ASSUME IInv, NEW g \in Goroutines, Running(g)
    PROVE  IInv'
  <1>1. CASE Move(g)
    BY <1>1, MovePreserves
  <1>2. CASE Look(g) \/ Close(g) \/ Closed(g) \/ CloseFails(g) \/ Kill(g) \/ KillFails(g)
    BY <1>2, ClosingPreserves
  <1>3. CASE \E w \in Windows : CreateWindow(g, w)
    BY <1>3, CreatePreserves
  <1>4. CASE CreateFails(g) \/ InsertFails(g) \/ StateFails(g) \/ WriteFails(g)
    BY <1>4, FailingPreserves
  <1>5. CASE Insert(g)
    BY <1>5, InsertPreserves
  <1>6. CASE SetWindow(g)
    BY <1>6, SetWindowPreserves
  <1>7. CASE SetActive(g)
    BY <1>7, SetActivePreserves
  <1>8. CASE SetState(g)
    BY <1>8, SetStatePreserves
  <1>9. CASE Clear(g)
    BY <1>9, ClearPreserves
  <1>. QED BY <1>1, <1>2, <1>3, <1>4, <1>5, <1>6, <1>7, <1>8, <1>9 DEF Running

\* Every step keeps the invariant.
LEMMA StepPreserves ==
    ASSUME IInv, [Next]_vars
    PROVE  IInv'
  <1>1. ASSUME NEW g \in Goroutines, NEW t \in Tasks,
               \/ \E kind \in Kinds \ {"create", "fork"} : Begin(g, kind, t)
               \/ \E kind \in {"create", "fork"} : BeginCreate(g, kind, t)
        PROVE  IInv'
    <2>1. {"create", "fork"} \subseteq Kinds
      BY DEF Kinds
    <2>. QED BY <1>1, <2>1, BeginPreserves
  <1>2. ASSUME NEW g \in Goroutines, Running(g) PROVE IInv'
    BY <1>2, RunningPreserves
  <1>3. ASSUME NEW t \in Tasks, Import(t) \/ Adopt(t) PROVE IInv'
    BY <1>3, ImportPreserves, AdoptPreserves
  <1>4. CASE Quit \/ ListParked \/ CleanParked \/ Restart \/ \E w \in Windows : WindowDies(w)
    BY <1>4, ProcessPreserves
  <1>5. CASE Die
    BY <1>5, DiePreserves
  <1>6. CASE UNCHANGED vars
    <2>1. OnlyEnds /\ TypeOK
      BY <1>6 DEF OnlyEnds, IInv, TypeOK, vars, tmux
    <2>. QED BY <1>6, <2>1, WindowsEnd DEF vars, tmux, TypeOK
  <1>. QED BY <1>1, <1>2, <1>3, <1>4, <1>5, <1>6 DEF Next

\* The inductive invariant holds of every behaviour, with any number of tasks,
\* windows and commands at work, and with every failure and crash there is.
THEOREM Invariance == Spec => []IInv
  BY InitEstablishes, StepPreserves, PTL DEF Spec

--------------------------------------------------------------------------------
(* What follows from it.                                                   *)

\* Every variable keeps its type: no code path gives a row a state, or an
\* operation a step, that is not listed.
THEOREM TypeCorrect == Spec => []TypeOK
  BY Invariance, PTL DEF IInv

\* A live task has a window, unless an outdated write came between: the order
\* of the two writes of wake, relaunch, freeze and completion is enough.
THEOREM ActiveTasksHaveWindows == Spec => []ActiveHasWindow
  BY Invariance, PTL DEF IInv

\* No window is left behind by the operations of task.Manager that succeed.
THEOREM NoOrphans == Spec => []NoOrphanWindow
  BY Invariance, PTL DEF IInv

\* A task that can be resumed is never failed by the reconciler.
THEOREM Resumable == Spec => []ResumableNeverFails
  BY Invariance, PTL DEF IInv

\* The invariant implies that a task at rest tells where its window is.
LEMMA RestingTaskTells ==
    ASSUME IInv
    PROVE  StateTellsPlace
  <1>. USE DEF IInv
  <1>. SUFFICES ASSUME NEW t \in Tasks, Orderly(t), ~AtWork(t)
                PROVE  /\ row[t].state \notin Living => row[t].window = None
                       /\ Alive(row[t].window) => place[row[t].window] = row[t].state
    BY DEF StateTellsPlace
  <1>1. ~HalfWritten(t) /\ \A g \in Goroutines : ~Moved(g, t)
    BY DEF HalfWritten, Moved, AtWork
  <1>. QED BY <1>1 DEF WholeRows, MovedWindows, InPlace, Alive

\* The state of a task at rest says where its window is.
THEOREM StateTells == Spec => []StateTellsPlace
  BY Invariance, RestingTaskTells, PTL

\* How the row of a task can change, other than by its first write or by a
\* write from an outdated copy.
LEMMA StateSteps ==
    ASSUME IInv, [Next]_vars, NEW t \in Tasks, t \notin stale', row[t].state # "absent"
    PROVE  \/ row'[t].state = row[t].state
           \/ /\ row'[t].state = "active" /\ row[t].state \in {"active", "dormant"}
              /\ row[t].state = "dormant" => row[t].session
           \/ \E g \in Goroutines :
                 /\ op[g].task = t /\ op[g].pc = "state" /\ op[g] # Idle
                 /\ row[t] = op[g].seen /\ row'[t].state = NewState(op[g])
  <1>. USE DEF IInv
  <1>1. row[t] \in Row /\ row \in [Tasks -> Row]
    BY DEF TypeOK
  <1>2. ASSUME NEW g \in Goroutines, NEW r, NEW next, Write(g, r, next)
        PROVE  IF op[g].task = t THEN row'[t] = r /\ op[g].fresh ELSE row'[t] = row[t]
    BY <1>1, <1>2 DEF Write
  <1>3. ASSUME NEW g \in Goroutines, op[g] # Idle, op[g].fresh, op[g].task = t
        PROVE  row[t] = Expected(op[g]) /\ op[g].seen \in Row /\ Shape(op[g])
    BY <1>3 DEF FreshCopies, Fresh, TypeOK, Op, Shapes
  <1>4. ASSUME NEW g \in Goroutines, Insert(g)
        PROVE  row'[t].state = row[t].state
    <2>1. op[g] # Idle /\ op[g].pc = "insert"
      BY <1>4 DEF Insert, At, Idle
    <2>2. op[g].task # t \/ ~op[g].fresh
      <3>. SUFFICES ASSUME op[g].task = t, op[g].fresh PROVE FALSE
        OBVIOUS
      <3>1. op[g].kind \in {"create", "fork"} /\ op[g].seen = NoRow
        BY <1>3, <2>1 DEF Shape, Course, Kinds
      <3>2. row[t] = NoRow
        BY <1>3, <2>1, <3>1 DEF Expected
      <3>. QED BY <3>2 DEF NoRow
    <2>. QED BY <1>2, <1>4, <2>2 DEF Insert
  <1>5. ASSUME NEW g \in Goroutines, SetWindow(g) \/ Clear(g)
        PROVE  row'[t].state = row[t].state
    <2>1. PICK w, next : Write(g, [row[op[g].task] EXCEPT !.window = w], next)
      BY <1>5 DEF SetWindow, Clear
    <2>2. [row[t] EXCEPT !.window = w].state = row[t].state
      BY <1>1 DEF Row
    <2>. QED BY <1>2, <2>1, <2>2
  <1>6. ASSUME NEW g \in Goroutines, SetActive(g)
        PROVE  \/ row'[t].state = row[t].state
               \/ /\ row'[t].state = "active" /\ row[t].state \in {"active", "dormant"}
                  /\ row[t].state = "dormant" => row[t].session
    <2>1. op[g] # Idle /\ op[g].pc = "setstate"
      BY <1>6 DEF SetActive, At, Idle
    <2>2. CASE op[g].task # t
      BY <1>2, <1>6, <2>2 DEF SetActive
    <2>3. CASE op[g].task = t
      <3>1. row'[t] = [row[t] EXCEPT !.state = "active"] /\ op[g].fresh
        BY <1>2, <1>6, <2>3 DEF SetActive
      <3>2. op[g].kind \in {"wake", "relaunch"} /\ row[t] = Expected(op[g]) /\ op[g].seen \in Row
        BY <1>3, <2>1, <2>3, <3>1 DEF Shape, Course, Kinds
      <3>3. op[g].kind = "wake" => op[g].seen.state = "dormant" /\ op[g].seen.session
        BY <1>3, <2>1, <2>3, <3>1 DEF Shape, Allowed
      <3>4. row[t].state \in {"active", "dormant"} /\ (row[t].state = "dormant" => row[t].session)
        BY <2>1, <3>2, <3>3 DEF Expected, Row
      <3>. QED BY <1>1, <3>1, <3>4 DEF Row
    <2>. QED BY <2>2, <2>3
  <1>7. ASSUME NEW g \in Goroutines, SetState(g)
        PROVE  \/ row'[t].state = row[t].state
               \/ /\ op[g].task = t /\ op[g].pc = "state" /\ op[g] # Idle
                  /\ row[t] = op[g].seen /\ row'[t].state = NewState(op[g])
    <2>1. op[g] # Idle /\ op[g].pc = "state"
      BY <1>7 DEF SetState, At, Idle
    <2>2. CASE op[g].task # t
      BY <1>2, <1>7, <2>2 DEF SetState
    <2>3. CASE op[g].task = t
      <3>1. row'[t] = [row[t] EXCEPT !.state = NewState(op[g])] /\ op[g].fresh
        BY <1>2, <1>7, <2>3 DEF SetState
      <3>2. row[t] = op[g].seen
        BY <1>3, <2>1, <2>3, <3>1 DEF Expected
      <3>. QED BY <1>1, <2>1, <2>3, <3>1, <3>2 DEF Row
    <2>. QED BY <2>2, <2>3
  <1>8. ASSUME NEW s \in Tasks, Import(s) \/ Adopt(s)
        PROVE  row'[t].state = row[t].state
    <2>1. CASE Import(s)
      BY <1>1, <2>1 DEF Import
    <2>2. CASE Adopt(s)
      BY <1>1, <2>2 DEF Adopt, Row
    <2>. QED BY <1>8, <2>1, <2>2
  <1>9. ASSUME UNCHANGED row
        PROVE  row'[t].state = row[t].state
    BY <1>9
  <1>10. ASSUME NEW g \in Goroutines, Running(g)
         PROVE  \/ UNCHANGED row \/ Insert(g) \/ SetWindow(g) \/ Clear(g)
                \/ SetActive(g) \/ SetState(g)
    BY <1>10 DEF Running, Move, Look, Close, Closed, CloseFails, Kill, KillFails, CreateWindow,
                 CreateFails, InsertFails, StateFails, WriteFails
  <1>11. CASE \E g \in Goroutines : Running(g)
    BY <1>4, <1>5, <1>6, <1>7, <1>9, <1>10, <1>11
  <1>12. ASSUME NEW w \in Windows, WindowDies(w) PROVE UNCHANGED row
    BY <1>12 DEF WindowDies
  <1>13. ASSUME Quit \/ ListParked \/ CleanParked \/ Die \/ Restart \/ UNCHANGED vars PROVE UNCHANGED row
    BY <1>13 DEF Quit, ListParked, CleanParked, Die, Restart, vars
  <1>14. ASSUME NEW g \in Goroutines, NEW s \in Tasks, NEW kind, Begin(g, kind, s) \/ BeginCreate(g, kind, s)
         PROVE  UNCHANGED row
    BY <1>14 DEF Begin, BeginCreate, Start
  <1>. QED BY <1>8, <1>9, <1>11, <1>12, <1>13, <1>14 DEF Next

\* A finished task is not brought back by a step.
LEMMA TerminalStays ==
    ASSUME IInv, [Next]_vars, NEW t \in Tasks, t \notin stale'
    PROVE  Ended(t)
  <1>. SUFFICES ASSUME row[t].state \in Terminal
                PROVE  row'[t].state \in {row[t].state, "completed"}
    BY DEF Ended, Terminal
  <1>1. CASE \E g \in Goroutines :
               /\ op[g].task = t /\ op[g].pc = "state" /\ op[g] # Idle
               /\ row[t] = op[g].seen /\ row'[t].state = NewState(op[g])
    <2>1. PICK g \in Goroutines :
               /\ op[g].task = t /\ op[g].pc = "state" /\ op[g] # Idle
               /\ row[t] = op[g].seen /\ row'[t].state = NewState(op[g])
      BY <1>1
    <2>2. op[g].kind \in {"park", "unpark", "relaunch", "dormify", "complete", "reconcile"}
          /\ Allowed(op[g].kind, op[g].seen)
      BY <2>1 DEF IInv, Shapes, Shape, Course, Kinds
    <2>3. op[g].kind = "complete"
      BY <2>1, <2>2 DEF Allowed, Living, Terminal
    <2>. QED BY <2>1, <2>3 DEF NewState
  <1>. QED BY <1>1, StateSteps DEF Terminal

\* Neither the reconciler nor a command brings a completed or failed task back
\* to life, or fails a completed one, unless its copy of the row is outdated.
THEOREM TerminalFinal == Spec => TerminalIsFinal
  <1>1. IInv /\ [Next]_vars => \A t \in Tasks : t \notin stale' => Ended(t)
    BY TerminalStays
  <1>. QED BY <1>1, Invariance, PTL DEF Spec, TerminalIsFinal

\* A task stops being live only when its window has gone.
LEMMA GoneBeforeStopped ==
    ASSUME IInv, [Next]_vars, NEW t \in Tasks, t \notin stale',
           row[t].state \in Living, row'[t].state \notin Living
    PROVE  ~Alive(row[t].window)
  <1>1. PICK g \in Goroutines :
               /\ op[g].task = t /\ op[g].pc = "state" /\ op[g] # Idle
               /\ row[t] = op[g].seen /\ row'[t].state = NewState(op[g])
    BY StateSteps DEF Living
  <1>2. op[g].kind \in {"park", "unpark", "relaunch", "dormify", "complete", "reconcile"}
    BY <1>1 DEF IInv, Shapes, Shape, Course, Kinds
  <1>3. op[g].kind \in {"dormify", "complete", "reconcile"}
    BY <1>1, <1>2 DEF NewState, Living
  <1>. QED BY <1>1, <1>3 DEF IInv, GivenUp, GivesUp, Dead, Alive

\* A task is called stopped only when its window is gone.
THEOREM WindowGone == Spec => WindowGoneFirst
  <1>1. IInv /\ [Next]_vars =>
           \A t \in Tasks : t \notin stale' /\ row[t].state \in Living /\ row'[t].state \notin Living
              => ~Alive(row[t].window)
    BY GoneBeforeStopped
  <1>. QED BY <1>1, Invariance, PTL DEF Spec, WindowGoneFirst

\* The exit leaves the windows of tasks at rest where they are, unless they were
\* parked behind its back.
LEMMA RestingWindowsSpared ==
    ASSUME IInv, [Next]_vars, krang = "cleaning", krang' = "leaving",
           NEW w \in Windows, Alive(w), Orderly(owner[w]), ~AtWork(owner[w]),
           ~ParkedLate(owner[w])
    PROVE  place'[w] = place[w]
  <1>1. owner[w] \in Tasks
    BY DEF IInv, Known
  <1>2. row[owner[w]].window = w
    BY DEF IInv, NoOrphanWindow, AtWork
  <1>3. place[w] = row[owner[w]].state
    BY <1>1, <1>2, RestingTaskTells DEF StateTellsPlace
  <1>4. CleanParked
    <2>1. ASSUME NEW g \in Goroutines, Running(g) PROVE UNCHANGED krang
      BY <2>1 DEF Running, Move, Look, Close, Closed, CloseFails, Kill, KillFails, CreateWindow,
                  CreateFails, InsertFails, StateFails, WriteFails,
                  Insert, SetWindow, SetActive, SetState, Clear, Write
    <2>2. ASSUME NEW t \in Tasks, Import(t) \/ Adopt(t) PROVE UNCHANGED krang
      BY <2>2 DEF Import, Adopt
    <2>3. ASSUME NEW g \in Goroutines, NEW t \in Tasks, NEW kind, Begin(g, kind, t) \/ BeginCreate(g, kind, t)
          PROVE  UNCHANGED krang
      BY <2>3 DEF Begin, BeginCreate, Start
    <2>4. ASSUME NEW v \in Windows, WindowDies(v) PROVE UNCHANGED krang
      BY <2>4 DEF WindowDies
    <2>5. CASE Quit \/ ListParked \/ Die \/ Restart \/ UNCHANGED vars
      BY <2>5 DEF Quit, ListParked, Die, Restart, vars
    <2>. QED BY <2>1, <2>2, <2>3, <2>4, <2>5 DEF Next
  <1>5. listed = {} => place[w] # "parked"
    BY <1>1, <1>3 DEF ParkedLate
  <1>. QED BY <1>4, <1>5 DEF CleanParked

\* Quitting closes no window of a task at rest that was found parked or is not parked.
THEOREM QuitSpares == Spec => QuitSparesTasks
  <1>1. IInv /\ [Next]_vars =>
           (krang = "cleaning" /\ krang' = "leaving" =>
              \A w \in Windows :
                 Alive(w) /\ Orderly(owner[w]) /\ ~AtWork(owner[w]) /\ ~ParkedLate(owner[w])
                    => place'[w] = place[w])
    BY RestingWindowsSpared
  <1>. QED BY <1>1, Invariance, PTL DEF Spec, QuitSparesTasks

--------------------------------------------------------------------------------
(* Tasks go through the states that TaskStates allows.                     *)

LifeOf == [t \in Tasks |-> IF t \in stale THEN "astray" ELSE row[t].state]
HasWin == [t \in Tasks |-> Alive(row[t].window)]
HasSes == [t \in Tasks |-> row[t].session]

\* One row at most is written in a step, and a task that is astray stays so.
LEMMA OneRow ==
    ASSUME IInv, [Next]_vars
    PROVE  \/ UNCHANGED <<row, stale>>
           \/ \E t \in Tasks : /\ stale' \in {stale, stale \cup {t}}
                               /\ \A u \in Tasks \ {t} : row'[u] = row[u]
  <1>1. row \in [Tasks -> Row]
    BY DEF IInv, TypeOK
  <1>2. ASSUME NEW g \in Goroutines, op[g] # Idle, NEW r, NEW next, Write(g, r, next)
        PROVE  \E t \in Tasks : /\ stale' \in {stale, stale \cup {t}}
                               /\ \A u \in Tasks \ {t} : row'[u] = row[u]
    <2>1. op[g].task \in Tasks
      BY <1>2 DEF IInv, Shapes, Shape
    <2>2. stale' \in {stale, stale \cup {op[g].task}} /\ \A u \in Tasks \ {op[g].task} : row'[u] = row[u]
      BY <1>1, <1>2, <2>1 DEF Write
    <2>. QED BY <2>1, <2>2
  <1>3. ASSUME NEW g \in Goroutines, Insert(g) \/ SetWindow(g) \/ Clear(g) \/ SetActive(g) \/ SetState(g)
        PROVE  \E t \in Tasks : /\ stale' \in {stale, stale \cup {t}}
                               /\ \A u \in Tasks \ {t} : row'[u] = row[u]
    <2>1. op[g] # Idle /\ \E r, next : Write(g, r, next)
      BY <1>3 DEF Insert, SetWindow, Clear, SetActive, SetState, At, Idle
    <2>. QED BY <1>2, <2>1
  <1>4. ASSUME NEW t \in Tasks, Import(t) \/ Adopt(t)
        PROVE  stale' = stale /\ \A u \in Tasks \ {t} : row'[u] = row[u]
    BY <1>1, <1>4 DEF Import, Adopt
  <1>5. ASSUME NEW g \in Goroutines, Running(g)
        PROVE  \/ UNCHANGED <<row, stale>> \/ Insert(g) \/ SetWindow(g) \/ Clear(g)
               \/ SetActive(g) \/ SetState(g)
    BY <1>5 DEF Running, Move, Look, Close, Closed, CloseFails, Kill, KillFails, CreateWindow,
                CreateFails, InsertFails, StateFails, WriteFails
  <1>6. ASSUME NEW g \in Goroutines, NEW t \in Tasks, NEW kind, Begin(g, kind, t) \/ BeginCreate(g, kind, t)
        PROVE  UNCHANGED <<row, stale>>
    BY <1>6 DEF Begin, BeginCreate, Start
  <1>7. ASSUME Quit \/ ListParked \/ CleanParked \/ Die \/ Restart \/ (\E w \in Windows : WindowDies(w)) \/ UNCHANGED vars
        PROVE  UNCHANGED <<row, stale>>
    BY <1>7 DEF Quit, ListParked, CleanParked, Die, Restart, WindowDies, vars
  <1>. QED BY <1>3, <1>4, <1>5, <1>6, <1>7 DEF Next

\* A row comes to be by a creation or an import.
LEMMA BirthSteps ==
    ASSUME IInv, [Next]_vars, NEW t \in Tasks, t \notin stale', row[t].state = "absent"
    PROVE  \/ row'[t] = row[t]
           \/ row'[t].state = "active" /\ row'[t].session \in BOOLEAN
           \/ row'[t].state = "dormant" /\ row'[t].session
  <1>. USE DEF IInv
  <1>1. row[t] \in Row /\ row \in [Tasks -> Row]
    BY DEF TypeOK
  <1>2. ASSUME NEW g \in Goroutines, NEW r, NEW next, Write(g, r, next)
        PROVE  row'[t] = IF op[g].task = t THEN r ELSE row[t]
    BY <1>1, <1>2 DEF Write
  <1>3. ASSUME NEW g \in Goroutines, Insert(g)
        PROVE  row'[t] = row[t] \/ (row'[t].state = "active" /\ row'[t].session \in BOOLEAN)
    <2>. DEFINE known == op[g].kind = "create"
    <2>1. known \in BOOLEAN
      OBVIOUS
    <2>2. Write(g, [state |-> "active", window |-> op[g].new, session |-> known], Idle)
      BY <1>3 DEF Insert
    <2>. HIDE DEF known
    <2>3. row'[t] = row[t] \/ row'[t] = [state |-> "active", window |-> op[g].new, session |-> known]
      BY <1>2, <2>2
    <2>. QED BY <2>1, <2>3
  <1>4. ASSUME NEW g \in Goroutines, SetWindow(g) \/ Clear(g) \/ SetActive(g) \/ SetState(g)
        PROVE  row'[t] = row[t]
    <2>1. /\ op[g] # Idle /\ op[g].pc \in {"setwindow", "clear", "setstate", "state"}
          /\ \E r, next : Write(g, r, next)
      BY <1>4 DEF SetWindow, Clear, SetActive, SetState, At, Idle
    <2>2. op[g].kind \in Kinds \ {"create", "fork"}
      BY <2>1 DEF Shapes, Shape, Course, Kinds
    <2>3. op[g].task # t
      BY <2>2 DEF Existing
    <2>. QED BY <1>2, <2>1, <2>3
  <1>5. ASSUME NEW s \in Tasks, Import(s) \/ Adopt(s)
        PROVE  row'[t] = row[t] \/ (row'[t].state = "dormant" /\ row'[t].session)
    BY <1>1, <1>5 DEF Import, Adopt
  <1>6. ASSUME NEW g \in Goroutines, Running(g)
        PROVE  \/ UNCHANGED row \/ Insert(g) \/ SetWindow(g) \/ Clear(g)
               \/ SetActive(g) \/ SetState(g)
    BY <1>6 DEF Running, Move, Look, Close, Closed, CloseFails, Kill, KillFails, CreateWindow,
                CreateFails, InsertFails, StateFails, WriteFails
  <1>7. ASSUME NEW g \in Goroutines, NEW s \in Tasks, NEW kind, Begin(g, kind, s) \/ BeginCreate(g, kind, s)
        PROVE  UNCHANGED row
    BY <1>7 DEF Begin, BeginCreate, Start
  <1>8. ASSUME Quit \/ ListParked \/ CleanParked \/ Die \/ Restart \/ (\E w \in Windows : WindowDies(w)) \/ UNCHANGED vars
        PROVE  UNCHANGED row
    BY <1>8 DEF Quit, ListParked, CleanParked, Die, Restart, WindowDies, vars
  <1>. QED BY <1>3, <1>4, <1>5, <1>6, <1>7, <1>8 DEF Next

\* A session is learnt by a task that is active, and by no other.
LEMMA SessionSteps ==
    ASSUME IInv, [Next]_vars, NEW t \in Tasks, t \notin stale', row[t].state # "absent"
    PROVE  \/ row'[t].session = row[t].session
           \/ row[t].state = "active" /\ row'[t].state = "active" /\ row'[t].session
  <1>. USE DEF IInv
  <1>1. row[t] \in Row /\ row \in [Tasks -> Row]
    BY DEF TypeOK
  <1>2. ASSUME NEW g \in Goroutines, NEW r, NEW next, Write(g, r, next)
        PROVE  IF op[g].task = t THEN row'[t] = r /\ op[g].fresh ELSE row'[t] = row[t]
    BY <1>1, <1>2 DEF Write
  <1>3. ASSUME NEW g \in Goroutines, Insert(g) PROVE row'[t] = row[t]
    <2>1. op[g] # Idle /\ op[g].pc = "insert"
      BY <1>3 DEF Insert, At, Idle
    <2>2. op[g].task # t \/ ~op[g].fresh
      <3>. SUFFICES ASSUME op[g].task = t, op[g].fresh PROVE FALSE
        OBVIOUS
      <3>1. op[g].kind \in {"create", "fork"} /\ op[g].seen = NoRow
        BY <2>1 DEF Shapes, Shape, Course, Kinds
      <3>2. row[t] = NoRow
        BY <2>1, <3>1 DEF FreshCopies, Fresh, Expected
      <3>. QED BY <3>2 DEF NoRow
    <2>. QED BY <1>2, <1>3, <2>2 DEF Insert
  <1>4. ASSUME NEW g \in Goroutines, SetWindow(g) \/ Clear(g) \/ SetActive(g) \/ SetState(g)
        PROVE  row'[t].session = row[t].session
    <2>1. CASE SetWindow(g) \/ Clear(g)
      <3>1. PICK w, next : Write(g, [row[op[g].task] EXCEPT !.window = w], next)
        BY <2>1 DEF SetWindow, Clear
      <3>2. [row[t] EXCEPT !.window = w].session = row[t].session
        BY <1>1 DEF Row
      <3>. QED BY <1>2, <3>1, <3>2
    <2>2. CASE SetActive(g) \/ SetState(g)
      <3>1. PICK st, next : Write(g, [row[op[g].task] EXCEPT !.state = st], next)
        BY <2>2 DEF SetActive, SetState
      <3>2. [row[t] EXCEPT !.state = st].session = row[t].session
        BY <1>1 DEF Row
      <3>. QED BY <1>2, <3>1, <3>2
    <2>. QED BY <1>4, <2>1, <2>2
  <1>5. ASSUME NEW s \in Tasks, Import(s) \/ Adopt(s)
        PROVE  \/ row'[t].session = row[t].session
               \/ row[t].state = "active" /\ row'[t].state = "active" /\ row'[t].session
    BY <1>1, <1>5 DEF Import, Adopt, Row
  <1>6. ASSUME NEW g \in Goroutines, Running(g)
        PROVE  \/ UNCHANGED row \/ Insert(g) \/ SetWindow(g) \/ Clear(g)
               \/ SetActive(g) \/ SetState(g)
    BY <1>6 DEF Running, Move, Look, Close, Closed, CloseFails, Kill, KillFails, CreateWindow,
                CreateFails, InsertFails, StateFails, WriteFails
  <1>7. ASSUME NEW g \in Goroutines, NEW s \in Tasks, NEW kind, Begin(g, kind, s) \/ BeginCreate(g, kind, s)
        PROVE  UNCHANGED row
    BY <1>7 DEF Begin, BeginCreate, Start
  <1>8. ASSUME Quit \/ ListParked \/ CleanParked \/ Die \/ Restart \/ (\E w \in Windows : WindowDies(w)) \/ UNCHANGED vars
        PROVE  UNCHANGED row
    BY <1>8 DEF Quit, ListParked, CleanParked, Die, Restart, WindowDies, vars
  <1>. QED BY <1>3, <1>4, <1>5, <1>6, <1>7, <1>8 DEF Next

\* What may become of the state of a task that nobody has written from an outdated
\* copy, by what its row says of its window and of its session.
LEMMA LifeSteps ==
    ASSUME IInv, [Next]_vars, NEW t \in Tasks, t \notin stale', row[t].state # "absent",
           row'[t].state # row[t].state
    PROVE  /\ row'[t].session = row[t].session
           /\ \/ row[t].state = "active" /\ row'[t].state = "parked"
              \/ row[t].state = "parked" /\ row'[t].state = "active"
              \/ row[t].state = "dormant" /\ row'[t].state = "active" /\ row[t].session
              \/ row[t].state \in Living /\ ~Alive(row[t].window) /\ row'[t].state = "dormant"
              \/ /\ row[t].state \in Living /\ ~Alive(row[t].window) /\ row'[t].state = "failed"
                 /\ ~row[t].session
              \/ /\ row[t].state \in Living \cup {"dormant", "failed"} /\ row'[t].state = "completed"
                 /\ row[t].state \in Living => ~Alive(row[t].window)
  <1>0. row[t].state \in States /\ row[t].session \in BOOLEAN
    BY DEF IInv, TypeOK, Row
  <1>1. row'[t].session = row[t].session
    BY SessionSteps
  <1>2. row[t].state \in Living /\ row'[t].state \notin Living => ~Alive(row[t].window)
    BY GoneBeforeStopped
  <1>3. CASE row'[t].state = "active" /\ row[t].state = "dormant" /\ row[t].session
    BY <1>1, <1>3
  <1>4. CASE \E g \in Goroutines :
               /\ op[g].task = t /\ op[g].pc = "state" /\ op[g] # Idle
               /\ row[t] = op[g].seen /\ row'[t].state = NewState(op[g])
    <2>1. PICK g \in Goroutines :
               /\ op[g].task = t /\ op[g].pc = "state" /\ op[g] # Idle
               /\ row[t] = op[g].seen /\ row'[t].state = NewState(op[g])
      BY <1>4
    <2>2. /\ op[g].kind \in {"park", "unpark", "relaunch", "dormify", "complete", "reconcile"}
          /\ Allowed(op[g].kind, row[t])
      BY <2>1 DEF IInv, Shapes, Shape, Course, Kinds
    <2>3. CASE op[g].kind \in {"park", "unpark", "relaunch"}
      BY <1>1, <2>1, <2>2, <2>3 DEF NewState, Allowed, Living
    <2>4. CASE op[g].kind = "dormify"
      BY <1>1, <1>2, <2>1, <2>2, <2>4 DEF NewState, Allowed, Living
    <2>5. CASE op[g].kind = "complete"
      BY <1>0, <1>1, <1>2, <2>1, <2>2, <2>5 DEF NewState, Living, States
    <2>6. CASE op[g].kind = "reconcile"
      <3>1. row[t].state \in Living /\ row'[t].state = IF row[t].session THEN "dormant" ELSE "failed"
        BY <2>1, <2>2, <2>6 DEF NewState, Allowed
      <3>2. ~Alive(row[t].window)
        BY <1>2, <3>1 DEF Living
      <3>. QED BY <1>0, <1>1, <3>1, <3>2
    <2>. QED BY <2>2, <2>3, <2>4, <2>5, <2>6
  <1>. QED BY <1>3, <1>4, StateSteps

\* A step of krang, of the user or of tmux is one that TaskStates allows.
LEMMA StepFollows ==
    ASSUME IInv, IInv', [Next]_vars
    PROVE  [Life!Next]_(Life!vars)
  <1>1. /\ row \in [Tasks -> Row] /\ row' \in [Tasks -> Row]
        /\ stale \subseteq Tasks /\ stale' \subseteq Tasks
    BY DEF IInv, TypeOK
  <1>2. HasWin' \in [Tasks -> BOOLEAN]
    BY DEF HasWin, Alive
  <1>3. CASE UNCHANGED <<row, stale>>
    <2>1. LifeOf' = LifeOf /\ HasSes' = HasSes
      BY <1>3 DEF LifeOf, HasSes
    <2>. QED BY <1>2, <2>1 DEF Life!Next, Life!Elsewhere, LifeOf, HasWin, HasSes
  <1>4. ASSUME NEW t \in Tasks, stale' \in {stale, stale \cup {t}}, \A u \in Tasks \ {t} : row'[u] = row[u]
        PROVE  Life!Next
    <2>1. /\ LifeOf' = [LifeOf EXCEPT ![t] = LifeOf'[t]]
          /\ HasSes' = [HasSes EXCEPT ![t] = HasSes'[t]]
      BY <1>4 DEF LifeOf, HasSes
    <2>2. /\ LifeOf[t] = IF t \in stale THEN "astray" ELSE row[t].state
          /\ LifeOf'[t] = IF t \in stale' THEN "astray" ELSE row'[t].state
          /\ HasSes[t] = row[t].session /\ HasSes'[t] = row'[t].session /\ HasWin[t] = Alive(row[t].window)
      BY DEF LifeOf, HasSes, HasWin
    <2>3. LifeOf'[t] = LifeOf[t] => LifeOf' = LifeOf
      BY <1>4 DEF LifeOf
    <2>4. HasSes'[t] = HasSes[t] => HasSes' = HasSes
      BY <1>4 DEF HasSes
    <2>5. row[t].session \in BOOLEAN /\ row'[t].session \in BOOLEAN
      BY <1>1 DEF Row
    <2>6. CASE t \in stale'
      <3>1. LifeOf' = [LifeOf EXCEPT ![t] = "astray"]
        BY <2>1, <2>2, <2>6
      <3>2. Life!Astray(t)
        BY <2>1, <2>2, <2>5, <3>1 DEF Life!Astray, LifeOf, HasSes
      <3>. QED BY <1>2, <3>2 DEF Life!Next, HasWin
    <2>7. CASE t \notin stale' /\ row[t].state = "absent"
      <3>1. t \notin stale
        BY <1>4, <2>7
      <3>2. CASE row'[t] = row[t]
        <4>1. LifeOf' = LifeOf /\ HasSes' = HasSes
          BY <2>2, <2>3, <2>4, <2>7, <3>1, <3>2
        <4>. QED BY <1>2, <4>1 DEF Life!Next, Life!Elsewhere, LifeOf, HasWin, HasSes
      <3>3. CASE row'[t].state = "active"
        <4>1. HasSes' = HasSes \/ HasSes' = [HasSes EXCEPT ![t] = TRUE]
          <5>1. row'[t].session = row[t].session \/ row'[t].session = TRUE
            <6>1. row[t].session = FALSE
              BY <2>7 DEF IInv, Known, NoRow
            <6>. QED BY <2>5, <6>1
          <5>. QED BY <2>1, <2>2, <2>4, <5>1
        <4>2. Life!Create(t)
          BY <2>1, <2>2, <2>7, <3>1, <3>3, <4>1 DEF Life!Create, Life!Becomes, LifeOf, HasSes
        <4>. QED BY <1>2, <4>2 DEF Life!Next, HasWin
      <3>4. CASE row'[t].state = "dormant" /\ row'[t].session
        <4>1. HasSes' = [HasSes EXCEPT ![t] = TRUE]
          BY <2>1, <2>2, <2>5, <3>4
        <4>2. Life!Import(t)
          BY <2>1, <2>2, <2>7, <3>1, <3>4, <4>1 DEF Life!Import, Life!Becomes, LifeOf, HasSes
        <4>. QED BY <1>2, <4>2 DEF Life!Next, HasWin
      <3>. QED BY <2>7, <3>2, <3>3, <3>4, BirthSteps
    <2>8. CASE t \notin stale' /\ row[t].state # "absent" /\ row'[t].state = row[t].state
      <3>1. t \notin stale /\ LifeOf' = LifeOf
        BY <1>4, <2>2, <2>3, <2>8
      <3>2. CASE row'[t].session = row[t].session
        <4>1. HasSes' = HasSes
          BY <2>2, <2>4, <3>2
        <4>. QED BY <1>2, <3>1, <4>1 DEF Life!Next, Life!Elsewhere, LifeOf, HasWin, HasSes
      <3>3. CASE row[t].state = "active" /\ row'[t].session
        <4>1. HasSes' = [HasSes EXCEPT ![t] = TRUE]
          BY <2>1, <2>2, <2>5, <3>3
        <4>2. Life!Learn(t)
          BY <2>2, <3>1, <3>3, <4>1 DEF Life!Learn, LifeOf, HasSes
        <4>. QED BY <1>2, <4>2 DEF Life!Next, HasWin
      <3>. QED BY <2>8, <3>2, <3>3, SessionSteps
    <2>9. CASE t \notin stale' /\ row[t].state # "absent" /\ row'[t].state # row[t].state
      <3>1. /\ LifeOf[t] = row[t].state /\ HasWin[t] = Alive(row[t].window)
            /\ LifeOf' = [LifeOf EXCEPT ![t] = row'[t].state]
        BY <1>4, <2>1, <2>2, <2>9
      <3>2. HasSes' = HasSes
        BY <2>2, <2>4, <2>9, LifeSteps
      <3>3. \/ LifeOf[t] = "active" /\ row'[t].state = "parked"
            \/ LifeOf[t] = "parked" /\ row'[t].state = "active"
            \/ LifeOf[t] = "dormant" /\ row'[t].state = "active" /\ HasSes[t]
            \/ LifeOf[t] \in Life!Living /\ ~HasWin[t] /\ row'[t].state = "dormant"
            \/ LifeOf[t] \in Life!Living /\ ~HasWin[t] /\ row'[t].state = "failed" /\ ~HasSes[t]
            \/ /\ LifeOf[t] \in Life!Living \cup {"dormant", "failed"} /\ row'[t].state = "completed"
               /\ LifeOf[t] \in Life!Living => ~HasWin[t]
        BY <2>2, <2>9, <3>1, LifeSteps DEF Living, Life!Living
      <3>4. \/ Life!Park(t) \/ Life!Unpark(t) \/ Life!Thaw(t) \/ Life!Freeze(t) \/ Life!Fail(t)
            \/ Life!Complete(t)
        BY <3>1, <3>2, <3>3 DEF Life!Park, Life!Unpark, Life!Thaw, Life!Freeze, Life!Fail, Life!Complete,
           Life!Becomes, LifeOf, HasWin, HasSes
      <3>. QED BY <1>2, <3>4 DEF Life!Next, HasWin
    <2>. QED BY <2>6, <2>7, <2>8, <2>9
  <1>. QED BY <1>3, <1>4, OneRow

\* A task goes through the states that architecture.md draws, each change with what
\* it needs: it stops only when its window has gone, is thawed only when there is a
\* session to resume, and fails only when there is none. Operations may overlap,
\* fail and die as they like; a write from an outdated copy sends it astray.
THEOREM StatesFollowed == Spec => FollowsStates
  <1>1. Init => Life!Init
    <2>1. ASSUME Init, NEW t \in Tasks
          PROVE  t \notin stale /\ row[t].state = "absent" /\ ~Alive(row[t].window) /\ row[t].session = FALSE
      BY <2>1 DEF Init, NoRow, Alive
    <2>2. Init => /\ LifeOf = [t \in Tasks |-> "absent"] /\ HasWin = [t \in Tasks |-> FALSE]
                  /\ HasSes = [t \in Tasks |-> FALSE]
      <3>1. ASSUME Init PROVE \A t \in Tasks : Alive(row[t].window) = FALSE
        BY <2>1, <3>1 DEF Alive
      <3>. QED BY <2>1, <3>1 DEF LifeOf, HasWin, HasSes
    <2>. QED BY <2>2 DEF Life!Init, LifeOf, HasWin, HasSes
  <1>2. IInv /\ IInv' /\ [Next]_vars => [Life!Next]_(Life!vars)
    BY StepFollows
  <1>. QED BY <1>1, <1>2, Invariance, PTL DEF Spec, FollowsStates, Life!Spec

\* What the states are worth: whatever goes through them brings no finished task
\* back, and calls none stopped before its window has gone. This uses the steps of
\* TaskStates alone, and that the rows hold states.
THEOREM StatesAreFinal == FollowsStates /\ []TypeOK => TerminalIsFinal /\ WindowGoneFirst
  <1> DEFINE Finished == \A t \in Tasks : t \notin stale' => Ended(t)
             GoneFirst == \A t \in Tasks : t \notin stale' /\ row[t].state \in Living /\ row'[t].state \notin Living
                             => ~Alive(row[t].window)
  <1>1. ASSUME TypeOK, TypeOK', [Life!Next]_(Life!vars), NEW t \in Tasks, t \notin stale'
        PROVE  /\ Ended(t)
               /\ row[t].state \in Living /\ row'[t].state \notin Living => ~Alive(row[t].window)
    <2>1. /\ LifeOf[t] = IF t \in stale THEN "astray" ELSE row[t].state
          /\ LifeOf'[t] = row'[t].state
          /\ HasWin[t] = Alive(row[t].window)
      BY <1>1 DEF LifeOf, HasWin
    <2>2. row[t].state \in States /\ row'[t].state \in States
      BY <1>1 DEF TypeOK, Row
    <2>3. \/ LifeOf' = LifeOf
          \/ \E u \in Tasks, to \in States :
                /\ LifeOf' = [LifeOf EXCEPT ![u] = to]
                /\ LifeOf[u] # "astray" /\ LifeOf[u] # "completed"
                /\ LifeOf[u] = "failed" => to = "completed"
                /\ LifeOf[u] \in Living => to \in Living \/ ~HasWin[u]
          \/ \E u \in Tasks : LifeOf' = [LifeOf EXCEPT ![u] = "astray"]
      <3>1. CASE UNCHANGED Life!vars
        BY <3>1 DEF Life!vars, LifeOf
      <3>2. CASE Life!Elsewhere
        BY <3>2 DEF Life!Elsewhere, LifeOf
      <3>3. ASSUME NEW u \in Tasks, Life!Create(u) \/ Life!Import(u) \/ Life!Park(u) \/ Life!Unpark(u) \/ Life!Thaw(u)
            PROVE  \E to \in States :
                      /\ LifeOf' = [LifeOf EXCEPT ![u] = to]
                      /\ LifeOf[u] # "astray" /\ LifeOf[u] # "completed" /\ LifeOf[u] # "failed"
                      /\ LifeOf[u] \in Living => to \in Living
        BY <3>3 DEF Life!Create, Life!Import, Life!Park, Life!Unpark, Life!Thaw, Life!Becomes, LifeOf, Living, States
      <3>4. ASSUME NEW u \in Tasks, Life!Freeze(u) \/ Life!Fail(u) \/ Life!Complete(u)
            PROVE  \E to \in States :
                      /\ LifeOf' = [LifeOf EXCEPT ![u] = to]
                      /\ LifeOf[u] # "astray" /\ LifeOf[u] # "completed"
                      /\ LifeOf[u] = "failed" => to = "completed"
                      /\ LifeOf[u] \in Living => ~HasWin[u]
        BY <3>4 DEF Life!Freeze, Life!Fail, Life!Complete, Life!Becomes, Life!Living, LifeOf, HasWin, Living, States
      <3>5. ASSUME NEW u \in Tasks, Life!Learn(u) \/ Life!Astray(u)
            PROVE  LifeOf' = LifeOf \/ LifeOf' = [LifeOf EXCEPT ![u] = "astray"]
        BY <3>5 DEF Life!Learn, Life!Astray, LifeOf
      <3>. QED BY <1>1, <3>1, <3>2, <3>3, <3>4, <3>5 DEF Life!Next
    <2>4. CASE LifeOf' = LifeOf
      BY <2>1, <2>2, <2>4 DEF Ended, Terminal, States
    <2>5. ASSUME NEW u \in Tasks, NEW to \in States,
                 LifeOf' = [LifeOf EXCEPT ![u] = to], LifeOf[u] # "astray", LifeOf[u] # "completed",
                 LifeOf[u] = "failed" => to = "completed", LifeOf[u] \in Living => to \in Living \/ ~HasWin[u]
          PROVE  /\ Ended(t)
                 /\ row[t].state \in Living /\ row'[t].state \notin Living => ~Alive(row[t].window)
      <3>1. LifeOf'[t] = IF t = u THEN to ELSE LifeOf[t]
        BY <2>5 DEF LifeOf
      <3>. QED BY <2>1, <2>2, <2>5, <3>1 DEF Ended, Terminal, States
    <2>6. ASSUME NEW u \in Tasks, LifeOf' = [LifeOf EXCEPT ![u] = "astray"]
          PROVE  /\ Ended(t)
                 /\ row[t].state \in Living /\ row'[t].state \notin Living => ~Alive(row[t].window)
      <3>1. LifeOf'[t] = IF t = u THEN "astray" ELSE LifeOf[t]
        BY <2>6 DEF LifeOf
      <3>. QED BY <2>1, <2>2, <3>1 DEF Ended, Terminal, States
    <2>. QED BY <2>3, <2>4, <2>5, <2>6
  <1>2. TypeOK /\ TypeOK' /\ [Life!Next]_(Life!vars) => [Finished]_vars /\ [GoneFirst]_vars
    BY <1>1
  <1>. QED BY <1>2, PTL DEF FollowsStates, Life!Spec, TerminalIsFinal, WindowGoneFirst
================================================================================
