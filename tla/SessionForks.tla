------------------------------ MODULE SessionForks -----------------------------
(***************************************************************************)
(* Which task an event belongs to, and where the transcripts of sessions   *)
(* are, while Claudes are forked, change directory and start new sessions. *)
(*                                                                         *)
(* krang knows a Claude by the session id and the directory its events     *)
(* carry. The Claude of a fork first reports under the session of its      *)
(* source; krang marks that session as contested before it starts one in a *)
(* workspace of its own, and tells the two apart by their directories. A   *)
(* fork, and a Claude that starts a new session, is adopted on the first   *)
(* event with an unknown session id. Claude finds a session by the project *)
(* directory of its transcript, so an independent fork gets a copy of its  *)
(* source's transcript, which is removed when it has served. A session may *)
(* also be imported, from krang's own ones or another's.                   *)
(*                                                                         *)
(* Every task but an imported one and its forks has a workspace; the       *)
(* working copies in it are the subject of WorkspaceSlots, what an event   *)
(* shows that of HookAttention, freezing a task that of TaskLifecycle.      *)
(***************************************************************************)
EXTENDS Naturals, FiniteSets, Sequences, FiniteSetsExt

CONSTANTS
    Tasks,        \* rows of the tasks table, each naming a directory of its own
    Sessions,     \* session ids; nobody makes one twice
    ChanCap,      \* bound: events on their way to Update
    MaxSteps,     \* bound: posts, moves, imports, parkings and restarts together
    None

ASSUME BoundAssumption == ChanCap \in Nat /\ MaxSteps \in Nat

VARIABLES
    row,        \* the rows
    created,    \* the tasks in the order of their rows, as List returns them
    contested,  \* contestedSessions: where the fork of a session will be
    dialog,     \* the copy of a row that the fork dialog was opened on
    fork,       \* the progress flow of an independent fork
    events,     \* what Claudes have posted and Update has not handled
    jobs,       \* goroutines about to record the directory of an event
    closing,    \* completions at work: the transcripts each is going to remove
    claude,     \* the Claude in each task's window
    files,      \* transcripts: session and project directory
    home,       \* where a session was started, so where its transcript is
    steps       \* how much of MaxSteps is used

tables == <<row, created>>
krang  == <<contested, dialog, fork, jobs, closing>>
world  == <<claude, files, home>>
vars   == <<tables, krang, events, world, steps>>

--------------------------------------------------------------------------------
\* The root of a workspace, or a working copy in it; for a session from elsewhere
\* that is imported, the root is the directory that Claude was run in.
Dir     == [ws : Tasks, sub : BOOLEAN]
Root(t) == [ws |-> t, sub |-> FALSE]

ASSUME NoneAssumption == None \notin Tasks \cup Sessions \cup Dir

Row   == [state : {"absent", "active", "parked", "dormant", "completed"}, session : Sessions \cup {None},
          cwd : Dir \cup {None}, ws : Tasks \cup {None}, source : Tasks \cup {None}]
NoRow == [state |-> "absent", session |-> None, cwd |-> None, ws |-> None, source |-> None]

\* A Claude: the session it reports, where it is now and where it was launched.
Claude   == [says : Sessions, cwd : Dir, project : Dir]
NoClaude == None

Event == [from : Tasks, session : Sessions, cwd : Dir]
Dialog == [source : Tasks, session : Sessions, cwd : Dir, ws : Tasks \cup {None}]
Fork  == [task : Tasks, source : Tasks, session : Sessions, from : Dir, step : {"copy", "launch"}]

TypeOK ==
    /\ row \in [Tasks -> Row]
    /\ created \in Seq(Tasks)
    /\ contested \in [Sessions -> Dir \cup {None}]
    /\ dialog \in Dialog \cup {None}
    /\ fork \in Fork \cup {None}
    /\ events \in Seq(Event) /\ Len(events) <= ChanCap
    /\ jobs \subseteq [task : Tasks, cwd : Dir]
    /\ closing \in [Tasks -> (SUBSET (Sessions \X Dir)) \cup {None}]
    /\ claude \in [Tasks -> Claude \cup {NoClaude}]
    /\ files \subseteq Sessions \X Dir
    /\ home \in [Sessions -> Dir \cup {None}]
    /\ steps \in 0..MaxSteps

Init ==
    /\ row = [t \in Tasks |-> NoRow] /\ created = <<>>
    /\ contested = [s \in Sessions |-> None] /\ dialog = None /\ fork = None /\ jobs = {}
    /\ closing = [t \in Tasks |-> None] /\ events = <<>>
    /\ claude = [t \in Tasks |-> NoClaude] /\ files = {} /\ home = [s \in Sessions |-> None]
    /\ steps = 0

Unused(t)   == row[t].state = "absent" /\ (fork # None => fork.task # t)
New(s)      == home[s] = None

\* Where the tasks of S stand in List, which leaves out the completed ones.
Listed(S)   == {i \in DOMAIN created : created[i] \in S /\ row[created[i]].state # "completed"}
FirstIn(S)  == IF Listed(S) = {} THEN None ELSE created[Min(Listed(S))]

--------------------------------------------------------------------------------
(* Claudes.                                                                *)

Step == steps < MaxSteps /\ steps' = steps + 1

Run(t, s, dir) == claude' = [claude EXCEPT ![t] = [says |-> s, cwd |-> dir, project |-> dir]]
Begins(s, dir) ==
    /\ home' = [home EXCEPT ![s] = dir]
    /\ files' = files \cup {<<s, dir>>}

\* A forked Claude takes a session of its own, any Claude a new one (/clear);
\* the transcript stays with the project it was launched in.
NewSession(t, s) ==
    /\ claude[t] # NoClaude /\ New(s)
    /\ claude' = [claude EXCEPT ![t].says = s]
    /\ Begins(s, claude[t].project)
    /\ UNCHANGED <<tables, krang, events, steps>>

\* It changes into a working copy, or back.
ChangeDir(t) ==
    /\ claude[t] # NoClaude /\ Step
    /\ claude' = [claude EXCEPT ![t].cwd.sub = ~@]
    /\ UNCHANGED <<tables, krang, events, files, home>>

Post(t) ==
    /\ claude[t] # NoClaude /\ Len(events) < ChanCap /\ Step
    /\ events' = Append(events, [from |-> t, session |-> claude[t].says, cwd |-> claude[t].cwd])
    /\ UNCHANGED <<tables, krang, world>>

--------------------------------------------------------------------------------
(* New tasks and forks.                                                    *)

Insert(t, state, s, cwd, ws, source) ==
    /\ row' = [row EXCEPT ![t] = [state |-> state, session |-> s, cwd |-> cwd,
                                  ws |-> ws, source |-> source]]
    /\ created' = Append(created, t)

Create(t, s) ==
    /\ Unused(t) /\ New(s)
    /\ Insert(t, "active", s, Root(t), t, None)
    /\ Run(t, s, Root(t)) /\ Begins(s, Root(t))
    /\ UNCHANGED <<krang, events, steps>>

\* Any session id that has a transcript, whoever has it already, is imported: one
\* of krang's, found in some project, or that of a Claude of the user.
Import(t, s) ==
    /\ Unused(t) /\ Step
    /\ \/ New(s) /\ Begins(s, Root(t)) /\ Insert(t, "dormant", s, Root(t), None, None)
       \/ \E d \in Dir : <<s, d>> \in files /\ Insert(t, "dormant", s, d, None, None)
          /\ UNCHANGED <<files, home>>
    /\ UNCHANGED <<krang, events, claude>>

\* It is thawed where its transcript is: in the recorded directory if it is there.
Wake(t) ==
    LET there == {d \in Dir : <<row[t].session, d>> \in files}
    IN  /\ row[t].state = "dormant" /\ closing[t] = None
        /\ row' = [row EXCEPT ![t].state = "active"]
        /\ \E d \in there : /\ row[t].cwd \in there => d = row[t].cwd
                            /\ Run(t, row[t].session, d)
        /\ UNCHANGED <<created, krang, events, files, home, steps>>

\* A parked task's Claude runs on, but is not looked for.
Park(t) ==
    /\ row[t].state = "active" /\ Step
    /\ row' = [row EXCEPT ![t].state = "parked"]
    /\ UNCHANGED <<created, krang, events, world>>

Unpark(t) ==
    /\ row[t].state = "parked" /\ Step
    /\ row' = [row EXCEPT ![t].state = "active"]
    /\ UNCHANGED <<created, krang, events, world>>

Forkable(src) == row[src].state \in {"active", "parked", "dormant"} /\ row[src].session # None

\* What is forked is the row as it is now, however long the dialog stays open; the
\* progress modal of another fork keeps it from being opened.  (Where no row is
\* left, nothing would come of it.)
OpenDialog(src) ==
    /\ Forkable(src) /\ dialog = None /\ fork = None /\ \E t \in Tasks : Unused(t)
    /\ dialog' = [source |-> src, session |-> row[src].session, cwd |-> row[src].cwd,
                  ws |-> row[src].ws]
    /\ UNCHANGED <<tables, contested, fork, jobs, closing, events, world, steps>>

CloseDialog ==
    /\ dialog # None /\ dialog' = None
    /\ UNCHANGED <<tables, contested, fork, jobs, closing, events, world, steps>>

\* A shared fork starts at once, in the root of its source's workspace if it has
\* one; where it has none, no other fork is possible.
ForkShared(t) ==
    LET dir == IF dialog.ws = None THEN dialog.cwd ELSE Root(dialog.ws)
    IN  /\ dialog # None /\ dialog' = None /\ Unused(t)
        /\ Insert(t, "active", None, dir, dialog.ws, dialog.source)
        /\ Run(t, dialog.session, dir)
        /\ UNCHANGED <<contested, fork, jobs, closing, events, files, home, steps>>

\* An independent fork: mark the session, then build the workspace.
StartFork(t) ==
    /\ dialog # None /\ dialog' = None /\ dialog.ws # None /\ Unused(t) /\ fork = None
    /\ contested' = [contested EXCEPT ![dialog.session] = Root(t)]
    /\ fork' = [task |-> t, source |-> dialog.source, session |-> dialog.session,
                from |-> Root(dialog.ws), step |-> "copy"]
    /\ UNCHANGED <<tables, jobs, closing, events, world, steps>>

\* The flow is cancelled or its directory cannot be made; the mark stays.
AbandonFork ==
    /\ fork # None /\ fork.step = "copy" /\ fork' = None
    /\ UNCHANGED <<tables, contested, dialog, jobs, closing, events, world, steps>>

\* CopySessionFiles; when it fails the fork is launched all the same.
CopySession ==
    /\ fork # None /\ fork.step = "copy"
    /\ fork' = [fork EXCEPT !.step = "launch"]
    /\ \/ <<fork.session, fork.from>> \in files
          /\ files' = files \cup {<<fork.session, Root(fork.task)>>}
       \/ UNCHANGED files
    /\ UNCHANGED <<tables, contested, dialog, jobs, closing, events, claude, home, steps>>

LaunchFork ==
    /\ fork # None /\ fork.step = "launch"
    /\ Insert(fork.task, "active", None, Root(fork.task), fork.task, fork.source)
    /\ Run(fork.task, fork.session, Root(fork.task))
    /\ fork' = None
    /\ UNCHANGED <<contested, dialog, jobs, closing, events, files, home, steps>>

\* No window, or no row: the fork ends and leaves the copy behind.
LaunchFails ==
    /\ fork # None /\ fork.step = "launch" /\ fork' = None
    /\ UNCHANGED <<tables, contested, dialog, jobs, closing, events, world, steps>>

--------------------------------------------------------------------------------
(* An event arrives (HookEventMsg).                                        *)

Owners(s)   == {t \in Tasks : row[t].state # "absent" /\ row[t].session = s}
Adoptable   == {t \in Tasks : row[t].state = "active"}
Pending     == {t \in Adoptable : row[t].session = None}

\* Where a session has several tasks, its events are those of the oldest.
Owner(s)    == created[Min({i \in DOMAIN created : created[i] \in Owners(s)})]

\* mutant: whatever the directory of the event
RouteByMark(e) ==
    LET t  == Owner(e.session)
        ft == FirstIn({u \in Pending : row[u].cwd = contested[e.session]})
    IN  IF contested[e.session] # None /\ ft # None THEN ft ELSE t

\* The session is known: its task, or the fork it is contested by if the event
\* comes from another directory than the one recorded for the task.
RouteKnown(e) ==
    LET t  == Owner(e.session)
        ft == FirstIn({u \in Pending : row[u].cwd = contested[e.session]})
    IN  IF contested[e.session] # None /\ e.cwd # row[t].cwd /\ ft # None THEN ft ELSE t

\* It is not: a pending fork whose workspace the event comes from, or else a
\* task that is recorded to be in that very directory.
Adopter(e) ==
    LET fresh == FirstIn({t \in Pending : e.cwd = row[t].cwd \/ e.cwd.ws = row[t].ws})
    IN  IF fresh # None THEN fresh ELSE FirstIn({t \in Adoptable : row[t].cwd = e.cwd})

Route(e) == IF Owners(e.session) # {} THEN RouteKnown(e) ELSE Adopter(e)

\* mutant: whatever the two directories are
CopyAlways(src, t) ==
    IF src = None \/ row[src].session = None THEN {} ELSE {<<row[src].session, row[t].cwd>>}

\* What CleanupCopiedSession takes for the copy a fork was started with, by the
\* directories that are recorded when it is told.
Copy(src, t) ==
    IF src = None \/ row[src].session = None \/ row[src].cwd = row[t].cwd THEN {}
    ELSE {<<row[src].session, row[t].cwd>>}

\* mutant: a fork is adopted under any session
AdoptAny(e, t) ==
    /\ row' = [row EXCEPT ![t].session = e.session]
    /\ UNCHANGED <<files, contested>>

\* mutant: the copy is left for Complete, which no longer finds its session
AdoptUncleaned(e, t) ==
    IF Owners(e.session) # {} THEN UNCHANGED <<row, files, contested>>
    ELSE /\ row' = [row EXCEPT ![t].session = e.session]
         /\ contested' = [s \in Sessions |-> None]
         /\ UNCHANGED files

\* A fork that gets its session gives up the mark and the copy.
Adopt(e, t) ==
    LET src == row[t].source
    IN  IF Owners(e.session) # {} THEN UNCHANGED <<row, files, contested>>
        ELSE /\ row' = [row EXCEPT ![t].session = e.session]
             /\ IF row[t].session = None /\ src # None /\ row[src].session # None
                THEN /\ files' = files \ Copy(src, t)
                     /\ contested' = [contested EXCEPT ![row[src].session] = None]
                ELSE UNCHANGED <<files, contested>>

HandleEvent ==
    LET e == Head(events)
        t == Route(e)
    IN  /\ events # <<>>
        /\ events' = Tail(events)
        /\ IF t = None THEN UNCHANGED <<row, files, contested, jobs>>
           ELSE Adopt(e, t) /\ jobs' = jobs \cup {[task |-> t, cwd |-> e.cwd]}
        /\ UNCHANGED <<created, dialog, fork, closing, claude, home, steps>>

\* The goroutine of an event records where it came from, or fails to.
RecordCwd(j) ==
    /\ j \in jobs /\ jobs' = jobs \ {j}
    /\ \/ row' = [row EXCEPT ![j.task].cwd = j.cwd]
       \/ UNCHANGED row
    /\ UNCHANGED <<created, contested, dialog, fork, closing, events, world, steps>>

--------------------------------------------------------------------------------
\* Complete reads the rows, and from them what it is going to remove: a fork that
\* was never adopted should leave no copy.  Closing the window takes seconds.
Complete(t) ==
    /\ row[t].state \in {"active", "parked", "dormant"} /\ closing[t] = None
    /\ closing' = [closing EXCEPT ![t] = Copy(row[t].source, t)]
    /\ UNCHANGED <<tables, contested, dialog, fork, jobs, events, world, steps>>

Completed(t) ==
    /\ closing[t] # None /\ closing' = [closing EXCEPT ![t] = None]
    /\ row' = [row EXCEPT ![t].state = "completed"]
    /\ claude' = [claude EXCEPT ![t] = NoClaude]
    /\ files' = files \ closing[t]
    /\ UNCHANGED <<created, contested, dialog, fork, jobs, events, home, steps>>

\* The window cannot be closed or the row not be written.
CompleteFails(t) ==
    /\ closing[t] # None /\ closing' = [closing EXCEPT ![t] = None]
    /\ UNCHANGED <<tables, contested, dialog, fork, jobs, events, world, steps>>

\* krang ends and starts again; the Claudes run on, and forget what they posted.
Restart ==
    /\ Step
    /\ contested' = [s \in Sessions |-> None] /\ dialog' = None /\ fork' = None /\ jobs' = {}
    /\ closing' = [t \in Tasks |-> None] /\ events' = <<>>
    /\ UNCHANGED <<tables, world>>

Next ==
    \/ \E t \in Tasks, s \in Sessions : Create(t, s) \/ Import(t, s) \/ NewSession(t, s)
    \/ \E t \in Tasks : ChangeDir(t) \/ Post(t) \/ Wake(t) \/ Park(t) \/ Unpark(t)
    \/ \E t \in Tasks : Complete(t) \/ Completed(t) \/ CompleteFails(t)
    \/ \E t \in Tasks : OpenDialog(t) \/ ForkShared(t) \/ StartFork(t)
    \/ CloseDialog
    \/ AbandonFork \/ CopySession \/ LaunchFork \/ LaunchFails
    \/ HandleEvent
    \/ \E j \in jobs : RecordCwd(j)
    \/ Restart

Spec == Init /\ [][Next]_vars

--------------------------------------------------------------------------------
(* Properties.                                                             *)

\* A session belongs to one task, as events, a thaw and a fork go by it, unless it
\* was imported: an import does not ask who has the session.
Imported(t) == row[t].state # "absent" /\ row[t].ws = None /\ row[t].source = None
OneTaskPerSession ==
    \A t, u \in Tasks : t # u /\ row[t].session # None /\ row[t].session = row[u].session
                           => Imported(t) \/ Imported(u)

\* A row is there in full, or not at all: a workspace is that of the task it was
\* created for, and a task has a session or the source it will come from.
Rows ==
    \A t \in Tasks :
        /\ row[t].state = "absent" => row[t] = NoRow
        /\ row[t].state # "absent" =>
              /\ \E i \in DOMAIN created : created[i] = t
              /\ row[t].cwd # None
              /\ row[t].ws # None => row[row[t].ws].state # "absent" /\ row[row[t].ws].ws = row[t].ws
              /\ row[t].session = None => row[t].source # None
        /\ row[t].state = "dormant" => row[t].session # None /\ row[t].ws = None /\ row[t].source = None
        /\ row[t].source # None => row[row[t].source].session # None

\* Whoever names a session names one that was started; whoever names a task names
\* one that has a row, or is about to get it; only a task at work is completed.
Known ==
    /\ \A t \in Tasks :
          /\ row[t].session # None => home[row[t].session] # None
          /\ claude[t] # NoClaude => row[t].state \in {"active", "parked"} /\ home[claude[t].says] # None
          /\ closing[t] # None => row[t].state # "absent"
    /\ \A i \in DOMAIN events : row[events[i].from].state # "absent" /\ home[events[i].session] # None
    /\ \A j \in jobs : row[j.task].state # "absent"
    /\ dialog # None => /\ row[dialog.source].session # None /\ home[dialog.session] # None
                        /\ row[dialog.source].state # "absent" /\ row[dialog.source].ws = dialog.ws
    /\ fork # None => /\ row[fork.task].state = "absent" /\ row[fork.source].session # None
                      /\ home[fork.session] # None
    /\ \A s \in Sessions, d \in Dir : <<s, d>> \in files => home[s] # None

\* While every task has a workspace of its own, sessions are started in one, and a
\* Claude that speaks of a session of another task has started none; what it said
\* then is ahead of what it says since.
Unshared   == \A t \in Tasks : row[t].state # "absent" => row[t].ws = t
Own(t, s)  == home[s] = Root(t)
BorrowsFirst ==
    Unshared =>
        /\ \A s \in Sessions : home[s] # None => \E t \in Tasks : Own(t, s) /\ row[t].state # "absent"
        /\ \A t \in Tasks : claude[t] # NoClaude =>
              /\ claude[t].project = Root(t)
              /\ Own(t, claude[t].says) \/ \A s \in Sessions : ~Own(t, s)
        /\ \A i \in DOMAIN events : ~Own(events[i].from, events[i].session) =>
              /\ \A j \in 1..(i - 1) : ~Own(events[i].from, events[j].session)
              /\ \A t \in Tasks : row[t].session # None => ~Own(events[i].from, row[t].session)

\* All of this has its type, the bound of the hook channel included, events
\* cannot name two tasks, and the rest that keeps both so.
Inv == TypeOK /\ OneTaskPerSession /\ Rows /\ Known /\ BorrowsFirst

\* The directory of an event tells whose it is: every task is recorded in the
\* root of a workspace of its own, with no session or one that was started
\* there, and the event comes from there.
Alone(t)   == \A u \in Tasks \ {t} : row[u].state # "absent" => row[u].ws # row[t].ws
AtHome(t)  == /\ row[t].cwd = Root(row[t].ws)
              /\ row[t].session # None => home[row[t].session] = Root(row[t].ws)
Settled(e) == /\ row[e.from].state = "active" /\ e.cwd = Root(row[e.from].ws)
              /\ \A t \in Tasks : row[t].state # "absent" => Alone(t) /\ AtHome(t)

\* Such an event goes to the task of the Claude that sent it, or to none: also
\* while that Claude is a fork that still reports under its source's session,
\* as long as the session is marked.
RoutedToSender ==
    events # <<>> =>
        LET e == Head(events)
        IN  Settled(e) /\ (row[e.from].session = None /\ Owners(e.session) # {}
                              => contested[e.session] = row[e.from].cwd)
            => Route(e) \in {e.from, None}

\* No step takes a session's transcript from where the session was started
\* ("removing would delete the source's real session file", manager.go:860),
Gone(s) == home[s] # None /\ <<s, home[s]>> \in files /\ <<s, home[s]>> \notin files'
HomeTranscriptKept == [][\A s \in Sessions : ~Gone(s)]_vars

\* ... nor lets a completion set out to do so, unless a task of that session is
\* recorded in another directory then.
Kept(s) == /\ home[s] # None /\ <<s, home[s]>> \in files
           /\ \A t \in Tasks : closing[t] # None => <<s, home[s]>> \notin closing[t]
HomeTranscriptKeptAtHome ==
    [][\A s \in Sessions : Kept(s) /\ ~Kept(s)' => \E t \in Owners(s) : row[t].cwd # home[s]]_vars

\* Adoption removes the copy: a thaw of the source would find it otherwise and
\* start in the fork's workspace.
CopyGone ==
    [][\A t \in Tasks : row[t].state = "active" /\ row[t].session = None /\ row'[t].session # None
                        /\ row[t].cwd = Root(t) /\ row[row[t].source].cwd # Root(t) =>
          <<row[row[t].source].session, Root(t)>> \notin files']_vars
================================================================================
