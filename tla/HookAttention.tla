---------------------------- MODULE HookAttention ------------------------------
(***************************************************************************)
(* From a hook of Claude Code to the attention shown for its task.         *)
(*                                                                         *)
(* A hook posts to krang's server, whose handler sends the event into a    *)
(* channel of bounded size. A command that arms itself again receives one  *)
(* event at a time for the Update loop. Update keeps in memory which agent *)
(* of the task waits for a permission, counts the events of the task, and  *)
(* starts a goroutine that reads the row and writes its attention; for a   *)
(* Stop that said something it also starts a classification by a model,    *)
(* whose verdict is written by yet another goroutine. Nothing orders these *)
(* goroutines. SQLite may refuse a write, and nobody looks at the error.   *)
(*                                                                         *)
(* The counts of subagents and of background processes, the event log and  *)
(* the colour of the window follow the same events and are left out.       *)
(* Which task an event belongs to is the subject of SessionForks.          *)
(***************************************************************************)
EXTENDS Naturals, FiniteSets, Sequences

CONSTANTS
    Tasks,      \* rows of the tasks table
    Agents,     \* Main and the subagents of a Claude
    Main,
    Kinds,      \* the hook events sent, a subset of AllKinds
    ChanCap,    \* capacity of the hookEvents channel
    MaxPosts,   \* bound: how many are being posted at once
    MaxEvents,  \* bound: how many events are posted in all
    None

AllKinds == {"SessionStart", "UserPromptSubmit", "Stop", "StopSilent", "PermissionRequest",
             "PreToolUse", "PostToolUse", "PostToolUseFailure", "StopFailure", "TaskCompleted",
             "PermissionPrompt", "IdlePrompt", "SubagentStart", "SubagentStop", "SessionEnd"}

ASSUME KindsAssumption == Kinds \subseteq AllKinds
ASSUME MainAssumption  == Main \in Agents
ASSUME CapAssumption   == ChanCap \in Nat \ {0} /\ MaxPosts \in Nat /\ MaxEvents \in Nat

VARIABLES
    krang,      \* the process: up, Update loop ended, server stopped
    posts,      \* HTTP handlers at work, each in the callback with its event
    channel,    \* hookEvents
    pump,       \* waitForHookEvent: what it received, None while it waits
    posted,     \* how many events have been posted
    state,      \* the row: is the task live or has it ended
    attention,  \* the row: its attention
    perms,      \* pendingPerms: agents with an unresolved permission
    gen,        \* classifyGen: events handled so far
    spinner,    \* pendingOps: tasks with a classification to wait for
    jobs,       \* goroutines at work on an attention
    ending,     \* tasks that Complete has marked and not yet set to done
    shown,      \* auxiliary: what the attention would be if every decision of
                \* Update were written at once
    muddled     \* auxiliary: tasks of which a goroutine worked while an older
                \* one had not finished, or whose write was refused

row    == <<state, attention, ending>>
memory == <<perms, gen, spinner>>
ghosts == <<shown, muddled>>
pipe   == <<posts, channel, pump, posted>>
vars   == <<krang, pipe, row, memory, jobs, ghosts>>

--------------------------------------------------------------------------------
Attentions == {"ok", "waiting", "permission", "error", "done"}

\* Events of sessions that belong to no task (task None) are posted as well.
Event == [task : Tasks \cup {None}, kind : AllKinds, agent : Agents]

ASSUME NoneAssumption == None \notin Tasks \cup Attentions \cup Event

\* What a goroutine works on: an event (read the row, then write), the question
\* to a model (whose answer is a message), or an answer to write. n counts the
\* task's events when it was started; verdict is what there is to write.
Job == [work : {"event", "classify", "apply"}, task : Tasks, n : Nat,
        kind : AllKinds, suppress : BOOLEAN, verdict : Attentions \cup {None}]

TypeOK ==
    /\ krang \in {"up", "stopping", "down"}
    /\ posts \subseteq Event
    /\ channel \in Seq(Event) /\ Len(channel) <= ChanCap
    /\ pump \in Event \cup {None}
    /\ posted \in 0..MaxEvents
    /\ state \in [Tasks -> {"live", "completed", "failed"}]
    /\ attention \in [Tasks -> Attentions]
    /\ perms \in [Tasks -> SUBSET Agents]
    /\ gen \in [Tasks -> Nat]
    /\ spinner \subseteq Tasks
    /\ jobs \subseteq Job
    /\ ending \subseteq Tasks
    /\ shown \in [Tasks -> Attentions]
    /\ muddled \subseteq Tasks

\* What krang remembers starts empty; the attention is what the last run left.
Init ==
    /\ krang = "up"
    /\ posts = {} /\ channel = <<>> /\ pump = None /\ posted = 0
    /\ state = [t \in Tasks |-> "live"] /\ attention \in [Tasks -> Attentions]
    /\ perms = [t \in Tasks |-> {}] /\ gen = [t \in Tasks |-> 0] /\ spinner = {}
    /\ jobs = {} /\ ending = {}
    /\ shown = attention /\ muddled = {}

--------------------------------------------------------------------------------
(* What an event means (hooks/handler.go); None is no attention at all.    *)

AttentionFromEvent(kind) ==
    CASE kind \in {"SessionStart", "UserPromptSubmit", "PostToolUse", "PostToolUseFailure",
                   "SessionEnd"}                          -> "ok"
      [] kind \in {"Stop", "StopSilent", "IdlePrompt"}    -> "waiting"
      [] kind \in {"PermissionRequest", "PermissionPrompt"} -> "permission"
      [] kind = "StopFailure"                             -> "error"
      [] kind = "TaskCompleted"                           -> "done"
      [] OTHER                                            -> None

\* Only a Stop with a last message is classified.
Classifying(kind) == kind = "Stop"

\* The permissions that are pending after the event.  Clearing them all is the
\* way out for a denied permission, which no PostToolUse ever follows.
PermsAfter(ps, kind, agent) ==
    CASE kind \in {"Stop", "StopSilent", "SessionEnd", "UserPromptSubmit"}        -> {}
      [] kind = "PermissionRequest"                                                -> ps \cup {agent}
      [] kind \in {"PostToolUse", "PostToolUseFailure", "SubagentStop"}            -> ps \ {agent}
      [] OTHER                                                                     -> ps

\* mutants: no look at the state; at the permissions of other agents
DecisionAnyState(st, att, kind, suppress) ==
    LET new == AttentionFromEvent(kind)
    IN  IF \/ Classifying(kind) /\ new = "waiting"
           \/ att = "done" /\ kind = "IdlePrompt"
           \/ suppress /\ new \notin {"permission", "error"}
        THEN None ELSE new
DecisionUnsuppressed(st, att, kind, suppress) ==
    LET new == AttentionFromEvent(kind)
    IN  IF \/ st # "live"
           \/ Classifying(kind) /\ new = "waiting"
           \/ att = "done" /\ kind = "IdlePrompt"
        THEN None ELSE new

\* What handleHookEvent writes, given the row it has read: None when a guard
\* says that the attention stays.
Decision(st, att, kind, suppress) ==
    LET new == AttentionFromEvent(kind)
    IN  IF \/ st # "live"                                \* late events of ended tasks
           \/ Classifying(kind) /\ new = "waiting"       \* the classifier decides
           \/ att = "done" /\ kind = "IdlePrompt"        \* ... and has decided
           \/ suppress /\ new \notin {"permission", "error"}
        THEN None ELSE new

Kept(old, new) == IF new = None THEN old ELSE new

--------------------------------------------------------------------------------
(* From the hook to the Update loop.                                       *)

\* Subagents use tools, ask for permissions and come and go; the rest of the
\* events, and here all events of sessions krang does not know, are Main's.
Sendable(e) ==
    /\ e.kind \in Kinds
    /\ e.agent # Main => e.task # None /\ e.kind \in
          {"PermissionRequest", "PreToolUse", "PostToolUse", "PostToolUseFailure",
           "SubagentStart", "SubagentStop"}
    /\ e.kind \in {"SubagentStart", "SubagentStop"} => e.agent # Main
    /\ e.task = None => e.kind = "Stop"

\* The relay script of a Claude posts an event.
Post(e) ==
    /\ krang = "up" /\ e \notin posts /\ Sendable(e)
    /\ posted < MaxEvents /\ Cardinality(posts) < MaxPosts
    /\ posts' = posts \cup {e} /\ posted' = posted + 1
    /\ UNCHANGED <<krang, channel, pump, row, memory, jobs, ghosts>>

\* mutant: a handler that needs the loop to be there
SendToLoop(e) ==
    /\ krang = "up" /\ e \in posts /\ Len(channel) < ChanCap
    /\ channel' = Append(channel, e) /\ posts' = posts \ {e}
    /\ UNCHANGED <<krang, pump, posted, row, memory, jobs, ghosts>>

\* The callback sends without a deadline: it waits while the channel is full,
\* also when the hook has given up after its five seconds.
Send(e) ==
    /\ krang # "down" /\ e \in posts /\ Len(channel) < ChanCap
    /\ channel' = Append(channel, e) /\ posts' = posts \ {e}
    /\ UNCHANGED <<krang, pump, posted, row, memory, jobs, ghosts>>

Receive ==
    /\ krang # "down" /\ pump = None /\ channel # <<>>
    /\ pump' = Head(channel) /\ channel' = Tail(channel)
    /\ UNCHANGED <<krang, posts, posted, row, memory, jobs, ghosts>>

--------------------------------------------------------------------------------
(* The Update loop.                                                        *)

\* mutant: an event that nobody claims is not followed by another receive
HandleUnknownForGood ==
    /\ krang = "up" /\ pump \in Event /\ pump.task = None
    /\ UNCHANGED vars

HandleUnknown ==
    /\ krang = "up" /\ pump \in Event /\ pump.task = None
    /\ pump' = None
    /\ UNCHANGED <<krang, posts, channel, posted, row, memory, jobs, ghosts>>

\* mutant: an old classification stays valid until there is a new one
CountedStops(t, kind) == IF Classifying(kind) THEN gen[t] + 1 ELSE gen[t]

\* Every event outdates the classification under way,
Counted(t, kind) == gen[t] + 1

\* mutant: ... and leaves its spinner on
SpinnerStays(t, kind) == IF Classifying(kind) THEN spinner \cup {t} ELSE spinner

\* ... and takes its spinner away.
SpinnerAfter(t, kind) == IF Classifying(kind) THEN spinner \cup {t} ELSE spinner \ {t}

Started(work, t, n, kind, suppress) ==
    [work |-> work, task |-> t, n |-> n, kind |-> kind, suppress |-> suppress, verdict |-> None]

HandleEvent ==
    LET t        == pump.task
        kind     == pump.kind
        n        == Counted(t, kind)
        left     == PermsAfter(perms[t], kind, pump.agent)
        suppress == left # {}
    IN  /\ krang = "up" /\ pump \in Event /\ t # None
        /\ perms' = [perms EXCEPT ![t] = left]
        /\ gen' = [gen EXCEPT ![t] = n]
        /\ spinner' = SpinnerAfter(t, kind)
        /\ jobs' = jobs \cup {Started("event", t, n, kind, suppress)}
                        \cup {Started("classify", t, n, k, suppress) : k \in {kind} \cap {"Stop"}}
        /\ shown' = [shown EXCEPT ![t] = Kept(@, Decision(state[t], @, kind, suppress))]
        /\ pump' = None
        /\ UNCHANGED <<krang, posts, channel, posted, row, muddled>>

\* mutant: a classification that failed is forgotten
HandleNoResult(j) ==
    /\ krang = "up" /\ j \in jobs /\ j.work = "classify" /\ j.verdict # None
    /\ spinner' = spinner \ {j.task}
    /\ jobs' = (jobs \ {j}) \cup (IF j.verdict = "done" /\ j.n = gen[j.task]
                                  THEN {[j EXCEPT !.work = "apply"]} ELSE {})
    /\ shown' = IF j.verdict = "done" /\ j.n = gen[j.task]
                THEN [shown EXCEPT ![j.task] = j.verdict] ELSE shown
    /\ UNCHANGED <<krang, pipe, row, perms, gen, muddled>>

\* classifyResultMsg: a verdict older than the newest event is dropped.
HandleResult(j) ==
    /\ krang = "up" /\ j \in jobs /\ j.work = "classify" /\ j.verdict # None
    /\ spinner' = spinner \ {j.task}
    /\ IF j.n = gen[j.task]
       THEN /\ jobs' = (jobs \ {j}) \cup {[j EXCEPT !.work = "apply"]}
            /\ shown' = [shown EXCEPT ![j.task] = j.verdict]
       ELSE /\ jobs' = jobs \ {j}
            /\ UNCHANGED shown
    /\ UNCHANGED <<krang, pipe, row, perms, gen, muddled>>

--------------------------------------------------------------------------------
(* The goroutines.  They go on after the Update loop has ended, until the  *)
(* process is gone.                                                        *)

\* An older goroutine of the same task, not counting the question to the model:
\* within one event, the event itself is older than the verdict on it.
Older(i, j) ==
    /\ i # j /\ i.task = j.task /\ i.work # "classify"
    /\ i.n < j.n \/ (i.n = j.n /\ i.work = "event")
Overtakes(j) == \E i \in jobs : Older(i, j)
Muddle(j)    == muddled' = IF Overtakes(j) THEN muddled \cup {j.task} ELSE muddled

\* handleHookEvent reads the row once and decides on what it has read.
Read(j) ==
    LET new == Decision(state[j.task], attention[j.task], j.kind, j.suppress)
    IN  /\ krang # "down" /\ j \in jobs /\ j.work = "event" /\ j.verdict = None
        /\ jobs' = (jobs \ {j}) \cup (IF new = None THEN {} ELSE {[j EXCEPT !.verdict = new]})
        /\ Muddle(j)
        /\ UNCHANGED <<krang, pipe, row, memory, shown>>

\* ... and writes it, whatever the row has become.  So does a verdict.
ToWrite(j) == krang # "down" /\ j \in jobs /\ j.work # "classify" /\ j.verdict # None

Write(j) ==
    /\ ToWrite(j)
    /\ attention' = [attention EXCEPT ![j.task] = j.verdict]
    /\ jobs' = jobs \ {j}
    /\ Muddle(j)
    /\ UNCHANGED <<krang, pipe, state, ending, memory, shown>>

WriteFails(j) ==
    /\ ToWrite(j)
    /\ jobs' = jobs \ {j} /\ muddled' = muddled \cup {j.task}
    /\ UNCHANGED <<krang, pipe, row, memory, shown>>

\* The model answers; an error counts as "waiting".
Classified(j) ==
    /\ krang # "down" /\ j \in jobs /\ j.work = "classify" /\ j.verdict = None
    /\ \E v \in {"waiting", "done"} : jobs' = (jobs \ {j}) \cup {[j EXCEPT !.verdict = v]}
    /\ UNCHANGED <<krang, pipe, row, memory, ghosts>>

\* Complete marks the task as completed, then its attention as done.
Complete(t) ==
    /\ krang = "up" /\ state[t] # "completed"
    /\ state' = [state EXCEPT ![t] = "completed"] /\ ending' = ending \cup {t}
    /\ UNCHANGED <<krang, pipe, attention, memory, jobs, ghosts>>

SetDone(t) ==
    /\ krang # "down" /\ t \in ending
    /\ ending' = ending \ {t} /\ attention' = [attention EXCEPT ![t] = "done"]
    /\ shown' = [shown EXCEPT ![t] = "done"]
    /\ muddled' = IF \E j \in jobs : j.task = t /\ ToWrite(j) THEN muddled \cup {t} ELSE muddled
    /\ UNCHANGED <<krang, pipe, state, memory, jobs>>

SetDoneFails(t) ==
    /\ krang # "down" /\ t \in ending
    /\ ending' = ending \ {t} /\ muddled' = muddled \cup {t}
    /\ UNCHANGED <<krang, pipe, state, attention, memory, jobs, shown>>

\* The reconciler finds no window and no session.
Fail(t) ==
    /\ krang = "up" /\ state[t] = "live"
    /\ state' = [state EXCEPT ![t] = "failed"]
    /\ UNCHANGED <<krang, pipe, attention, ending, memory, jobs, ghosts>>

--------------------------------------------------------------------------------
(* Leaving.                                                                *)

Quit ==
    /\ krang = "up" /\ krang' = "stopping"
    /\ UNCHANGED <<pipe, row, memory, jobs, ghosts>>

\* Shutdown waits for every handler at work, without a deadline.
Stop ==
    /\ krang = "stopping" /\ posts = {} /\ krang' = "down"
    /\ UNCHANGED <<pipe, row, memory, jobs, ghosts>>

--------------------------------------------------------------------------------
Loop == HandleUnknown \/ HandleEvent \/ \E j \in jobs : HandleResult(j)

Goroutine == \E j \in jobs : Read(j) \/ Write(j) \/ WriteFails(j)

Next ==
    \/ \E e \in Event : Post(e)
    \/ \E e \in posts : Send(e)
    \/ Receive \/ Loop \/ Goroutine
    \/ \E j \in jobs : Classified(j)
    \/ \E t \in Tasks : Complete(t) \/ SetDone(t) \/ SetDoneFails(t) \/ Fail(t)
    \/ Quit \/ Stop

\* Handlers, the Update loop and goroutines are scheduled by the Go runtime and
\* Bubble Tea; a call of "claude -p" returns.  Nothing is assumed of hooks, of
\* the human and of the reconciler.
Fairness ==
    /\ WF_vars(\E e \in posts : Send(e)) /\ WF_vars(Receive)
    /\ WF_vars(Loop) /\ WF_vars(Goroutine)
    /\ WF_vars(\E j \in jobs : Classified(j))
    /\ WF_vars(Stop)

Spec == Init /\ [][Next]_vars /\ Fairness

--------------------------------------------------------------------------------
(* Properties.  Goroutines that overlap can leave any attention behind, so *)
(* what is shown is claimed of tasks whose goroutines have not (muddled).  *)

Writing(t) == \E j \in jobs : j.task = t /\ j.work # "classify"
Settled(t) == t \notin muddled /\ ~Writing(t)

\* What the list shows is what the newest events say, as if each had been
\* handled on the spot: no verdict on an older message, no event of another
\* agent and no idle prompt comes between.
ShowsNewest == \A t \in Tasks : Settled(t) /\ state[t] = "live" => attention[t] = shown[t]

\* A permission some agent waits for stays visible whatever the other agents
\* do (model.go, "so that PostToolUse from a different agent doesn't clobber
\* the permission state"); only an error may be shown instead.
PermissionShown ==
    \A t \in Tasks : Settled(t) /\ state[t] = "live" /\ perms[t] # {}
        => attention[t] \in {"permission", "error"}

\* Once Complete has set it to done, no late event changes the attention of its
\* task (model.go, "must not reset the attention state"); a verdict still does.
CompletedShowsDone ==
    \A t \in Tasks : Settled(t) /\ state[t] = "completed" /\ t \notin ending
        => attention[t] \in {"done", shown[t]}

\* A spinner stands for a classification of the newest event, under way or on
\* its way into Update; it never turns for one that has been outdated.
SpinnerHonest ==
    \A t \in spinner : \E j \in jobs : j.work = "classify" /\ j.task = t /\ j.n = gen[t]

\* An event starts one goroutine of each sort at most, numbered in the order of
\* the events; a verdict on the newest message finds no permission pending.
Numbered ==
    /\ \A j \in jobs :
          /\ j.n <= gen[j.task]
          /\ j.work = "apply" => j.verdict # None
          /\ j.work = "classify" /\ j.n = gen[j.task] => perms[j.task] = {}
    /\ \A i, j \in jobs : i.task = j.task /\ i.n = j.n =>
          /\ i.work = j.work => i = j
          /\ ~(i.work = "classify" /\ j.work = "apply")

\* Of the goroutines that write the attention of t, some are firm, which will
\* write the same whatever they find, and idle prompts only spare a "done".
Writers(t) == {j \in jobs : j.task = t /\ j.work # "classify"}
Firm(j)    == j.verdict # None \/ (j.kind # "IdlePrompt" /\ Decision("live", "ok", j.kind, j.suppress) # None)
Says(j)    == IF j.verdict # None THEN j.verdict ELSE AttentionFromEvent(j.kind)
Nudges(j)  == j.verdict = None /\ j.kind = "IdlePrompt" /\ ~j.suppress

\* v is there, or will be, and those of S come after it.
Leads(t, v, S) == shown[t] = IF v # "done" /\ \E j \in S : Nudges(j) THEN "waiting" ELSE v

\* What is to be shown for a live task follows from the newest firm goroutine,
\* or from what is there if none is firm.
Explained ==
    \A t \in Tasks \ muddled : state[t] = "live" =>
        \/ /\ \A j \in Writers(t) : ~Firm(j)
           /\ Leads(t, attention[t], Writers(t))
        \/ \E j \in Writers(t) :
              /\ Firm(j) /\ \A i \in Writers(t) : Firm(i) => i = j \/ Older(i, j)
              /\ Leads(t, Says(j), {i \in Writers(t) : Older(j, i)})

\* A live task never has a pending permission without one to be shown; a task
\* that Complete is through with shows done, or what the newest verdict says.
PermissionDue == \A t \in Tasks : state[t] = "live" /\ perms[t] # {} => shown[t] \in {"permission", "error"}
Decided(t)    == {j \in Writers(t) : j.verdict # None}
Finished ==
    /\ \A t \in ending : state[t] = "completed"
    /\ \A t \in Tasks \ (muddled \cup ending) : state[t] = "completed" =>
          \/ Decided(t) = {} /\ attention[t] \in {"done", shown[t]}
          \/ \E j \in Decided(t) : /\ j.verdict = shown[t]
                                   /\ \A i \in Decided(t) : i = j \/ Older(i, j)

\* All of this has its type, the bound of the hook channel (root.go:229)
\* included, no spinner turns for nothing, and the rest that the attention
\* follows from.
Inv == TypeOK /\ SpinnerHonest /\ Numbered /\ Explained /\ PermissionDue /\ Finished

\* Every event that a hook posts reaches the Update loop while it runs, whether
\* or not the events before it belong to a task.
Pending == posts # {} \/ channel # <<>> \/ pump # None
EventsTaken == Pending ~> ~Pending \/ krang # "up"

\* A Stop that is left to the classifier is shown in the end: as long as nothing
\* newer happens, its task comes to wait or to be done, also if the model fails.
Asked(t, n) == \E j \in jobs : j.work = "classify" /\ j.task = t /\ j.n = n
StopAnswered ==
    \A t \in Tasks, n \in 1..MaxEvents :
        Asked(t, n) /\ gen[t] = n ~> \/ attention[t] \in {"waiting", "done"}
                                     \/ gen[t] # n \/ t \in muddled \/ krang # "up"

\* Leaving krang waits for hooks that are being posted only if the channel is
\* full of events nobody will read any more.
ExitEnds == krang = "stopping" ~> krang = "down" \/ Len(channel) = ChanCap
================================================================================
