--------------------------- MODULE WorkspaceRequests ---------------------------
(***************************************************************************)
(* Workspace requests, from the HTTP handler that accepts one to the       *)
(* answer its caller gets, together with the keyboard flows that change    *)
(* workspaces from the same process.                                       *)
(*                                                                         *)
(* Concurrent actors: one HTTP handler per request (hooks/workspace.go),   *)
(* the self-re-arming receive and the Update loop of the TUI               *)
(* (tui/workspacereq.go, tui/model.go), one tea.Cmd goroutine per started  *)
(* request, the human, and the clock.  Update is one step: the handler of  *)
(* one message and the drain of the queue that follows it.                 *)
(***************************************************************************)
EXTENDS Naturals, Sequences, FiniteSets

CONSTANTS
    Requests,        \* calls of the workspace API; each is made once
    ReadOnly,        \* those of them that are list or repos
    Tasks,           \* rows that may be under the cursor when a key is hit
    WorkspaceTasks,  \* those of them whose WorkspaceDir is set
    ChanCap,         \* capacity of the request channel (16 in cmd/root.go)
    None

ASSUME RequestsAssumption == ReadOnly \subseteq Requests /\ None \notin Requests
ASSUME TasksAssumption    == WorkspaceTasks \subseteq Tasks
ASSUME CapAssumption      == ChanCap \in Nat \ {0}

Mutations == Requests \ ReadOnly

VARIABLES
    krang,     \* the process: its Update loop, its HTTP server, its life
    handler,   \* where each request's HTTP handler stands
    caller,    \* what each request's caller has been told
    expired,   \* whether each request's deadline has passed
    channel,   \* the buffered channel from the handlers to the TUI
    pump,      \* the request waitForWorkspaceRequest has received, or None
    queue,     \* Model.workspaceQueue
    inflight,  \* Model.workspaceRequest
    work,      \* the goroutine of runWorkspaceRequest, one per request
    effect,    \* what each request has changed on disk and in the rows
    reply,     \* the reply channel of each request, capacity one
    mode,      \* Model.mode, with every mode that is not busy as "Normal"
    progress   \* Model.wsProgress: none, the flow at work, or one that is Done

serverVars == <<handler, caller, expired>>
queueVars  == <<queue, inflight, work, reply>>
humanVars  == <<mode, progress>>
vars == <<krang, serverVars, channel, pump, queueVars, effect, humanVars>>

--------------------------------------------------------------------------------
(* Answers.  A reason stands for a group of reasons: "refused" for the     *)
(* client's refusalReasons, "failed" for operation_failed, "rejected" for  *)
(* every other reason that answers applied "no".                           *)

Reasons == {"none", "ok", "refused", "rejected", "failed",
            "not_accepted", "expired", "timeout", "transport"}
Applied == {"yes", "no", "unknown", "unstated"}

Answer(reason, applied) == [reason |-> reason, applied |-> applied]
Answers   == [reason : Reasons, applied : Applied]
NoAnswer  == Answer("none", "unstated")
Transport == Answer("transport", "unstated")

\* The exit code the command line gives for what its caller was told.
ExitCodeFor(a) ==
    CASE a.reason = "transport"                   -> 4
      [] a.reason = "ok"                          -> 0
      [] a.reason # "ok" /\ a.applied = "unknown" -> 3
      [] a.reason = "refused"                     -> 2
      [] a.reason \in {"not_accepted", "expired"} -> 4
      [] OTHER                                    -> 1

\* What add and remove_slot can answer, by what they had changed by then.  An
\* add that fails before it has a copy to name answers "no", although it may
\* have pruned worktrees, reclaimed a merged branch or left a directory.
Outcomes(e) ==
    IF e = "none"
    THEN {Answer("refused", "no"), Answer("rejected", "no"), Answer("failed", "no")}
    ELSE {Answer("ok", "yes"), Answer("failed", "yes"), Answer("failed", "unknown"),
          Answer("failed", "no")}

--------------------------------------------------------------------------------
Modals == {"TaskWizard", "ForkDialog", "ConfirmComplete", "WorkspaceProgress"}
Flows  == {"build", "fork", "complete"}

TypeOK ==
    /\ krang \in {"running", "stopping", "exited", "crashed"}
    /\ handler \in [Requests -> {"idle", "offering", "waiting", "closed"}]
    /\ caller \in [Requests -> Answers]
    /\ expired \in [Requests -> BOOLEAN]
    /\ channel \in Seq(Requests) /\ Len(channel) <= ChanCap
    /\ pump \in Requests \cup {None}
    /\ queue \in Seq(Mutations)
    /\ inflight \in Mutations \cup {None}
    /\ work \in [Requests -> {"none", "running", "done", "reported"}]
    /\ effect \in [Requests -> {"none", "touched", "applied"}]
    /\ reply \in [Requests -> Answers]
    /\ mode \in Modals \cup {"Normal"}
    /\ progress \in Flows \cup {"none", "done"}

Init ==
    /\ krang = "running"
    /\ handler = [r \in Requests |-> "idle"]
    /\ caller = [r \in Requests |-> NoAnswer]
    /\ expired = [r \in Requests |-> FALSE]
    /\ channel = <<>> /\ pump = None
    /\ queue = <<>> /\ inflight = None
    /\ work = [r \in Requests |-> "none"]
    /\ effect = [r \in Requests |-> "none"]
    /\ reply = [r \in Requests |-> NoAnswer]
    /\ mode = "Normal" /\ progress = "none"

--------------------------------------------------------------------------------
(* The HTTP handler: submitWorkspaceRequest.                               *)

\* The handler returns; its reply channel goes with it.
Close(r, answer) ==
    /\ handler' = [handler EXCEPT ![r] = "closed"]
    /\ caller' = [caller EXCEPT ![r] = answer]
    /\ reply' = [reply EXCEPT ![r] = NoAnswer]
    /\ UNCHANGED <<krang, expired, channel, pump, queue, inflight, work, effect, humanVars>>

\* A call reaches the handler, which stamps its deadline and offers it.
Submit(r) ==
    /\ handler[r] = "idle" /\ krang = "running"
    /\ handler' = [handler EXCEPT ![r] = "offering"]
    /\ UNCHANGED <<krang, caller, expired, channel, pump, queueVars, effect, humanVars>>

\* A body that does not decode, or names no task or no repo, is answered at once.
RejectBody(r) == handler[r] = "idle" /\ krang = "running" /\ Close(r, Answer("rejected", "no"))

\* Once the listener is closed the connection is refused.
Refused(r) == handler[r] = "idle" /\ krang # "running" /\ Close(r, Transport)

Enqueue(r) ==
    /\ handler[r] = "offering"
    /\ Len(channel) < ChanCap
    /\ channel' = Append(channel, r)
    /\ handler' = [handler EXCEPT ![r] = "waiting"]
    /\ UNCHANGED <<krang, caller, expired, pump, queueVars, effect, humanVars>>

\* Requests in the order the TUI sees them.
Pipeline == queue \o (IF pump = None THEN <<>> ELSE <<pump>>) \o channel
InSeq(r, q) == \E i \in 1..Len(q) : q[i] = r

\* The deadline passes while the handler or the queue still looks at it.
DeadlinePasses(r) ==
    /\ ~expired[r]
    /\ handler[r] \in {"offering", "waiting"} \/ InSeq(r, Pipeline)
    /\ expired' = [expired EXCEPT ![r] = TRUE]
    /\ UNCHANGED <<krang, handler, caller, channel, pump, queueVars, effect, humanVars>>

NotAccepted(r)  == handler[r] = "offering" /\ expired[r] /\ Close(r, Answer("not_accepted", "no"))
ReceiveReply(r) == handler[r] = "waiting" /\ reply[r] # NoAnswer /\ Close(r, reply[r])
\* mutants: a late answer is reported as a refusal; no deadline once accepted
TimeoutSaysNo(r) == handler[r] = "waiting" /\ expired[r] /\ Close(r, Answer("timeout", "no"))
TimeoutOffer(r)  == handler[r] = "offering" /\ expired[r] /\ Close(r, Answer("timeout", "unknown"))

TimeoutWait(r)  == handler[r] = "waiting" /\ expired[r] /\ Close(r, Answer("timeout", "unknown"))

\* The caller goes away; the handler returns and writes nothing.
Disconnect(r) == handler[r] \in {"offering", "waiting"} /\ Close(r, NoAnswer)

--------------------------------------------------------------------------------
(* The Update loop.  Settle is the drain that ends every Update.           *)

\* mutant: workspaceBusy without its first test
BusyWithoutSlot(holder, md, pr) == pr \in Flows \/ md \in Modals

Busy(holder, md, pr) ==
    \/ holder # None
    \/ pr \in Flows
    \/ md \in Modals

\* replyToWorkspaceRequest never blocks and never overwrites; the reply of an
\* abandoned call lands in a channel nobody reads.
Replied(r, answer) ==
    IF handler[r] = "waiting" /\ reply[r] = NoAnswer THEN answer ELSE reply[r]

\* The positions of q whose callers are still waiting.
Live(q) == {i \in 1..Len(q) : ~expired[q[i]]}

\* q, holder and w are the queue, the in-flight slot and the goroutines the
\* message's own handler leaves; mode' and progress' are already determined.
Settle(q, holder, w) ==
    LET dropped(n) == [r \in Requests |-> IF InSeq(r, SubSeq(q, 1, n))
                                          THEN Replied(r, Answer("expired", "no"))
                                          ELSE reply[r]]
    IN  \/ /\ Busy(holder, mode', progress')
           /\ queue' = q /\ inflight' = holder /\ work' = w
           /\ reply' = reply
        \/ /\ ~Busy(holder, mode', progress')
           /\ Live(q) = {}
           /\ queue' = <<>> /\ inflight' = None /\ work' = w
           /\ reply' = dropped(Len(q))
        \/ /\ ~Busy(holder, mode', progress')
           /\ \E k \in Live(q) :
                /\ \A i \in Live(q) : k <= i
                /\ queue' = SubSeq(q, k + 1, Len(q))
                /\ inflight' = q[k]
                /\ work' = [w EXCEPT ![q[k]] = "running"]
                /\ reply' = dropped(k - 1)

\* waitForWorkspaceRequest: the goroutine outlives the Update loop.
Receive ==
    /\ pump = None /\ channel # <<>>
    /\ pump' = Head(channel) /\ channel' = Tail(channel)
    /\ UNCHANGED <<krang, serverVars, queueVars, effect, humanVars>>

\* mutants: a delivery that jumps the queue; reads that wait like mutations
DeliverInFront ==
    /\ krang = "running" /\ pump # None
    /\ pump' = None
    /\ UNCHANGED humanVars
    /\ IF pump \in ReadOnly THEN Settle(queue, inflight, [work EXCEPT ![pump] = "running"])
                            ELSE Settle(<<pump>> \o queue, inflight, work)
    /\ UNCHANGED <<krang, serverVars, channel, effect>>
DeliverQueuesReads ==
    /\ krang = "running" /\ pump # None
    /\ pump' = None
    /\ UNCHANGED humanVars
    /\ Settle(Append(queue, pump), inflight, work)
    /\ UNCHANGED <<krang, serverVars, channel, effect>>

\* handleWorkspaceRequest: a read starts, a mutation is queued; re-arm.
Deliver ==
    /\ krang = "running" /\ pump # None
    /\ pump' = None
    /\ UNCHANGED humanVars
    /\ \/ /\ pump \in ReadOnly
          /\ Settle(queue, inflight, [work EXCEPT ![pump] = "running"])
       \/ /\ pump \notin ReadOnly
          /\ Settle(Append(queue, pump), inflight, work)
    /\ UNCHANGED <<krang, serverVars, channel, effect>>

\* mutant: no end gives the slot back
DoneKeepsSlot(r) ==
    /\ krang = "running" /\ work[r] = "done"
    /\ UNCHANGED humanVars
    /\ Settle(queue, inflight, [work EXCEPT ![r] = "reported"])
    /\ UNCHANGED <<krang, serverVars, channel, pump, effect>>

\* handleWorkspaceRequestDone: only a mutation gives the slot back.
HandleDone(r) ==
    /\ krang = "running" /\ work[r] = "done"
    /\ UNCHANGED humanVars
    /\ Settle(queue, IF r \in ReadOnly THEN inflight ELSE None,
              [work EXCEPT ![r] = "reported"])
    /\ UNCHANGED <<krang, serverVars, channel, pump, effect>>

--------------------------------------------------------------------------------
(* The goroutine of runWorkspaceRequest.  It belongs to the process, so it *)
(* runs on while the server drains its handlers.                           *)

\* The first change: a leftover branch reclaimed, a working copy begun, or its
\* VCS identity forgotten.
Touch(r) ==
    /\ r \in Mutations /\ work[r] = "running" /\ effect[r] = "none"
    /\ effect' = [effect EXCEPT ![r] = "touched"]
    /\ UNCHANGED <<krang, serverVars, channel, pump, queueVars, humanVars>>

Finish(r) ==
    /\ work[r] = "running"
    /\ work' = [work EXCEPT ![r] = "done"]
    /\ \E a \in IF r \in ReadOnly THEN {Answer("ok", "yes"), Answer("rejected", "no")}
                                  ELSE Outcomes(effect[r]) :
          /\ reply' = [reply EXCEPT ![r] = Replied(r, a)]
          /\ effect' = [effect EXCEPT ![r] =
                          IF r \in Mutations /\ a.applied = "yes" THEN "applied" ELSE @]
    /\ UNCHANGED <<krang, serverVars, channel, pump, queue, inflight, humanVars>>

--------------------------------------------------------------------------------
(* The human at the keyboard, with the workspace strategy of krang.yaml    *)
(* set.  The cursor may be on any task at any key: it moves with the keys  *)
(* and with every refresh of the list.                                     *)

\* An Update that leaves queue, slot and goroutines to the drain alone.
Key(m, p) ==
    /\ krang = "running"
    /\ mode' = m /\ progress' = p
    /\ Settle(queue, inflight, work)
    /\ UNCHANGED <<krang, serverVars, channel, pump, effect>>

\* mutant: "f" without its guard
OpenForkAnyTime == mode = "Normal" /\ Key("ForkDialog", progress)

OpenWizard      == mode = "Normal" /\ inflight = None /\ Key("TaskWizard", progress)
OpenFork        == mode = "Normal" /\ inflight = None /\ Key("ForkDialog", progress)
CancelModal     == mode \in Modals \ {"WorkspaceProgress"} /\ Key("Normal", progress)

\* "c" refuses a task with a workspace while a request is in flight.
OpenComplete(t) == /\ mode = "Normal"
                   /\ t \in WorkspaceTasks => inflight = None
                   /\ Key("ConfirmComplete", progress)

\* Creating a task, or adding repos to one.
SubmitWizard    == mode = "TaskWizard" /\ Key("WorkspaceProgress", "build")
\* A remote clone into repos_dir borrows the progress mode and comes back.
CloneRemote     == mode = "TaskWizard" /\ Key("WorkspaceProgress", progress)
CloneRemoteDone == mode = "WorkspaceProgress" /\ progress = "none"
                     /\ Key("TaskWizard", progress)
StartFork       == mode = "ForkDialog" /\ Key("WorkspaceProgress", "fork")

\* An edit that selected no repos, or a fork that shares the workspace of its
\* source, creates no working copy.
SubmitNoCopies  == mode \in {"TaskWizard", "ForkDialog"} /\ Key("Normal", progress)

\* "y" acts on the task under the cursor now.  One with no workspace, or one
\* that shares it, is completed without touching any directory.
ConfirmComplete(t) ==
    /\ mode = "ConfirmComplete"
    /\ \/ Key("Normal", progress)
       \/ t \in WorkspaceTasks /\ Key("WorkspaceProgress", "complete")

\* The last message of a flow sets Done; esc then closes the modal.
FlowDone  == progress \in Flows /\ Key(mode, "done")
CloseFlow == mode = "WorkspaceProgress" /\ progress = "done" /\ Key("Normal", "none")

--------------------------------------------------------------------------------
(* The end of the process.                                                 *)

\* q, confirmed when tasks are parked, or SIGTERM whatever the mode: the Update
\* loop ends, then Server.Stop closes the listener and waits for the handlers
\* that are still running.
Quit ==
    /\ krang = "running"
    /\ krang' = "stopping"
    /\ UNCHANGED <<serverVars, channel, pump, queueVars, effect, humanVars>>

\* What the process held in memory goes with it; callers and disk stay.
Vanish ==
    /\ expired' = [r \in Requests |-> FALSE]
    /\ channel' = <<>> /\ pump' = None /\ queue' = <<>> /\ inflight' = None
    /\ work' = [r \in Requests |-> "none"] /\ reply' = [r \in Requests |-> NoAnswer]
    /\ mode' = "Normal" /\ progress' = "none"
    /\ effect' = effect

Open == {r \in Requests : handler[r] \in {"offering", "waiting"}}

\* mutant: Close where the code has Shutdown
ExitAtOnce ==
    /\ krang = "stopping" /\ krang' = "exited"
    /\ caller' = [r \in Requests |-> IF r \in Open THEN Transport ELSE caller[r]]
    /\ handler' = [r \in Requests |-> IF r \in Open THEN "closed" ELSE handler[r]]
    /\ Vanish

Exit ==
    /\ krang = "stopping" /\ Open = {}
    /\ krang' = "exited"
    /\ Vanish /\ UNCHANGED <<handler, caller>>

\* SIGKILL, a panic, the terminal going away: connections drop unanswered.
Crash ==
    /\ krang \in {"running", "stopping"}
    /\ krang' = "crashed"
    /\ caller' = [r \in Requests |-> IF r \in Open THEN Transport ELSE caller[r]]
    /\ handler' = [r \in Requests |-> IF r \in Open THEN "closed" ELSE handler[r]]
    /\ Vanish

--------------------------------------------------------------------------------
Handler(r) ==
    \/ Submit(r) \/ RejectBody(r) \/ Refused(r) \/ Enqueue(r) \/ DeadlinePasses(r)
    \/ NotAccepted(r) \/ ReceiveReply(r) \/ TimeoutWait(r) \/ Disconnect(r)

Keyboard ==
    \/ \E t \in Tasks : OpenComplete(t) \/ ConfirmComplete(t)
    \/ OpenWizard \/ OpenFork \/ CancelModal
    \/ SubmitWizard \/ SubmitNoCopies \/ CloneRemote \/ CloneRemoteDone
    \/ StartFork \/ FlowDone \/ CloseFlow

Next ==
    \/ \E r \in Requests : Handler(r) \/ HandleDone(r) \/ Touch(r) \/ Finish(r)
    \/ Receive \/ Deliver
    \/ Keyboard
    \/ Quit \/ Exit \/ Crash

--------------------------------------------------------------------------------
(* Fairness.  Nothing is assumed of the callers.                           *)

\* Go runs a handler whose select can proceed, and timers fire.
Spec ==
    /\ Init /\ [][Next]_vars
    /\ \A r \in Requests :
          /\ WF_vars(DeadlinePasses(r)) /\ WF_vars(NotAccepted(r))
          /\ WF_vars(ReceiveReply(r) \/ TimeoutWait(r))

\* Bubble Tea delivers messages, and the git and jj commands that a request
\* or a flow runs return.
CommandsReturn ==
    /\ WF_vars(Receive) /\ WF_vars(Deliver) /\ WF_vars(FlowDone) /\ WF_vars(CloneRemoteDone)
    /\ \A r \in Requests : WF_vars(Finish(r)) /\ WF_vars(HandleDone(r))

\* A human who keeps no modal open for ever: one that is open again and again
\* is in the end cancelled.
Attended == SF_vars(CancelModal) /\ WF_vars(CloseFlow)

--------------------------------------------------------------------------------
(* Properties.                                                             *)

Working(r)  == r \in Mutations /\ work[r] = "running"
FlowWorking == progress \in Flows

\* At most one API mutation runs, and until its end is reported it holds the
\* in-flight slot: a finished read never gives the slot of a mutation back.
OneMutation == \A r \in Mutations : work[r] \in {"running", "done"} => inflight = r

\* What may have been done, for good, for a request that is answered "no": a
\* failure leaves at most a part of its work, any other "no" nothing at all.
Denied(a) == IF a.reason = "failed" THEN {"none", "touched"} ELSE {"none"}

\* A caller told "no" keeps that answer true: its change is not made, now or
\* later, and nothing is changed at all if it was refused, rejected, dropped or
\* never accepted.  A caller told "yes" has its change.
HonestAnswers ==
    \A r \in Mutations :
        /\ caller[r].applied = "no"  => effect[r] \in Denied(caller[r])
        /\ caller[r].applied = "yes" => effect[r] = "applied"

\* The keyboard's flows and the API's mutations exclude each other
\* (workspaceBusy one way, the guards on n, d, e and c the other).
MutuallyExclusive == FlowWorking => \A r \in Requests : ~Working(r)

\* Exit codes 2 and 4 promise that nothing was applied and a retry is safe.
RetryIsSafe ==
    \A r \in Mutations : ExitCodeFor(caller[r]) \in {2, 4} => effect[r] = "none"

\* ... which holds as long as the process is not killed: quitting waits for
\* the handlers, so no caller of a started request meets a closed connection.
RetryIsSafeUnlessKilled == krang # "crashed" => RetryIsSafe

\* The only flow that can be at work beside an API mutation is a completion,
\* whose guard looks at the task under the cursor when the prompt opens.
OnlyCompletionOverlaps ==
    FlowWorking /\ (\E r \in Requests : Working(r)) => progress = "complete"

Starts(r) == work[r] = "none" /\ work'[r] = "running"

\* No mutation is overtaken on its way from the channel to its start, however
\* reads, modals and deadlines interleave: whoever is ahead stays ahead, and
\* is passed only when it has expired.
Ahead(q, r) == \E i, j \in 1..Len(Pipeline) : i < j /\ Pipeline[i] = q /\ Pipeline[j] = r
StartsInOrder ==
    [][\A q, r \in Mutations : Ahead(q, r) => /\ Starts(r) => expired[q]
                                             /\ ~Ahead(r, q)']_vars

\* No API mutation starts under a modal, a working flow or another mutation,
\* in the very step that opens or ends one included, nor after its deadline.
StartsOnlyWhenFree ==
    [][\A r \in Mutations : Starts(r) =>
          /\ mode' = "Normal" /\ progress' \notin Flows
          /\ \A s \in Requests \ {r} : ~Working(s)'
          /\ ~expired[r]]_vars

\* Where a request that the TUI has not begun may be.
Pending(r)  == InSeq(r, queue) \/ pump = r \/ InSeq(r, channel)
Distinct(q) == \A i, j \in 1..Len(q) : q[i] = q[j] => i = j

\* A request is in one place at a time.
OnePlace ==
    /\ Distinct(queue) /\ Distinct(channel)
    /\ \A r \in Requests : /\ InSeq(r, queue) => pump # r /\ ~InSeq(r, channel)
                           /\ pump = r => ~InSeq(r, channel)

\* What a request has not reached yet it has not left a trace in, and a change
\* is made in full by the end of its work.
Untraced(r) == work[r] = "none" /\ effect[r] = "none" /\ reply[r] = NoAnswer
Traces ==
    \A r \in Requests :
        /\ handler[r] # "closed" => caller[r] = NoAnswer
        /\ handler[r] \in {"idle", "offering"} => Untraced(r) /\ ~Pending(r)
        /\ Pending(r) => Untraced(r) /\ caller[r].applied \notin {"yes", "no"}
        /\ effect[r] = "applied" => work[r] # "running"

\* An answer given, or on its way, is true and stays so.
True(r, a) ==
    /\ a.applied = "no" => work[r] # "running" /\ ~Pending(r)
    /\ r \in Mutations => /\ a.applied = "no" => effect[r] \in Denied(a)
                          /\ a.applied = "yes" => effect[r] = "applied"
AnswersTrue == \A r \in Requests : True(r, caller[r]) /\ True(r, reply[r])

\* The in-flight slot is held by the mutation that was started and has not
\* been reported, and by no other.
SlotHeld == \A r \in Mutations : inflight = r <=> work[r] \in {"running", "done"}

\* Nobody is forgotten: while the process lives, a call that was accepted and has no
\* answer is still on its way to the Update loop, in its queue, or at work.
NobodyForgotten ==
    \A r \in Requests :
        handler[r] = "waiting" /\ reply[r] = NoAnswer => Pending(r) \/ work[r] = "running"

\* Nobody waits for nothing: a queue that an Update leaves behind waits for a mutation
\* that is at work or whose end will be reported, for a flow, or for a modal that
\* the human, or the end of a flow or of a clone, closes.
QueueAwaits ==
    krang = "running" /\ queue # <<>> =>
        \/ \E r \in Mutations : inflight = r /\ work[r] \in {"running", "done"}
        \/ progress \in Flows
        \/ mode \in Modals

\* The invariant is inductive: WorkspaceRequestsProofs.
Consistent == TypeOK /\ OnePlace /\ Traces /\ AnswersTrue /\ SlotHeld
IInv == Consistent /\ NobodyForgotten /\ QueueAwaits

\* What the callers of the API are promised.
Told(r) == IF caller[r].applied \notin {"yes", "no"} THEN "unknown"
           ELSE IF caller[r].applied = "no" /\ caller[r].reason = "failed" THEN "failed"
           ELSE caller[r].applied
Promise == INSTANCE SerialMutator WITH
    Nobody  <- None,
    alive   <- krang \in {"running", "stopping"},
    runner  <- IF inflight # None /\ Working(inflight) THEN inflight ELSE None,
    begun   <- {r \in Mutations : work[r] # "none"},
    changed <- [r \in Mutations |-> effect[r]],
    told    <- [r \in Mutations |-> Told(r)]

\* One change at a time, each at most once, never after a "no" or a failure
\* (SerialMutator).
KeepsPromise == Promise!Spec

\* A read is started by the Update that takes it over, whatever modal is open
\* and whatever mutation is at work: a listing never waits for either.
ReadsNeverWait ==
    [][\A r \in ReadOnly : pump = r /\ pump' = None /\ krang' = "running"
                           => Starts(r)]_vars

\* Every call is answered, or its caller goes away: no modal, queue, stopped
\* Update loop or hung command outlasts the deadline.
EveryCallEnds ==
    \A r \in Requests : handler[r] \in {"offering", "waiting"} ~> handler[r] = "closed"

\* Every queued mutation is started or dropped, if commands return and modals
\* get closed: neither a flow nor a finished request keeps workspaceBusy true.
QueueMoves ==
    CommandsReturn /\ Attended =>
        \A r \in Mutations : InSeq(r, queue) ~> ~InSeq(r, queue) \/ krang # "running"

================================================================================
