------------------------------ MODULE TaskStates -------------------------------
(***************************************************************************)
(* The states of a task as architecture.md draws them ("Task States"), and *)
(* what each change of state needs of the window the task's row names and  *)
(* of its session. The windows are the user's: they come and go. How the   *)
(* operations of krang move a task through these states, step by step,     *)
(* beside each other and through failures, is TaskLifecycle, which         *)
(* implements this as long as no operation writes from an outdated copy.   *)
(***************************************************************************)
CONSTANT Tasks

VARIABLES
    life,      \* the state of each task, or "astray": anything may become of it
    windowed,  \* whether the window its row names is alive
    resumable  \* whether it has a session

vars == <<life, windowed, resumable>>

Living == {"active", "parked"}

Init ==
    /\ life = [t \in Tasks |-> "absent"]
    /\ windowed = [t \in Tasks |-> FALSE]
    /\ resumable = [t \in Tasks |-> FALSE]

Becomes(t, from, to) == life[t] \in from /\ life' = [life EXCEPT ![t] = to]

Create(t)   == Becomes(t, {"absent"}, "active") /\ resumable' \in {resumable, [resumable EXCEPT ![t] = TRUE]}
Import(t)   == Becomes(t, {"absent"}, "dormant") /\ resumable' = [resumable EXCEPT ![t] = TRUE]
Learn(t)    == life[t] = "active" /\ UNCHANGED life /\ resumable' = [resumable EXCEPT ![t] = TRUE]
Park(t)     == Becomes(t, {"active"}, "parked") /\ UNCHANGED resumable
Unpark(t)   == Becomes(t, {"parked"}, "active") /\ UNCHANGED resumable

\* Only a task that can be resumed is thawed.
Thaw(t)     == resumable[t] /\ Becomes(t, {"dormant"}, "active") /\ UNCHANGED resumable

\* No task is called stopped before its window has gone, and none has failed that
\* can be resumed.
Freeze(t)   == ~windowed[t] /\ Becomes(t, Living, "dormant") /\ UNCHANGED resumable
Fail(t)     == ~windowed[t] /\ ~resumable[t] /\ Becomes(t, Living, "failed") /\ UNCHANGED resumable
Complete(t) == /\ life[t] \in Living => ~windowed[t]
               /\ Becomes(t, Living \cup {"dormant", "failed"}, "completed")
               /\ UNCHANGED resumable

\* An operation has written the row from a copy that was out of date.
Astray(t)   == /\ life' = [life EXCEPT ![t] = "astray"]
               /\ \E known \in BOOLEAN : resumable' = [resumable EXCEPT ![t] = known]

\* All else that krang and the user do shows at most in the windows.
Elsewhere == UNCHANGED <<life, resumable>>

Next ==
    /\ windowed' \in [Tasks -> BOOLEAN]
    /\ \/ \E t \in Tasks :
             \/ Create(t) \/ Import(t) \/ Learn(t) \/ Park(t) \/ Unpark(t) \/ Thaw(t)
             \/ Freeze(t) \/ Fail(t) \/ Complete(t) \/ Astray(t)
       \/ Elsewhere

Spec == Init /\ [][Next]_vars
================================================================================
