----------------------------- MODULE SerialMutator -----------------------------
(***************************************************************************)
(* What krang promises an agent that asks it to change a workspace: one    *)
(* change at a time, each at most once, and an answer that stays true.     *)
(* How requests travel, wait, time out and share the TUI with a human is   *)
(* WorkspaceRequests, which implements this.                               *)
(***************************************************************************)
CONSTANTS
    Mutations,  \* the requests that change a workspace
    Nobody      \* none of them

VARIABLES
    alive,    \* whether the process lives
    runner,   \* the mutation being carried out, or Nobody
    begun,    \* the mutations that have been started in this process
    changed,  \* what each has changed: "none", "touched" or "applied"
    told      \* what each caller believes of its mutation: "yes", "no" when it
              \* was turned down, "failed" when it was not carried through, or
              \* "unknown" while it is not told or cannot be

vars == <<alive, runner, begun, changed, told>>

Init ==
    /\ alive = TRUE
    /\ runner = Nobody
    /\ begun = {}
    /\ changed = [m \in Mutations |-> "none"]
    /\ told = [m \in Mutations |-> "unknown"]

\* A mutation starts alone, once, and never after its caller was told "no" or
\* that it failed.
Begin(m) ==
    /\ alive /\ runner = Nobody
    /\ m \notin begun /\ told[m] \notin {"no", "failed"}
    /\ runner' = m /\ begun' = begun \cup {m}
    /\ UNCHANGED <<alive, changed, told>>

Touch(m) ==
    /\ runner = m /\ changed[m] = "none"
    /\ changed' = [changed EXCEPT ![m] = "touched"]
    /\ UNCHANGED <<alive, runner, begun, told>>

\* It ends with its change made, with none made, or part of the way.
End(m) ==
    /\ runner = m /\ runner' = Nobody
    /\ \/ changed' = changed
       \/ changed[m] = "touched" /\ changed' = [changed EXCEPT ![m] = "applied"]
    /\ UNCHANGED <<alive, begun, told>>

\* A caller is told "yes" of a change that is made, "failed" of one that is not
\* and will not be, and "no" only where not even a part of it is or will be.
Tell(m) ==
    /\ told[m] = "unknown"
    /\ \/ changed[m] = "applied" /\ told' = [told EXCEPT ![m] = "yes"]
       \/ changed[m] # "applied" /\ runner # m /\ told' = [told EXCEPT ![m] = "failed"]
       \/ changed[m] = "none" /\ runner # m /\ told' = [told EXCEPT ![m] = "no"]
    /\ UNCHANGED <<alive, runner, begun, changed>>

Die ==
    /\ alive /\ alive' = FALSE
    /\ runner' = Nobody /\ begun' = {}
    /\ UNCHANGED <<changed, told>>

Next ==
    \/ \E m \in Mutations : Begin(m) \/ Touch(m) \/ End(m) \/ Tell(m)
    \/ Die

Spec == Init /\ [][Next]_vars

================================================================================
