-------------------------- MODULE HookAttentionProofs --------------------------
(***************************************************************************)
(* Theorems about HookAttention, for any tasks, agents and kinds of events *)
(* and any bounds.                                                         *)
(***************************************************************************)
EXTENDS HookAttention, SequenceTheorems, TLAPS

USE KindsAssumption, MainAssumption, CapAssumption, NoneAssumption

--------------------------------------------------------------------------------
(* What an event means.                                                    *)

\* An event stands for an attention, or for none.
LEMMA Meaning ==
    ASSUME NEW kind \in AllKinds
    PROVE  /\ AttentionFromEvent(kind) \in Attentions \cup {None}
           /\ kind = "PermissionRequest" => AttentionFromEvent(kind) = "permission"
           /\ kind = "IdlePrompt" => AttentionFromEvent(kind) = "waiting"
           /\ Classifying(kind) => AttentionFromEvent(kind) = "waiting"
BY DEF AttentionFromEvent, AllKinds, Attentions, Classifying

\* A decision is what the event means, or nothing. The row it is taken from
\* matters to idle prompts alone as long as the task lives, and only if it is done.
LEMMA Decisions ==
    ASSUME NEW kind \in AllKinds, NEW suppress \in BOOLEAN, NEW st, NEW att
    PROVE  LET d == Decision(st, att, kind, suppress) IN
           /\ d \in Attentions \cup {None}
           /\ d \in {None, AttentionFromEvent(kind)}
           /\ st # "live" => d = None
           /\ suppress => d \in {None, "permission", "error"}
           /\ st = "live" /\ kind = "PermissionRequest" => d = "permission"
           /\ st = "live" /\ kind # "IdlePrompt" => d = Decision("live", "ok", kind, suppress)
           /\ st = "live" /\ kind = "IdlePrompt" =>
                 d = IF att = "done" \/ suppress THEN None ELSE "waiting"
<1>1. /\ AttentionFromEvent(kind) \in Attentions \cup {None}
      /\ kind = "PermissionRequest" => AttentionFromEvent(kind) = "permission"
      /\ kind = "IdlePrompt" => AttentionFromEvent(kind) = "waiting"
      /\ Classifying("IdlePrompt") = FALSE /\ Classifying("PermissionRequest") = FALSE
  BY Meaning DEF Classifying
<1> QED BY <1>1 DEF Decision

\* Only a permission that is asked for adds to those pending; a Stop clears them.
LEMMA Permissions ==
    ASSUME NEW kind \in AllKinds, NEW ps \in SUBSET Agents, NEW a \in Agents
    PROVE  /\ PermsAfter(ps, kind, a) \in SUBSET Agents
           /\ kind # "PermissionRequest" => PermsAfter(ps, kind, a) \subseteq ps
           /\ kind = "Stop" => PermsAfter(ps, kind, a) = {}
BY DEF PermsAfter, AllKinds

--------------------------------------------------------------------------------
(* The steps that leave the attention and what decides on it alone.        *)

Quiet == UNCHANGED <<row, memory, jobs, ghosts>>

\* Every step leaves the attention and all that decides on it alone, or is an
\* action of a handler goroutine, of the Update loop on an event, or of the keys.
LEMMA Steps ==
    ASSUME [Next]_vars
    PROVE  \/ Quiet \/ HandleEvent
           \/ \E j \in jobs : HandleResult(j) \/ Read(j) \/ Write(j) \/ WriteFails(j) \/ Classified(j)
           \/ \E t \in Tasks : Complete(t) \/ SetDone(t) \/ SetDoneFails(t) \/ Fail(t)
<1>1. ASSUME \/ (\E e \in Event : Post(e)) \/ (\E e \in posts : Send(e)) \/ Receive
             \/ HandleUnknown \/ Quit \/ Stop \/ UNCHANGED vars
      PROVE  Quiet
  BY <1>1 DEF Post, Send, Receive, HandleUnknown, Quit, Stop, vars, Quiet
<1> QED BY <1>1 DEF Next, Loop, Goroutine

\* The pipe from the hooks to Update keeps its types and its bounds.
Piped ==
    /\ krang \in {"up", "stopping", "down"} /\ posts \subseteq Event
    /\ channel \in Seq(Event) /\ Len(channel) <= ChanCap
    /\ pump \in Event \cup {None} /\ posted \in 0..MaxEvents

\* The pipe of the hook events stays within its types.
LEMMA StepPiped == TypeOK /\ [Next]_vars => Piped'
<1> SUFFICES ASSUME TypeOK, [Next]_vars PROVE Piped'
  OBVIOUS
<1>0. Piped
  BY DEF TypeOK, Piped
<1>1. ASSUME NEW e \in Event, Post(e) PROVE Piped'
  BY <1>0, <1>1 DEF Post, Piped
<1>2. ASSUME NEW e \in posts, Send(e) PROVE Piped'
  <2>1. e \in Event
    BY <1>0, <1>2 DEF Piped
  <2>2. channel' \in Seq(Event) /\ Len(channel') <= ChanCap
    BY <1>0, <1>2, <2>1, AppendProperties DEF Send, Piped
  <2> QED BY <1>0, <1>2, <2>2 DEF Send, Piped
<1>3. CASE Receive
  <2>1. /\ channel' \in Seq(Event) /\ Len(channel') = Len(channel) - 1 /\ Len(channel) \in Nat
        /\ pump' \in Event
    BY <1>0, <1>3, HeadTailProperties, EmptySeq, LenProperties DEF Receive, Piped
  <2> QED BY <1>0, <1>3, <2>1 DEF Receive, Piped
<1>4. CASE HandleUnknown \/ HandleEvent
  BY <1>0, <1>4 DEF HandleUnknown, HandleEvent, Piped
<1>5. CASE Quit \/ Stop
  BY <1>0, <1>5 DEF Quit, Stop, Piped, pipe
<1>6. CASE UNCHANGED <<krang, pipe>>
  BY <1>0, <1>6 DEF Piped, pipe
<1> QED
  BY <1>1, <1>2, <1>3, <1>4, <1>5, <1>6 DEF Next, Loop, Goroutine, HandleResult, Read, Write,
     WriteFails, Classified, Complete, SetDone, SetDoneFails, Fail, vars

--------------------------------------------------------------------------------
(* What a step does to the goroutines.                                     *)

\* The event that Update takes up is that of a task.
LEMMA Taken ==
    ASSUME TypeOK, HandleEvent
    PROVE  /\ pump \in Event /\ pump.task \in Tasks /\ pump.kind \in AllKinds /\ pump.agent \in Agents
           /\ gen[pump.task] \in Nat
           /\ PermsAfter(perms[pump.task], pump.kind, pump.agent) \in SUBSET Agents
<1>1. pump \in Event /\ pump.task # None
  BY DEF HandleEvent
<1>2. pump.task \in Tasks /\ pump.kind \in AllKinds /\ pump.agent \in Agents
  BY <1>1 DEF Event
<1> QED BY <1>1, <1>2, Permissions DEF TypeOK

\* A job is a record of its fields.
LEMMA Jobs ==
    ASSUME TypeOK, NEW j \in jobs
    PROVE  /\ j \in Job /\ j.task \in Tasks /\ j.n \in Nat /\ j.kind \in AllKinds
           /\ j.suppress \in BOOLEAN /\ j.verdict \in Attentions \cup {None}
           /\ j.work \in {"event", "classify", "apply"}
<1>1. j \in Job
  BY DEF TypeOK
<1> QED BY <1>1 DEF Job

\* k is j at other work, with another verdict.
Becomes(j, k, work, verdict) ==
    /\ k \in Job /\ k.work = work /\ k.verdict = verdict
    /\ k.task = j.task /\ k.n = j.n /\ k.kind = j.kind /\ k.suppress = j.suppress

\* Reading leaves nothing to do, or what has been decided to be written.
LEMMA ReadJobs ==
    ASSUME TypeOK, NEW j \in jobs, Read(j)
    PROVE  LET new == Decision(state[j.task], attention[j.task], j.kind, j.suppress) IN
           \/ new = None /\ jobs' = jobs \ {j}
           \/ new \in Attentions /\ \E k : Becomes(j, k, "event", new) /\ jobs' = (jobs \ {j}) \cup {k}
<1> DEFINE new == Decision(state[j.task], attention[j.task], j.kind, j.suppress)
           k   == [j EXCEPT !.verdict = new]
<1>1. j \in Job /\ new \in Attentions \cup {None} /\ j.work = "event"
  BY Jobs, Decisions DEF Read
<1>2. jobs' = (jobs \ {j}) \cup (IF new = None THEN {} ELSE {k})
  BY DEF Read
<1> HIDE DEF new
<1>3. new # None => Becomes(j, k, "event", new)
  BY <1>1 DEF Becomes, Job
<1> QED BY <1>1, <1>2, <1>3 DEF new

\* A verdict of the model comes with the job that asked for it,
LEMMA ClassifiedJobs ==
    ASSUME TypeOK, NEW j \in jobs, Classified(j)
    PROVE  /\ j.work = "classify"
           /\ \E k, v : v \in Attentions /\ Becomes(j, k, "classify", v) /\ jobs' = (jobs \ {j}) \cup {k}
<1>1. j \in Job /\ j.work = "classify"
  BY Jobs DEF Classified
<1>2. PICK v \in {"waiting", "done"} : jobs' = (jobs \ {j}) \cup {[j EXCEPT !.verdict = v]}
  BY DEF Classified
<1>3. v \in Attentions /\ Becomes(j, [j EXCEPT !.verdict = v], "classify", v)
  BY <1>1 DEF Becomes, Job, Attentions
<1> QED BY <1>1, <1>2, <1>3

\* ... and is dropped or goes to a job that writes it.
LEMMA ResultJobs ==
    ASSUME TypeOK, NEW j \in jobs, HandleResult(j)
    PROVE  /\ j.work = "classify" /\ j.verdict \in Attentions /\ j.task \in Tasks
           /\ \/ /\ j.n # gen[j.task] /\ jobs' = jobs \ {j} /\ shown' = shown
              \/ /\ j.n = gen[j.task] /\ shown' = [shown EXCEPT ![j.task] = j.verdict]
                 /\ \E k : Becomes(j, k, "apply", j.verdict) /\ jobs' = (jobs \ {j}) \cup {k}
<1>1. j \in Job /\ j.work = "classify" /\ j.verdict \in Attentions /\ j.task \in Tasks
  BY Jobs DEF HandleResult
<1>2. Becomes(j, [j EXCEPT !.work = "apply"], "apply", j.verdict)
  BY <1>1 DEF Becomes, Job
<1> QED BY <1>1, <1>2 DEF HandleResult

\* An event starts its own job, and for a Stop the one that asks the model.
LEMMA EventJobs ==
    ASSUME TypeOK, HandleEvent
    PROVE  LET t    == pump.task
               left == PermsAfter(perms[t], pump.kind, pump.agent)
           IN  \E e, c :
                  /\ e \in Job /\ e.work = "event" /\ e.verdict = None /\ e.task = t /\ e.n = gen[t] + 1
                  /\ e.kind = pump.kind /\ e.suppress = (left # {})
                  /\ c \in Job /\ c.work = "classify" /\ c.verdict = None /\ c.task = t /\ c.n = gen[t] + 1
                  /\ jobs' = jobs \cup {e} \/ (jobs' = jobs \cup {e, c} /\ left = {})
                  /\ Classifying(pump.kind) => jobs' = jobs \cup {e, c}
<1> DEFINE t == pump.task
           k == pump.kind
           left == PermsAfter(perms[t], k, pump.agent)
           sup == left # {}
           e == Started("event", t, gen[t] + 1, k, sup)
           c == Started("classify", t, gen[t] + 1, "Stop", sup)
<1>1. /\ t \in Tasks /\ k \in AllKinds /\ gen[t] + 1 \in Nat /\ sup \in BOOLEAN
      /\ k = "Stop" => left = {}
  BY Taken, Permissions DEF TypeOK
<1>2. jobs' = jobs \cup {e} \cup {Started("classify", t, gen[t] + 1, x, sup) : x \in {k} \cap {"Stop"}}
  BY DEF HandleEvent, Counted
<1>3. "Stop" \in AllKinds
  BY DEF AllKinds
<1> HIDE DEF t, k, left, sup
<1>4. /\ e \in Job /\ e.work = "event" /\ e.verdict = None /\ e.task = t /\ e.n = gen[t] + 1
      /\ e.kind = k /\ e.suppress = sup
  BY <1>1 DEF Started, Job
<1>5. c \in Job /\ c.work = "classify" /\ c.verdict = None /\ c.task = t /\ c.n = gen[t] + 1
  BY <1>1, <1>3 DEF Started, Job
<1>6. IF k = "Stop" THEN jobs' = jobs \cup {e, c} ELSE jobs' = jobs \cup {e}
  BY <1>2
<1> HIDE DEF e, c
<1> QED BY <1>1, <1>4, <1>5, <1>6 DEF t, k, left, sup, Classifying

\* Every step keeps the types.
LEMMA StepTypeOK == Inv /\ [Next]_vars => TypeOK'
<1> SUFFICES ASSUME Inv, [Next]_vars PROVE TypeOK'
  OBVIOUS
<1>0. TypeOK
  BY DEF Inv
<1>p. Piped'
  BY <1>0, StepPiped
<1> USE DEF row, memory, ghosts
<1>1. CASE Quiet
  BY <1>0, <1>p, <1>1 DEF Quiet, TypeOK, Piped
<1>2. CASE HandleEvent
  <2> DEFINE t == pump.task
             k == pump.kind
             n == Counted(t, k)
             left == PermsAfter(perms[t], k, pump.agent)
             sup == left # {}
  <2>1. t \in Tasks /\ k \in AllKinds /\ n \in Nat /\ left \in SUBSET Agents /\ sup \in BOOLEAN
    BY <1>0, <1>2, Taken DEF Counted
  <2>2. /\ perms' = [perms EXCEPT ![t] = left] /\ gen' = [gen EXCEPT ![t] = n]
        /\ spinner' \in {spinner \cup {t}, spinner \ {t}}
        /\ shown' = [shown EXCEPT ![t] = Kept(@, Decision(state[t], @, k, sup))]
        /\ UNCHANGED <<row, muddled>>
    BY <1>2 DEF HandleEvent, SpinnerAfter
  <2> HIDE DEF t, k, n, left, sup
  <2>4. jobs' \subseteq Job
    BY <1>0, <1>2, EventJobs DEF TypeOK
  <2>5. Kept(shown[t], Decision(state[t], shown[t], k, sup)) \in Attentions
    BY <1>0, <2>1, Decisions DEF TypeOK, Kept
  <2> QED BY <1>0, <1>p, <2>1, <2>2, <2>4, <2>5 DEF TypeOK, Piped
<1>3. ASSUME NEW j \in jobs, HandleResult(j) PROVE TypeOK'
  <2>1. jobs' \subseteq Job /\ shown' \in [Tasks -> Attentions] /\ spinner' \subseteq Tasks
    BY <1>0, <1>3, ResultJobs DEF HandleResult, Becomes, TypeOK
  <2> QED BY <1>0, <1>p, <1>3, <2>1 DEF HandleResult, TypeOK, Piped
<1>4. ASSUME NEW j \in jobs, Read(j) PROVE TypeOK'
  <2>2. jobs' \subseteq Job
    BY <1>0, <1>4, ReadJobs DEF Becomes, TypeOK
  <2> QED BY <1>0, <1>p, <1>4, <2>2, Jobs DEF Read, Muddle, TypeOK, Piped
<1>5. ASSUME NEW j \in jobs, Write(j) \/ WriteFails(j) PROVE TypeOK'
  BY <1>0, <1>p, <1>5, Jobs DEF Write, WriteFails, ToWrite, Muddle, TypeOK, Piped
<1>6. ASSUME NEW j \in jobs, Classified(j) PROVE TypeOK'
  <2>1. jobs' \subseteq Job
    BY <1>0, <1>6, ClassifiedJobs DEF Becomes, TypeOK
  <2> QED BY <1>0, <1>p, <1>6, <2>1 DEF Classified, TypeOK, Piped
<1>7. ASSUME NEW t \in Tasks, Complete(t) \/ SetDone(t) \/ SetDoneFails(t) \/ Fail(t) PROVE TypeOK'
  BY <1>0, <1>p, <1>7 DEF Complete, SetDone, SetDoneFails, Fail, TypeOK, Piped, Attentions
<1> QED BY <1>1, <1>2, <1>3, <1>4, <1>5, <1>6, <1>7, Steps

--------------------------------------------------------------------------------
(* The spinner, the numbers and the permissions.                           *)

\* What Update changes of its memory for an event.
LEMMA Remembered ==
    ASSUME TypeOK, HandleEvent
    PROVE  LET t    == pump.task
               left == PermsAfter(perms[t], pump.kind, pump.agent)
           IN  /\ gen'[t] = gen[t] + 1 /\ perms'[t] = left
               /\ shown'[t] = Kept(shown[t], Decision(state[t], shown[t], pump.kind, left # {}))
               /\ \A u \in Tasks \ {t} : gen'[u] = gen[u] /\ perms'[u] = perms[u] /\ shown'[u] = shown[u]
               /\ spinner' = IF Classifying(pump.kind) THEN spinner \cup {t} ELSE spinner \ {t}
               /\ UNCHANGED <<row, muddled>>
BY Taken DEF HandleEvent, TypeOK, Counted, SpinnerAfter

\* A spinner goes on standing for a classification of the newest event.
LEMMA StepSpinnerHonest == Inv /\ [Next]_vars => SpinnerHonest'
<1> SUFFICES ASSUME Inv, [Next]_vars, NEW t \in Tasks, t \in spinner'
             PROVE  \E j \in jobs' : j.work = "classify" /\ j.task = t /\ j.n = gen'[t]
  BY StepTypeOK DEF SpinnerHonest, TypeOK
<1>0. TypeOK /\ SpinnerHonest
  BY DEF Inv
<1> USE DEF row, memory, ghosts
<1>1. CASE Quiet
  BY <1>0, <1>1 DEF Quiet, SpinnerHonest
<1>2. CASE HandleEvent
  <2>1. CASE t = pump.task
    BY <1>0, <1>2, <2>1, EventJobs, Remembered
  <2>2. CASE t # pump.task
    <3>1. PICK j \in jobs : j.work = "classify" /\ j.task = t /\ j.n = gen[t]
      BY <1>0, <1>2, <2>2, Remembered DEF SpinnerHonest
    <3>2. j \in jobs' /\ gen'[t] = gen[t]
      BY <1>0, <1>2, <2>2, EventJobs, Remembered
    <3> QED BY <3>1, <3>2
  <2> QED BY <2>1, <2>2
<1>3. ASSUME NEW i \in jobs, HandleResult(i)
      PROVE  \E j \in jobs' : j.work = "classify" /\ j.task = t /\ j.n = gen'[t]
  <2>1. t \in spinner /\ t # i.task /\ gen' = gen
    BY <1>3 DEF HandleResult
  <2> QED BY <1>0, <1>3, <2>1, ResultJobs DEF SpinnerHonest
<1>4. ASSUME NEW i \in jobs, Read(i) \/ Write(i) \/ WriteFails(i)
      PROVE  \E j \in jobs' : j.work = "classify" /\ j.task = t /\ j.n = gen'[t]
  <2>1. i.work # "classify" /\ jobs \ {i} \subseteq jobs' /\ gen' = gen /\ spinner' = spinner
    BY <1>4 DEF Read, Write, WriteFails, ToWrite
  <2> QED BY <1>0, <2>1 DEF SpinnerHonest
<1>5. ASSUME NEW i \in jobs, Classified(i)
      PROVE  \E j \in jobs' : j.work = "classify" /\ j.task = t /\ j.n = gen'[t]
  <2>1. PICK k : /\ k.work = "classify" /\ k.task = i.task /\ k.n = i.n
                 /\ jobs' = (jobs \ {i}) \cup {k} /\ gen' = gen /\ spinner' = spinner
    BY <1>0, <1>5, ClassifiedJobs DEF Classified, Becomes
  <2> QED BY <1>0, <2>1 DEF SpinnerHonest
<1>6. ASSUME NEW u \in Tasks, Complete(u) \/ SetDone(u) \/ SetDoneFails(u) \/ Fail(u)
      PROVE  \E j \in jobs' : j.work = "classify" /\ j.task = t /\ j.n = gen'[t]
  BY <1>0, <1>6 DEF Complete, SetDone, SetDoneFails, Fail, SpinnerHonest
<1> QED BY <1>1, <1>2, <1>3, <1>4, <1>5, <1>6, Steps

\* Jobs that are gone, or only get a verdict, leave the numbers as they are.
LEMMA KeepsNumbered ==
    ASSUME TypeOK, Numbered, gen' = gen, perms' = perms,
           \/ jobs' \subseteq jobs
           \/ \E j \in jobs : \E k : /\ jobs' = (jobs \ {j}) \cup {k}
                                     /\ k.work = j.work /\ k.task = j.task /\ k.n = j.n /\ k.verdict # None
    PROVE  Numbered'
<1>1. CASE jobs' \subseteq jobs
  BY <1>1 DEF Numbered
<1>2. ASSUME NEW j \in jobs, NEW k, jobs' = (jobs \ {j}) \cup {k},
             k.work = j.work, k.task = j.task, k.n = j.n, k.verdict # None
      PROVE  Numbered'
  BY <1>2 DEF Numbered
<1> QED BY <1>1, <1>2

\* The goroutines stay numbered in the order of the events, one of each sort.
LEMMA StepNumbered == Inv /\ [Next]_vars => Numbered'
<1> SUFFICES ASSUME Inv, [Next]_vars PROVE Numbered'
  OBVIOUS
<1>0. TypeOK /\ Numbered
  BY DEF Inv
<1> USE DEF row, memory, ghosts
<1>1. CASE Quiet
  BY <1>0, <1>1, KeepsNumbered DEF Quiet
<1>2. CASE HandleEvent
  <2> DEFINE t == pump.task
             left == PermsAfter(perms[t], pump.kind, pump.agent)
  <2>1. /\ t \in Tasks /\ gen[t] \in Nat /\ gen'[t] = gen[t] + 1 /\ perms'[t] = left
        /\ \A u \in Tasks \ {t} : gen'[u] = gen[u] /\ perms'[u] = perms[u]
    BY <1>0, <1>2, Taken, Remembered
  <2>2. PICK e, c :
          /\ e.work = "event" /\ e.task = t /\ e.n = gen[t] + 1
          /\ c.work = "classify" /\ c.task = t /\ c.n = gen[t] + 1
          /\ jobs' = jobs \cup {e} \/ (jobs' = jobs \cup {e, c} /\ left = {})
    BY <1>0, <1>2, EventJobs
  <2> HIDE DEF t, left
  <2>3. ASSUME NEW j \in jobs
        PROVE  /\ j.task \in Tasks /\ j.n \in Nat /\ gen[j.task] \in Nat /\ gen'[j.task] \in Nat
               /\ j.n <= gen[j.task] /\ j.n <= gen'[j.task]
               /\ j.work = "apply" => j.verdict # None
               /\ j.task = t => j.n < gen'[t] /\ j.n # gen[t] + 1
               /\ j.work = "classify" /\ j.n = gen'[j.task] => perms'[j.task] = {}
    BY <1>0, <2>1, Jobs DEF Numbered, TypeOK
  <2>4. \A j \in jobs' : /\ j.n <= gen'[j.task]
                         /\ j.work = "apply" => j.verdict # None
                         /\ j.work = "classify" /\ j.n = gen'[j.task] => perms'[j.task] = {}
    BY <2>1, <2>2, <2>3
  <2>5. \A i, j \in jobs' : i.task = j.task /\ i.n = j.n =>
             (i.work = j.work => i = j) /\ ~(i.work = "classify" /\ j.work = "apply")
    BY <1>0, <2>2, <2>3 DEF Numbered
  <2> QED BY <2>4, <2>5 DEF Numbered
<1>3. ASSUME NEW j \in jobs, HandleResult(j) PROVE Numbered'
  <2>1. gen' = gen /\ perms' = perms
    BY <1>3 DEF HandleResult
  <2>2. CASE jobs' = jobs \ {j}
    BY <1>0, <2>1, <2>2, KeepsNumbered
  <2>3. ASSUME NEW k, jobs' = (jobs \ {j}) \cup {k}, Becomes(j, k, "apply", j.verdict),
               j.work = "classify", j.verdict \in Attentions
        PROVE  Numbered'
    BY <1>0, <2>1, <2>3 DEF Becomes, Numbered
  <2> QED BY <1>0, <1>3, <2>2, <2>3, ResultJobs
<1>4. ASSUME NEW j \in jobs, Read(j) PROVE Numbered'
  BY <1>0, <1>4, ReadJobs, KeepsNumbered DEF Read, Becomes
<1>5. ASSUME NEW j \in jobs, Write(j) \/ WriteFails(j) PROVE Numbered'
  BY <1>0, <1>5, KeepsNumbered DEF Write, WriteFails
<1>6. ASSUME NEW j \in jobs, Classified(j) PROVE Numbered'
  BY <1>0, <1>6, ClassifiedJobs, KeepsNumbered DEF Classified, Becomes
<1>7. ASSUME NEW t \in Tasks, Complete(t) \/ SetDone(t) \/ SetDoneFails(t) \/ Fail(t) PROVE Numbered'
  BY <1>0, <1>7, KeepsNumbered DEF Complete, SetDone, SetDoneFails, Fail
<1> QED BY <1>1, <1>2, <1>3, <1>4, <1>5, <1>6, <1>7, Steps

\* A pending permission of a live task stays one that is to be shown.
LEMMA StepPermissionDue == Inv /\ [Next]_vars => PermissionDue'
<1> SUFFICES ASSUME Inv, [Next]_vars, NEW t \in Tasks, state'[t] = "live", perms'[t] # {}
             PROVE  shown'[t] \in {"permission", "error"}
  BY DEF PermissionDue
<1>0. TypeOK /\ Numbered /\ PermissionDue
  BY DEF Inv
<1> USE DEF row, memory, ghosts
<1>1. CASE Quiet
  BY <1>0, <1>1 DEF Quiet, PermissionDue
<1>2. CASE HandleEvent
  <2>1. CASE t # pump.task
    BY <1>0, <1>2, <2>1, Remembered DEF PermissionDue
  <2>2. CASE t = pump.task
    <3> DEFINE left == PermsAfter(perms[t], pump.kind, pump.agent)
               d    == Decision(state[t], shown[t], pump.kind, left # {})
    <3>1. left # {} /\ state[t] = "live" /\ shown'[t] = Kept(shown[t], d)
      BY <1>0, <1>2, <2>2, Remembered
    <3>2. /\ d \in {None, "permission", "error"}
          /\ pump.kind = "PermissionRequest" => d = "permission"
      <4>1. d = Decision("live", shown[t], pump.kind, TRUE)
        BY <3>1
      <4>2. pump.kind \in AllKinds
        BY <1>0, <1>2, Taken
      <4>3. pump.kind = "PermissionRequest" => AttentionFromEvent(pump.kind) = "permission" /\ ~Classifying(pump.kind)
        BY DEF AttentionFromEvent, Classifying
      <4> HIDE DEF d
      <4> QED BY <4>1, <4>3 DEF Decision
    <3>3. pump.kind # "PermissionRequest" => perms[t] # {}
      BY <1>0, <1>2, <2>2, <3>1, Taken, Permissions DEF TypeOK
    <3> HIDE DEF d, left
    <3>4. "permission" # None /\ "error" # None
      BY DEF Attentions
    <3> QED BY <1>0, <3>1, <3>2, <3>3, <3>4 DEF Kept, PermissionDue
  <2> QED BY <2>1, <2>2
<1>3. ASSUME NEW j \in jobs, HandleResult(j) PROVE shown'[t] \in {"permission", "error"}
  <2>1. perms' = perms /\ state' = state
    BY <1>3 DEF HandleResult
  <2>2. CASE t = j.task /\ j.n = gen[j.task]
    BY <1>0, <1>3, <2>1, <2>2 DEF HandleResult, Numbered
  <2>3. CASE ~(t = j.task /\ j.n = gen[j.task])
    BY <1>0, <1>3, <2>1, <2>3, ResultJobs DEF PermissionDue, TypeOK
  <2> QED BY <2>2, <2>3
<1>4. ASSUME NEW j \in jobs, Read(j) \/ Write(j) \/ WriteFails(j) \/ Classified(j)
      PROVE  shown'[t] \in {"permission", "error"}
  BY <1>0, <1>4 DEF Read, Write, WriteFails, Classified, PermissionDue
<1>5. ASSUME NEW u \in Tasks, Complete(u) \/ Fail(u) PROVE shown'[t] \in {"permission", "error"}
  BY <1>0, <1>5 DEF Complete, Fail, PermissionDue, TypeOK
<1>6. ASSUME NEW u \in Tasks, SetDone(u) \/ SetDoneFails(u) PROVE shown'[t] \in {"permission", "error"}
  BY <1>0, <1>6 DEF SetDone, SetDoneFails, PermissionDue, TypeOK, Inv, Finished
<1> QED BY <1>1, <1>2, <1>3, <1>4, <1>5, <1>6, Steps

--------------------------------------------------------------------------------
(* A task that Complete is through with.                                   *)

\* Nothing is left that would write, or the newest of it says what is shown.
Through(t) ==
    \/ Decided(t) = {} /\ attention[t] \in {"done", shown[t]}
    \/ \E j \in Decided(t) : j.verdict = shown[t] /\ \A i \in Decided(t) : i = j \/ Older(i, j)

\* A completed task goes on showing done, or what the newest verdict says.
LEMMA StepFinished == Inv /\ [Next]_vars => Finished'
<1> SUFFICES ASSUME Inv, [Next]_vars PROVE Finished'
  OBVIOUS
<1>0. TypeOK /\ Numbered /\ Finished
  BY DEF Inv
<1>e. \A t \in ending : state[t] = "completed"
  BY <1>0 DEF Finished
<1>f. \A t \in Tasks \ (muddled \cup ending) : state[t] = "completed" => Through(t)
  BY <1>0 DEF Finished, Through
<1> SUFFICES /\ \A t \in ending' : state'[t] = "completed"
             /\ \A t \in Tasks \ (muddled' \cup ending') : state'[t] = "completed" => Through(t)'
  BY DEF Finished, Through
<1> USE DEF row, memory, ghosts
<1>t. \A j \in jobs : j.task \in Tasks
  BY <1>0, Jobs
\* The jobs of the other tasks are left alone.
<1>o. ASSUME NEW t \in Tasks, Decided(t)' = Decided(t), attention'[t] = attention[t], shown'[t] = shown[t],
             Through(t)
      PROVE  Through(t)'
  BY <1>o DEF Through, Older
<1>1. CASE Quiet
  BY <1>1, <1>e, <1>f DEF Quiet, Through, Decided, Writers, Older
<1>2. CASE HandleEvent
  <2>1. UNCHANGED <<row, muddled>>
    BY <1>2 DEF HandleEvent
  <2>2. ASSUME NEW t \in Tasks, state[t] = "completed" PROVE shown'[t] = shown[t]
    <3>1. CASE t # pump.task
      BY <1>0, <1>2, <3>1, Remembered
    <3>2. CASE t = pump.task
      <4> DEFINE sup == PermsAfter(perms[t], pump.kind, pump.agent) # {}
      <4>1. shown'[t] = Kept(shown[t], Decision(state[t], shown[t], pump.kind, sup)) /\ sup \in BOOLEAN
        BY <1>0, <1>2, <3>2, Remembered
      <4>2. pump.kind \in AllKinds
        BY <1>0, <1>2, Taken
      <4> HIDE DEF sup
      <4> QED BY <2>2, <4>1, <4>2, Decisions DEF Kept
    <3> QED BY <3>1, <3>2
  <2>3. ASSUME NEW t \in Tasks PROVE Decided(t)' = Decided(t)
    BY <1>0, <1>2, EventJobs DEF Decided, Writers
  <2> QED BY <1>e, <1>f, <1>o, <2>1, <2>2, <2>3
<1>3. ASSUME NEW j \in jobs, HandleResult(j)
      PROVE  /\ \A t \in ending' : state'[t] = "completed"
             /\ \A t \in Tasks \ (muddled' \cup ending') : state'[t] = "completed" => Through(t)'
  <2>1. UNCHANGED <<row, gen, muddled>>
    BY <1>3 DEF HandleResult
  <2>2. j.work = "classify" /\ j.verdict \in Attentions /\ j.task \in Tasks
    BY <1>0, <1>3, ResultJobs
  <2>3. CASE jobs' = jobs \ {j} /\ shown' = shown
    <3>1. ASSUME NEW t \in Tasks PROVE Decided(t)' = Decided(t)
      BY <2>2, <2>3 DEF Decided, Writers
    <3> QED BY <1>e, <1>f, <1>o, <2>1, <2>3, <3>1
  <2>4. ASSUME NEW k, j.n = gen[j.task], shown' = [shown EXCEPT ![j.task] = j.verdict],
               Becomes(j, k, "apply", j.verdict), jobs' = (jobs \ {j}) \cup {k}
        PROVE  \A t \in Tasks \ (muddled \cup ending) : state[t] = "completed" => Through(t)'
    <3>1. ASSUME NEW t \in Tasks \ {j.task} PROVE Decided(t)' = Decided(t) /\ shown'[t] = shown[t]
      BY <1>0, <2>2, <2>4, <3>1 DEF Decided, Writers, Becomes, TypeOK
    <3>2. Through(j.task)'
      <4> DEFINE t == j.task
      <4>1. k \in Decided(t)' /\ k.verdict = shown'[t]
        BY <1>0, <2>2, <2>4 DEF Decided, Writers, Becomes, TypeOK, Attentions
      <4>2. ASSUME NEW i \in Decided(t)', i # k PROVE Older(i, k)
        <5>1. i \in jobs /\ i.task = t /\ i.work # "classify"
          BY <2>4, <4>2 DEF Decided, Writers
        <5>2. i.n \in Nat /\ i.n <= gen[t] /\ gen[t] \in Nat /\ i.work \in {"event", "apply"}
          BY <1>0, <2>2, <5>1, Jobs DEF Numbered, TypeOK
        <5>3. ~(i.n = j.n /\ i.work = "apply")
          BY <1>0, <2>2, <5>1 DEF Numbered
        <5> QED BY <2>4, <4>2, <5>1, <5>2, <5>3 DEF Older, Becomes
      <4> HIDE DEF t
      <4> QED BY <4>1, <4>2 DEF Through, t, Older
    <3> QED BY <1>f, <1>o, <2>1, <3>1, <3>2
  <2> QED BY <1>0, <1>3, <1>e, <2>1, <2>3, <2>4, ResultJobs
<1>4. ASSUME NEW j \in jobs, Read(j) \/ Classified(j)
      PROVE  /\ \A t \in ending' : state'[t] = "completed"
             /\ \A t \in Tasks \ (muddled' \cup ending') : state'[t] = "completed" => Through(t)'
  <2>1. UNCHANGED <<row, shown>> /\ muddled \subseteq muddled'
    BY <1>4 DEF Read, Classified, Muddle
  <2>2. ASSUME NEW t \in Tasks, state[t] = "completed" PROVE Decided(t)' = Decided(t)
    <3>1. CASE Read(j)
      <4>1. j.verdict = None /\ j.kind \in AllKinds /\ j.suppress \in BOOLEAN
        BY <1>0, <3>1, Jobs DEF Read
      <4>2. j.task = t => jobs' = jobs \ {j}
        BY <1>0, <2>2, <3>1, <4>1, ReadJobs, Decisions
      <4>3. PICK k : k.task = j.task /\ (jobs' = jobs \ {j} \/ jobs' = (jobs \ {j}) \cup {k})
        BY <1>0, <3>1, ReadJobs DEF Becomes
      <4> QED BY <4>1, <4>2, <4>3 DEF Decided, Writers
    <3>2. CASE Classified(j)
      BY <1>0, <3>2, ClassifiedJobs DEF Decided, Writers, Becomes
    <3> QED BY <1>4, <3>1, <3>2
  <2> QED BY <1>e, <1>f, <1>o, <2>1, <2>2
<1>5. ASSUME NEW j \in jobs, Write(j) \/ WriteFails(j)
      PROVE  /\ \A t \in ending' : state'[t] = "completed"
             /\ \A t \in Tasks \ (muddled' \cup ending') : state'[t] = "completed" => Through(t)'
  <2>1. UNCHANGED <<state, ending, shown>> /\ muddled \subseteq muddled' /\ jobs' = jobs \ {j}
    BY <1>5 DEF Write, WriteFails, Muddle
  <2>2. ASSUME NEW t \in Tasks \ {j.task}
        PROVE  Decided(t)' = Decided(t) /\ attention'[t] = attention[t] /\ shown'[t] = shown[t]
    BY <1>0, <1>5, <2>1 DEF Decided, Writers, TypeOK, Write, WriteFails
  <2>3. ASSUME j.task \notin muddled' \cup ending', state'[j.task] = "completed" PROVE Through(j.task)'
    <3> DEFINE t == j.task
    <3>1. Write(j) /\ ~Overtakes(j) /\ t \in Tasks
      BY <1>t, <1>5, <2>3 DEF Write, WriteFails, Muddle
    <3>2. j \in Decided(t) /\ attention'[t] = j.verdict
      BY <1>0, <3>1 DEF Decided, Writers, Write, ToWrite, TypeOK
    <3>3. PICK m \in Decided(t) : m.verdict = shown[t] /\ \A i \in Decided(t) : i = m \/ Older(i, m)
      BY <1>f, <2>1, <2>3, <3>1, <3>2 DEF Through
    <3>4. Decided(t)' = Decided(t) \ {j}
      BY <2>1 DEF Decided, Writers
    <3>5. CASE m = j
      <4>1. Decided(t) = {j}
        BY <3>1, <3>2, <3>3, <3>5 DEF Overtakes, Decided, Writers
      <4> HIDE DEF t
      <4> QED BY <2>1, <3>2, <3>3, <3>4, <3>5, <4>1 DEF Through, t
    <3>6. CASE m # j
      <4> HIDE DEF t
      <4> QED BY <2>1, <3>3, <3>4, <3>6 DEF Through, t, Older
    <3> QED BY <3>5, <3>6
  <2> QED BY <1>e, <1>f, <1>o, <2>1, <2>2, <2>3
<1>6. ASSUME NEW u \in Tasks, Complete(u) \/ Fail(u) \/ SetDone(u) \/ SetDoneFails(u)
      PROVE  /\ \A t \in ending' : state'[t] = "completed"
             /\ \A t \in Tasks \ (muddled' \cup ending') : state'[t] = "completed" => Through(t)'
  <2>1. ASSUME NEW t \in Tasks \ {u}
        PROVE  /\ Decided(t)' = Decided(t) /\ attention'[t] = attention[t] /\ shown'[t] = shown[t]
               /\ state'[t] = state[t] /\ (t \in ending' <=> t \in ending) /\ (t \in muddled' <=> t \in muddled)
    BY <1>0, <1>6 DEF Complete, Fail, SetDone, SetDoneFails, Decided, Writers, TypeOK
  <2>2. u \in ending' => state'[u] = "completed"
    BY <1>0, <1>e, <1>6 DEF Complete, Fail, SetDone, SetDoneFails, TypeOK
  <2>3. ASSUME u \notin muddled' \cup ending', state'[u] = "completed" PROVE Through(u)'
    <3>1. SetDone(u)
      BY <1>0, <1>6, <2>3 DEF Complete, Fail, SetDoneFails, TypeOK
    <3>2. attention'[u] = "done" /\ Decided(u)' = {}
      BY <1>0, <2>3, <3>1 DEF SetDone, ToWrite, Decided, Writers, TypeOK
    <3> QED BY <3>2 DEF Through
  <2>4. ending' \subseteq Tasks
    BY StepTypeOK DEF TypeOK
  <2> QED BY <1>e, <1>f, <1>o, <2>1, <2>2, <2>3, <2>4
<1> QED BY <1>1, <1>2, <1>3, <1>4, <1>5, <1>6, Steps

--------------------------------------------------------------------------------
(* What is shown for a live task, as a matter of the goroutines W that     *)
(* write its attention, of what is there and of what is to be shown.       *)

Lead(v, S) == IF v # "done" /\ \E j \in S : Nudges(j) THEN "waiting" ELSE v

Explains(W, att, sh) ==
    \/ (\A j \in W : ~Firm(j)) /\ sh = Lead(att, W)
    \/ \E m \in W : /\ Firm(m) /\ \A i \in W : Firm(i) => i = m \/ Older(i, m)
                    /\ sh = Lead(Says(m), {i \in W : Older(m, i)})

Ordered(W) ==
    /\ W \subseteq Job
    /\ \A i, j \in W : i = j \/ Older(i, j) \/ Older(j, i)
    /\ \A i, j \in W : ~(Older(i, j) /\ Older(j, i))

\* Explained says this of each live task that is not muddled.
LEMMA ExplainedIs ==
    Explained <=> \A t \in Tasks \ muddled : state[t] = "live" => Explains(Writers(t), attention[t], shown[t])
BY DEF Explained, Explains, Leads, Lead

\* The goroutines of a task are ordered by their events.
LEMMA WritersOrdered == ASSUME TypeOK, Numbered, NEW t PROVE Ordered(Writers(t))
<1>1. ASSUME NEW i \in Writers(t), NEW j \in Writers(t)
      PROVE  (i = j \/ Older(i, j) \/ Older(j, i)) /\ ~(Older(i, j) /\ Older(j, i))
  <2>1. /\ i \in jobs /\ j \in jobs /\ i.task = t /\ j.task = t
        /\ i.work \in {"event", "apply"} /\ j.work \in {"event", "apply"} /\ i.n \in Nat /\ j.n \in Nat
    BY Jobs DEF Writers
  <2>2. i.n = j.n /\ i.work = j.work => i = j
    BY <2>1 DEF Numbered
  <2> QED BY <2>1, <2>2 DEF Older
<1> QED BY <1>1, Jobs DEF Ordered, Writers

\* A firm goroutine that is newer than all the others says what is shown.
LEMMA NewestIsFirm ==
    ASSUME NEW W, NEW att, NEW e, Firm(e), \A i \in W : Older(i, e) /\ ~Older(e, i)
    PROVE  Explains(W \cup {e}, att, Says(e))
BY DEF Explains, Lead, Older

\* One that is not firm, newer than all the others, only matters if it nudges.
LEMMA NewestIsNot ==
    ASSUME NEW W, NEW att, NEW sh, NEW e, Explains(W, att, sh), ~Firm(e),
           \A i \in W : Older(i, e)
    PROVE  Explains(W \cup {e}, att, IF Nudges(e) /\ sh # "done" THEN "waiting" ELSE sh)
<1> DEFINE sh2 == IF Nudges(e) /\ sh # "done" THEN "waiting" ELSE sh
<1>1. CASE (\A j \in W : ~Firm(j)) /\ sh = Lead(att, W)
  BY <1>1 DEF Explains, Lead
<1>2. ASSUME NEW m \in W, Firm(m), \A i \in W : Firm(i) => i = m \/ Older(i, m),
             sh = Lead(Says(m), {i \in W : Older(m, i)})
      PROVE  Explains(W \cup {e}, att, sh2)
  <2>1. {i \in W \cup {e} : Older(m, i)} = {i \in W : Older(m, i)} \cup {e}
    OBVIOUS
  <2>2. sh2 = Lead(Says(m), {i \in W \cup {e} : Older(m, i)})
    BY <1>2, <2>1 DEF Lead
  <2> QED BY <1>2, <2>2 DEF Explains
<1> QED BY <1>1, <1>2 DEF Explains

\* The oldest one may go if it is neither firm nor nudges, or finds a "done".
LEMMA OldestGoes ==
    ASSUME NEW W, NEW att, NEW sh, NEW j \in W, Ordered(W), Explains(W, att, sh),
           \A i \in W : ~Older(i, j), ~Firm(j), att = "done" \/ ~Nudges(j)
    PROVE  Explains(W \ {j}, att, sh)
<1>1. CASE (\A i \in W : ~Firm(i)) /\ sh = Lead(att, W)
  BY <1>1 DEF Explains, Lead
<1>2. ASSUME NEW m \in W, Firm(m), \A i \in W : Firm(i) => i = m \/ Older(i, m),
             sh = Lead(Says(m), {i \in W : Older(m, i)})
      PROVE  Explains(W \ {j}, att, sh)
  <2>1. m # j /\ {i \in W \ {j} : Older(m, i)} = {i \in W : Older(m, i)}
    BY <1>2
  <2> QED BY <1>2, <2>1 DEF Explains
<1> QED BY <1>1, <1>2 DEF Explains

\* The oldest one may make up its mind if that is what it says anyway, or it is
\* an idle prompt that finds no "done".
LEMMA OldestDecides ==
    ASSUME NEW W, NEW att, NEW sh, NEW j \in W, NEW k, Ordered(W), Explains(W, att, sh),
           \A i \in W : ~Older(i, j), Becomes(j, k, j.work, k.verdict), Firm(k),
           IF Firm(j) THEN Says(k) = Says(j) ELSE Nudges(j) /\ att # "done" /\ Says(k) = "waiting"
    PROVE  Explains((W \ {j}) \cup {k}, att, sh)
<1> DEFINE V == (W \ {j}) \cup {k}
<1>0. \A i \in W \ {j} : ~Older(i, k) /\ Older(k, i)
  <2> SUFFICES ASSUME NEW i \in W \ {j} PROVE ~Older(i, k) /\ Older(k, i)
    OBVIOUS
  <2>1. i \in Job /\ j \in Job /\ i.n \in Nat /\ j.n \in Nat
    BY DEF Ordered, Job
  <2>2. Older(j, i) /\ ~Older(i, j)
    BY DEF Ordered
  <2> QED BY <2>1, <2>2 DEF Becomes, Older
<1>1. CASE (\A i \in W : ~Firm(i)) /\ sh = Lead(att, W)
  <2>1. sh = "waiting" /\ Says(k) = "waiting"
    BY <1>1 DEF Lead
  <2>2. sh = Lead(Says(k), {i \in V : Older(k, i)})
    BY <2>1 DEF Lead
  <2> QED BY <1>1, <2>2 DEF Explains
<1>2. ASSUME NEW m \in W, Firm(m), \A i \in W : Firm(i) => i = m \/ Older(i, m),
             sh = Lead(Says(m), {i \in W : Older(m, i)})
      PROVE  Explains(V, att, sh)
  <2>1. CASE m = j
    <3>1. {i \in V : Older(k, i)} = {i \in W : Older(j, i)}
      BY <1>0 DEF Ordered, Older
    <3>2. \A i \in W : Firm(i) => i = j
      BY <1>2, <2>1
    <3> QED BY <1>2, <2>1, <3>1, <3>2 DEF Explains
  <2>2. CASE m # j
    <3>1. {i \in V : Older(m, i)} = {i \in W : Older(m, i)}
      BY <1>0, <1>2, <2>2
    <3>2. \A i \in V : Firm(i) => i = m \/ Older(i, m)
      BY <1>0, <1>2, <2>2
    <3> QED BY <1>2, <2>2, <3>1, <3>2 DEF Explains
  <2> QED BY <2>1, <2>2
<1> QED BY <1>1, <1>2 DEF Explains

\* The oldest one may write what it says.
LEMMA OldestWrites ==
    ASSUME NEW W, NEW att, NEW sh, NEW j \in W, Ordered(W), Explains(W, att, sh),
           \A i \in W : ~Older(i, j), Firm(j)
    PROVE  Explains(W \ {j}, Says(j), sh)
<1>1. PICK m \in W : /\ Firm(m) /\ \A i \in W : Firm(i) => i = m \/ Older(i, m)
                     /\ sh = Lead(Says(m), {i \in W : Older(m, i)})
  BY DEF Explains
<1>2. CASE m = j
  <2>1. {i \in W : Older(j, i)} = W \ {j}
    BY DEF Ordered
  <2>2. \A i \in W \ {j} : ~Firm(i)
    BY <1>1, <1>2
  <2> QED BY <1>1, <1>2, <2>1, <2>2 DEF Explains
<1>3. CASE m # j
  <2>1. {i \in W \ {j} : Older(m, i)} = {i \in W : Older(m, i)}
    BY <1>1, <1>3
  <2> QED BY <1>1, <1>3, <2>1 DEF Explains
<1> QED BY <1>2, <1>3

\* The goroutines of a task that no job of the step is about stay as they are.
LEMMA OthersWriters ==
    ASSUME TypeOK, NEW j \in jobs, NEW t \in Tasks \ {j.task}, NEW k, k.task = j.task,
           jobs' = jobs \ {j} \/ jobs' = (jobs \ {j}) \cup {k}
    PROVE  Writers(t)' = Writers(t)
BY DEF Writers

\* What is to be shown goes on following from the newest firm goroutine, or from
\* what is there.
LEMMA StepExplained == Inv /\ [Next]_vars => Explained'
<1> SUFFICES ASSUME Inv, [Next]_vars, NEW t \in Tasks, t \notin muddled', state'[t] = "live"
             PROVE  Explains(Writers(t)', attention'[t], shown'[t])
  BY DEF Explained, Explains, Leads, Lead
<1>0. TypeOK /\ Numbered /\ Explained /\ Finished
  BY DEF Inv
<1>1. Ordered(Writers(t)) /\ (t \notin muddled /\ state[t] = "live" => Explains(Writers(t), attention[t], shown[t]))
  BY <1>0, WritersOrdered, ExplainedIs
<1> USE DEF row, memory, ghosts
<1>2. CASE Quiet
  BY <1>1, <1>2 DEF Quiet, Writers
<1>3. CASE HandleEvent
  <2>1. t \notin muddled /\ state[t] = "live" /\ attention' = attention
    BY <1>3 DEF HandleEvent
  <2> DEFINE W == Writers(t)
  <2>2. Explains(W, attention[t], shown[t])
    BY <1>1, <2>1
  <2>3. CASE t # pump.task
    <3>1. Writers(t)' = W /\ shown'[t] = shown[t]
      BY <1>0, <1>3, <2>3, EventJobs, Remembered DEF Writers
    <3> QED BY <2>1, <2>2, <3>1
  <2>4. CASE t = pump.task
    <3> DEFINE k == pump.kind
               sup == PermsAfter(perms[t], k, pump.agent) # {}
               d == Decision("live", shown[t], k, sup)
    <3>1. PICK e : /\ e.work = "event" /\ e.verdict = None /\ e.task = t /\ e.n = gen[t] + 1
                   /\ e.kind = k /\ e.suppress = sup /\ Writers(t)' = W \cup {e}
      BY <1>0, <1>3, <2>4, EventJobs DEF Writers
    <3>2. \A i \in W : Older(i, e) /\ ~Older(e, i)
      <4> SUFFICES ASSUME NEW i \in W PROVE Older(i, e) /\ ~Older(e, i)
        OBVIOUS
      <4>1. i \in jobs /\ i.task = t /\ i.work # "classify" /\ i.n \in Nat /\ gen[t] \in Nat /\ i.n <= gen[t]
        BY <1>0, Jobs DEF Writers, Numbered, TypeOK
      <4>2. i # e /\ i.n < e.n
        BY <3>1, <4>1
      <4> QED BY <3>1, <4>1, <4>2 DEF Older
    <3>3. shown'[t] = Kept(shown[t], d) /\ k \in AllKinds /\ sup \in BOOLEAN
      BY <1>0, <1>3, <2>1, <2>4, Remembered, Taken
    <3>4. AttentionFromEvent(k) \in Attentions \cup {None}
      BY <3>3, Meaning
    <3> HIDE DEF sup, k, W
    <3>5. CASE Firm(e)
      <4>1. k # "IdlePrompt" /\ Decision("live", "ok", k, sup) # None
        BY <3>1, <3>5 DEF Firm
      <4>2. d = AttentionFromEvent(k) /\ d # None
        BY <4>1 DEF Decision
      <4>3. Says(e) = shown'[t]
        BY <3>1, <3>3, <4>2 DEF Says, Kept
      <4>4. Explains(W \cup {e}, attention'[t], Says(e))
        BY <3>2, <3>5, NewestIsFirm
      <4> QED BY <3>1, <4>3, <4>4
    <3>6. CASE ~Firm(e)
      <4>1. k # "IdlePrompt" => Decision("live", "ok", k, sup) = None
        BY <3>1, <3>6 DEF Firm
      <4>2. k # "IdlePrompt" => d = None /\ ~Nudges(e)
        BY <3>1, <4>1 DEF Decision, Nudges
      <4>3. k = "IdlePrompt" => AttentionFromEvent(k) = "waiting" /\ ~Classifying(k)
        BY DEF AttentionFromEvent, Classifying
      <4>4. k = "IdlePrompt" => d = IF shown[t] = "done" \/ sup THEN None ELSE "waiting"
        BY <4>3 DEF Decision
      <4>5. k = "IdlePrompt" => (Nudges(e) <=> ~sup)
        BY <3>1 DEF Nudges
      <4>6. "waiting" # None
        BY DEF Attentions
      <4>7. shown'[t] = IF Nudges(e) /\ shown[t] # "done" THEN "waiting" ELSE shown[t]
        BY <3>3, <4>2, <4>4, <4>5, <4>6 DEF Kept
      <4>8. Explains(W \cup {e}, attention[t], IF Nudges(e) /\ shown[t] # "done" THEN "waiting" ELSE shown[t])
        BY <2>2, <3>2, <3>6, NewestIsNot
      <4> QED BY <2>1, <3>1, <4>7, <4>8
    <3> QED BY <3>5, <3>6
  <2> QED BY <2>3, <2>4
<1>4. ASSUME NEW j \in jobs, HandleResult(j)
      PROVE  Explains(Writers(t)', attention'[t], shown'[t])
  <2>1. t \notin muddled /\ state[t] = "live" /\ attention' = attention
    BY <1>4 DEF HandleResult
  <2>2. j.work = "classify" /\ j.verdict \in Attentions /\ j.task \in Tasks
    BY <1>0, <1>4, ResultJobs
  <2>3. CASE jobs' = jobs \ {j} /\ shown' = shown
    <3>1. Writers(t)' = Writers(t)
      BY <2>2, <2>3 DEF Writers
    <3> QED BY <1>1, <2>1, <2>3, <3>1
  <2>4. ASSUME NEW k, j.n = gen[j.task], shown' = [shown EXCEPT ![j.task] = j.verdict],
               Becomes(j, k, "apply", j.verdict), jobs' = (jobs \ {j}) \cup {k}
        PROVE  Explains(Writers(t)', attention'[t], shown'[t])
    <3>1. CASE t # j.task
      <4>1. Writers(t)' = Writers(t) /\ shown'[t] = shown[t]
        BY <1>0, <2>4, <3>1, OthersWriters DEF Becomes, TypeOK
      <4> QED BY <1>1, <2>1, <4>1
    <3>2. CASE t = j.task
      <4>1. Writers(t)' = Writers(t) \cup {k}
        BY <2>2, <2>4, <3>2 DEF Writers, Becomes
      <4>2. ASSUME NEW i \in Writers(t) PROVE Older(i, k) /\ ~Older(k, i)
        <5>1. i \in jobs /\ i.task = t /\ i.work # "classify"
          BY DEF Writers
        <5>2. i.n \in Nat /\ i.n <= gen[t] /\ gen[t] \in Nat /\ i.work \in {"event", "apply"}
          BY <1>0, <5>1, Jobs DEF Numbered, TypeOK
        <5>3. ~(i.n = j.n /\ i.work = "apply")
          BY <1>0, <2>2, <3>2, <5>1 DEF Numbered
        <5> QED BY <2>4, <3>2, <5>1, <5>2, <5>3 DEF Older, Becomes
      <4>3. Firm(k) /\ Says(k) = j.verdict /\ shown'[t] = j.verdict
        BY <1>0, <2>2, <2>4, <3>2 DEF Becomes, Firm, Says, TypeOK
      <4>4. Explains(Writers(t) \cup {k}, attention'[t], Says(k))
        BY <4>2, <4>3, NewestIsFirm
      <4> QED BY <4>1, <4>3, <4>4
    <3> QED BY <3>1, <3>2
  <2> QED BY <1>0, <1>4, <2>3, <2>4, ResultJobs
<1>5. ASSUME NEW j \in jobs, Read(j)
      PROVE  Explains(Writers(t)', attention'[t], shown'[t])
  <2>1. t \notin muddled /\ state[t] = "live" /\ attention' = attention /\ shown' = shown
    BY <1>5 DEF Read, Muddle
  <2> DEFINE W == Writers(t)
  <2>2. Explains(W, attention[t], shown[t])
    BY <1>1, <2>1
  <2>3. CASE t # j.task
    <3>1. Writers(t)' = W
      BY <1>0, <1>5, <2>3, ReadJobs, OthersWriters DEF Becomes
    <3> QED BY <2>1, <2>2, <3>1
  <2>4. CASE t = j.task
    <3> DEFINE new == Decision("live", attention[t], j.kind, j.suppress)
    <3>1. j \in W /\ j.work = "event" /\ j.verdict = None /\ j.kind \in AllKinds /\ j.suppress \in BOOLEAN
      BY <1>0, <1>5, <2>4, Jobs DEF Writers, Read
    <3>2. ~Overtakes(j)
      BY <1>5, <2>4 DEF Read, Muddle
    <3>3. \A i \in W : ~Older(i, j)
      BY <3>2 DEF Overtakes, Writers
    <3>4. j.kind # "IdlePrompt" => new = Decision("live", "ok", j.kind, j.suppress)
      BY DEF Decision
    <3>5. j.kind = "IdlePrompt" =>
             /\ AttentionFromEvent(j.kind) = "waiting"
             /\ new = IF attention[t] = "done" \/ j.suppress THEN None ELSE "waiting"
      BY DEF Decision, AttentionFromEvent, Classifying
    <3>6. new # None => new = AttentionFromEvent(j.kind)
      BY DEF Decision
    <3>7. Firm(j) <=> j.kind # "IdlePrompt" /\ new # None
      BY <3>1, <3>4 DEF Firm
    <3>8. Nudges(j) <=> j.kind = "IdlePrompt" /\ ~j.suppress
      BY <3>1 DEF Nudges
    <3>9. \/ new = None /\ jobs' = jobs \ {j}
          \/ new \in Attentions /\ \E k : Becomes(j, k, "event", new) /\ jobs' = (jobs \ {j}) \cup {k}
      BY <1>0, <1>5, <2>1, <2>4, ReadJobs
    <3> HIDE DEF new
    <3>10. "waiting" # None
      BY DEF Attentions
    <3>11. CASE new = None /\ jobs' = jobs \ {j}
      <4>1. Writers(t)' = W \ {j}
        BY <3>11 DEF Writers
      <4>2. ~Firm(j) /\ (attention[t] = "done" \/ ~Nudges(j))
        BY <3>1, <3>5, <3>7, <3>8, <3>10, <3>11
      <4> HIDE DEF W
      <4> QED BY <1>1, <2>1, <2>2, <3>1, <3>3, <4>1, <4>2, OldestGoes DEF W
    <3>12. ASSUME new \in Attentions, NEW k, Becomes(j, k, "event", new), jobs' = (jobs \ {j}) \cup {k}
           PROVE  Explains(Writers(t)', attention'[t], shown'[t])
      <4>1. Writers(t)' = (W \ {j}) \cup {k}
        BY <2>4, <3>12 DEF Writers, Becomes
      <4>2. Firm(k) /\ Says(k) = new /\ Becomes(j, k, j.work, k.verdict) /\ new # None
        BY <3>1, <3>12 DEF Firm, Says, Becomes
      <4>3. IF Firm(j) THEN Says(k) = Says(j) ELSE Nudges(j) /\ attention[t] # "done" /\ Says(k) = "waiting"
        BY <3>1, <3>5, <3>6, <3>7, <3>8, <4>2 DEF Says
      <4> HIDE DEF W
      <4>4. Ordered(W)
        BY <1>1 DEF W
      <4> QED BY <2>1, <2>2, <3>1, <3>3, <4>1, <4>2, <4>3, <4>4, OldestDecides
    <3> QED BY <3>9, <3>11, <3>12
  <2> QED BY <2>3, <2>4
<1>6. ASSUME NEW j \in jobs, Write(j) \/ WriteFails(j)
      PROVE  Explains(Writers(t)', attention'[t], shown'[t])
  <2>1. t \notin muddled /\ state[t] = "live" /\ shown' = shown /\ jobs' = jobs \ {j}
    BY <1>6 DEF Write, WriteFails, Muddle
  <2> DEFINE W == Writers(t)
  <2>2. Explains(W, attention[t], shown[t])
    BY <1>1, <2>1
  <2>3. CASE t # j.task
    <3>1. Writers(t)' = W /\ attention'[t] = attention[t]
      BY <1>0, <1>6, <2>1, <2>3, Jobs DEF Writers, Write, WriteFails, TypeOK
    <3> QED BY <2>1, <2>2, <3>1
  <2>4. CASE t = j.task
    <3>1. Write(j) /\ ~Overtakes(j) /\ ToWrite(j)
      BY <1>6, <2>4 DEF Write, WriteFails, Muddle
    <3>2. j \in W /\ Firm(j) /\ Says(j) = j.verdict
      BY <2>4, <3>1 DEF Writers, ToWrite, Firm, Says
    <3>3. \A i \in W : ~Older(i, j)
      BY <3>1 DEF Overtakes, Writers
    <3>4. Writers(t)' = W \ {j} /\ attention'[t] = j.verdict
      BY <1>0, <2>1, <2>4, <3>1 DEF Writers, Write, TypeOK
    <3> HIDE DEF W
    <3>5. Ordered(W)
      BY <1>1 DEF W
    <3> QED BY <2>1, <2>2, <3>2, <3>3, <3>4, <3>5, OldestWrites
  <2> QED BY <2>3, <2>4
<1>7. ASSUME NEW j \in jobs, Classified(j)
      PROVE  Explains(Writers(t)', attention'[t], shown'[t])
  <2>1. t \notin muddled /\ state[t] = "live" /\ shown' = shown /\ attention' = attention
    BY <1>7 DEF Classified
  <2>2. Writers(t)' = Writers(t)
    BY <1>0, <1>7, ClassifiedJobs DEF Writers, Becomes
  <2> QED BY <1>1, <2>1, <2>2
<1>8. ASSUME NEW u \in Tasks, Complete(u) \/ SetDone(u) \/ SetDoneFails(u) \/ Fail(u)
      PROVE  Explains(Writers(t)', attention'[t], shown'[t])
  <2>1. t # u
    BY <1>0, <1>8 DEF Complete, SetDone, SetDoneFails, Fail, TypeOK, Finished
  <2>2. /\ t \notin muddled /\ state[t] = "live" /\ attention'[t] = attention[t] /\ shown'[t] = shown[t]
        /\ jobs' = jobs
    BY <1>0, <1>8, <2>1 DEF Complete, SetDone, SetDoneFails, Fail, TypeOK
  <2> QED BY <1>1, <2>2 DEF Writers
<1> QED BY <1>2, <1>3, <1>4, <1>5, <1>6, <1>7, <1>8, Steps

--------------------------------------------------------------------------------
(* The theorems.                                                           *)

\* The invariant holds at the start.
LEMMA InitInv == Init => Inv
<1> SUFFICES ASSUME Init PROVE Inv
  OBVIOUS
<1>1. TypeOK
  BY EmptySeq DEF Init, TypeOK
<1>2. SpinnerHonest /\ Numbered /\ PermissionDue
  BY DEF Init, SpinnerHonest, Numbered, PermissionDue
<1>3. Explained /\ Finished
  BY DEF Init, Explained, Finished, Leads, Writers
<1> QED BY <1>1, <1>2, <1>3 DEF Inv

\* Always: the hook channel keeps its bound, no spinner turns for a question
\* nobody asks any more, and what the attention of a task follows from is there.
THEOREM Invariance == Spec => []Inv
<1>1. Inv /\ [Next]_vars => Inv'
  BY StepTypeOK, StepSpinnerHonest, StepNumbered, StepExplained, StepPermissionDue, StepFinished DEF Inv
<1> QED BY <1>1, InitInv, PTL DEF Spec

\* Where no goroutine is left that would write, nothing but the newest events
\* decides what is shown.
LEMMA InvShowsNewest == Inv => ShowsNewest
<1> SUFFICES ASSUME Inv, NEW t \in Tasks, Settled(t), state[t] = "live" PROVE attention[t] = shown[t]
  BY DEF ShowsNewest
<1>1. Writers(t) = {}
  BY DEF Settled, Writing, Writers
<1>2. Explains({}, attention[t], shown[t])
  BY <1>1, ExplainedIs DEF Inv, Settled
<1> QED BY <1>2 DEF Explains, Lead

\* The list shows what the newest events say, for any number of tasks, agents,
\* events and goroutines.
THEOREM Newest == Spec => []ShowsNewest
BY Invariance, InvShowsNewest, PTL

\* No other agent hides the permission that one waits for.
THEOREM PermissionStays == Spec => []PermissionShown
<1>1. Inv => PermissionShown
  BY InvShowsNewest DEF Inv, ShowsNewest, PermissionDue, PermissionShown
<1> QED BY <1>1, Invariance, PTL

\* No late event takes the "done" from a task that Complete is through with.
THEOREM CompletedStays == Spec => []CompletedShowsDone
<1>1. Inv => CompletedShowsDone
  BY DEF Inv, Finished, CompletedShowsDone, Settled, Writing, Decided, Writers
<1> QED BY <1>1, Invariance, PTL

================================================================================
