--------------------------- MODULE SessionForksProofs --------------------------
(***************************************************************************)
(* Theorems about SessionForks, for any number of tasks and sessions and   *)
(* any length of the hook channel.                                         *)
(***************************************************************************)
EXTENDS SessionForks, LeastNumber, FiniteSetTheorems, SequenceTheorems, TLAPS

USE NoneAssumption, BoundAssumption

--------------------------------------------------------------------------------
(* The lists of rows.                                                      *)

\* A set of numbers that is not empty has a minimum.
LEMMA Minimum ==
    ASSUME NEW S, S \subseteq Nat, S # {}
    PROVE  Min(S) \in S
BY Least DEF Min

\* The first row of S is one of S, and one that is not completed; a task of S with
\* such a row is not overlooked.
LEMMA FirstInIs ==
    ASSUME TypeOK, NEW S \in SUBSET Tasks
    PROVE  /\ FirstIn(S) # None => FirstIn(S) \in S
           /\ \A t \in S : row[t].state # "completed" /\ (\E i \in DOMAIN created : created[i] = t)
                             => FirstIn(S) # None
<1>1. /\ Len(created) \in Nat /\ DOMAIN created = 1..Len(created)
      /\ \A i \in 1..Len(created) : created[i] \in Tasks
  BY DEF TypeOK
<1>2. Listed(S) \subseteq Nat /\ \A i \in Listed(S) : created[i] \in S
  BY <1>1 DEF Listed
<1>3. Listed(S) # {} => FirstIn(S) \in S
  BY <1>2, Minimum DEF FirstIn
<1>4. Listed(S) # {} => FirstIn(S) # None
  BY <1>3
<1>5. \A t \in S : row[t].state # "completed" /\ (\E i \in DOMAIN created : created[i] = t)
                   => Listed(S) # {}
  BY DEF Listed
<1> QED BY <1>3, <1>4, <1>5 DEF FirstIn

\* The oldest task of a session that has a task is one of them.
LEMMA OwnerIs ==
    ASSUME TypeOK, Rows, NEW s, Owners(s) # {}
    PROVE  Owner(s) \in Owners(s)
<1> DEFINE I == {i \in DOMAIN created : created[i] \in Owners(s)}
<1>1. I \subseteq Nat
  BY DEF TypeOK
<1>2. I # {}
  BY DEF Rows, Owners
<1>3. Min(I) \in I
  BY <1>1, <1>2, Minimum
<1> QED BY <1>3 DEF Owner

\* An event goes to a task that has a row; to one that gets a session from it
\* only if no other has that session, and if it is active.
LEMMA RouteIs ==
    ASSUME TypeOK, Rows, NEW e \in Event, Route(e) # None
    PROVE  /\ Route(e) \in Tasks /\ row[Route(e)].state # "absent"
           /\ Owners(e.session) = {} => row[Route(e)].state = "active"
<1>1. CASE Owners(e.session) # {}
  <2> DEFINE t  == Owner(e.session)
             fs == {u \in Pending : row[u].cwd = contested[e.session]}
  <2>1. t \in Owners(e.session)
    BY <1>1, OwnerIs
  <2>2. FirstIn(fs) # None => FirstIn(fs) \in fs
    BY FirstInIs DEF Pending, Adoptable
  <2>3. Route(e) \in {t, FirstIn(fs)}
    BY <1>1 DEF Route, RouteKnown
  <2> QED BY <1>1, <2>1, <2>2, <2>3 DEF Owners, Pending, Adoptable
<1>2. CASE Owners(e.session) = {}
  <2> DEFINE fresh == {t \in Pending : e.cwd = row[t].cwd \/ e.cwd.ws = row[t].ws}
             there == {t \in Adoptable : row[t].cwd = e.cwd}
  <2>1. FirstIn(fresh) # None => FirstIn(fresh) \in fresh
    BY FirstInIs DEF Pending, Adoptable
  <2>2. FirstIn(there) # None => FirstIn(there) \in there
    BY FirstInIs DEF Adoptable
  <2>3. Route(e) \in {FirstIn(fresh), FirstIn(there)}
    BY <1>2 DEF Route, Adopter
  <2> QED BY <2>1, <2>2, <2>3 DEF Pending, Adoptable
<1> QED BY <1>1, <1>2

\* What handling an event does: it takes the first, may give its session to one
\* active task if no task has it, and removes a transcript at most.
LEMMA Handled ==
    ASSUME TypeOK, Rows, HandleEvent
    PROVE  /\ Len(events) \in Nat \ {0} /\ events[1] \in Event
           /\ events' \in Seq(Event) /\ Len(events') = Len(events) - 1
           /\ \A i \in 1..Len(events') : events'[i] = events[i + 1]
           /\ files' \subseteq files /\ contested' \in [Sessions -> Dir \cup {None}]
           /\ \/ row' = row /\ jobs' = jobs
              \/ \E t \in Tasks :
                    /\ row[t].state # "absent"
                    /\ jobs' = jobs \cup {[task |-> t, cwd |-> events[1].cwd]}
                    /\ \/ row' = row
                       \/ /\ row[t].state = "active" /\ Owners(events[1].session) = {}
                          /\ row' = [row EXCEPT ![t].session = events[1].session]
<1> DEFINE e == Head(events)
           t == Route(e)
<1>1. /\ Len(events) \in Nat \ {0} /\ events[1] = e /\ e \in Event
      /\ events' \in Seq(Event) /\ Len(events') = Len(events) - 1
      /\ \A i \in 1..Len(events') : events'[i] = events[i + 1]
  BY HeadTailProperties, EmptySeq DEF TypeOK, HandleEvent
<1>2. CASE t = None
  BY <1>1, <1>2 DEF TypeOK, HandleEvent
<1>3. CASE t # None
  <2>1. /\ t \in Tasks /\ row[t].state # "absent"
        /\ Owners(e.session) = {} => row[t].state = "active"
    BY <1>1, <1>3, RouteIs
  <2>2. Adopt(e, t) /\ jobs' = jobs \cup {[task |-> t, cwd |-> e.cwd]}
    BY <1>3 DEF HandleEvent
  <2> HIDE DEF e, t
  <2>3. files' \subseteq files /\ contested' \in [Sessions -> Dir \cup {None}]
    BY <2>2 DEF Adopt, TypeOK
  <2>4. \/ row' = row
        \/ /\ row[t].state = "active" /\ Owners(e.session) = {}
           /\ row' = [row EXCEPT ![t].session = e.session]
    BY <2>1, <2>2 DEF Adopt
  <2> QED BY <1>1, <2>1, <2>2, <2>3, <2>4
<1> QED BY <1>2, <1>3

--------------------------------------------------------------------------------
(* Each step keeps the types.                                              *)

\* A new row has the type of one.
LEMMA Inserted ==
    ASSUME TypeOK, NEW t \in Tasks, NEW state \in {"active", "dormant"},
           NEW s \in Sessions \cup {None}, NEW cwd \in Dir, NEW ws \in Tasks \cup {None},
           NEW src \in Tasks \cup {None}, Insert(t, state, s, cwd, ws, src)
    PROVE  /\ row' \in [Tasks -> Row]
           /\ \A u \in Tasks \ {t} : row'[u] = row[u]
           /\ row'[t] = [state |-> state, session |-> s, cwd |-> cwd, ws |-> ws, source |-> src]
           /\ created' \in Seq(Tasks) /\ DOMAIN created \subseteq DOMAIN created'
           /\ \A i \in DOMAIN created : created'[i] = created[i]
           /\ \E i \in DOMAIN created' : created'[i] = t
<1>2. /\ created' \in Seq(Tasks) /\ Len(created') = Len(created) + 1 /\ created'[Len(created) + 1] = t
      /\ \A i \in 1..Len(created) : created'[i] = created[i]
      /\ DOMAIN created = 1..Len(created) /\ DOMAIN created' = 1..Len(created') /\ Len(created) \in Nat
  BY AppendProperties DEF Insert, TypeOK
<1>3. /\ row' \in [Tasks -> Row]
      /\ \A u \in Tasks \ {t} : row'[u] = row[u]
      /\ row'[t] = [state |-> state, session |-> s, cwd |-> cwd, ws |-> ws, source |-> src]
  BY DEF Insert, TypeOK, Row
<1> HIDE DEF Insert
<1>4. /\ DOMAIN created \subseteq DOMAIN created' /\ Len(created) + 1 \in DOMAIN created'
  BY <1>2
<1> QED BY <1>2, <1>3, <1>4

\* Each of the actions that insert a row does so.
LEMMA Inserters ==
    ASSUME TypeOK, Rows, Known, NEW t \in Tasks
    PROVE  /\ Root(t) \in Dir
           /\ \A s \in Sessions : Import(t, s) =>
                 \E d \in Dir : Insert(t, "dormant", s, d, None, None)
           /\ ForkShared(t) => /\ dialog \in Dialog
                               /\ \E d \in Dir : /\ Insert(t, "active", None, d, dialog.ws, dialog.source)
                                                 /\ Run(t, dialog.session, d)
           /\ LaunchFork => fork \in Fork
<1>1. \A u \in Tasks : Root(u) \in Dir
  BY DEF Root, Dir
<1>2. ASSUME ForkShared(t)
      PROVE  /\ dialog \in Dialog
             /\ \E d \in Dir : /\ Insert(t, "active", None, d, dialog.ws, dialog.source)
                               /\ Run(t, dialog.session, d)
  <2>1. dialog \in Dialog
    BY <1>2 DEF ForkShared, TypeOK
  <2>2. dialog.ws \in Tasks \cup {None} /\ dialog.cwd \in Dir
    BY <2>1 DEF Dialog
  <2>3. (IF dialog.ws = None THEN dialog.cwd ELSE Root(dialog.ws)) \in Dir
    BY <1>1, <2>2
  <2> QED BY <1>2, <2>1, <2>3 DEF ForkShared
<1> QED BY <1>1, <1>2 DEF Import, LaunchFork, TypeOK

\* One column of one row is written, and no other.
Others(t) == row' \in [Tasks -> Row] /\ \A u \in Tasks \ {t} : row'[u] = row[u]

\* One field of one row is written, the others stay.
LEMMA Written ==
    ASSUME TypeOK, NEW t \in Tasks
    PROVE  /\ \A x \in Sessions : row' = [row EXCEPT ![t].session = x] =>
                 /\ Others(t) /\ row'[t].session = x /\ row'[t].state = row[t].state
                 /\ row'[t].cwd = row[t].cwd /\ row'[t].ws = row[t].ws /\ row'[t].source = row[t].source
           /\ \A x \in Dir : row' = [row EXCEPT ![t].cwd = x] =>
                 /\ Others(t) /\ row'[t].session = row[t].session /\ row'[t].state = row[t].state
                 /\ row'[t].cwd = x /\ row'[t].ws = row[t].ws /\ row'[t].source = row[t].source
           /\ \A x \in {"active", "parked", "completed"} : row' = [row EXCEPT ![t].state = x] =>
                 /\ Others(t) /\ row'[t].session = row[t].session /\ row'[t].state = x
                 /\ row'[t].cwd = row[t].cwd /\ row'[t].ws = row[t].ws /\ row'[t].source = row[t].source
<1>1. row \in [Tasks -> Row] /\ row[t] \in Row
  BY DEF TypeOK
<1>2. ASSUME NEW q \in Row, row' = [row EXCEPT ![t] = q] PROVE Others(t) /\ row'[t] = q
  BY <1>1, <1>2 DEF Others
<1>3. ASSUME NEW x \in Sessions, row' = [row EXCEPT ![t].session = x]
      PROVE  Others(t) /\ row'[t] = [row[t] EXCEPT !.session = x]
  <2>1. [row[t] EXCEPT !.session = x] \in Row
    BY <1>1 DEF Row
  <2> QED BY <1>1, <1>2, <1>3, <2>1
<1>4. ASSUME NEW x \in Dir, row' = [row EXCEPT ![t].cwd = x]
      PROVE  Others(t) /\ row'[t] = [row[t] EXCEPT !.cwd = x]
  <2>1. [row[t] EXCEPT !.cwd = x] \in Row
    BY <1>1 DEF Row
  <2> QED BY <1>1, <1>2, <1>4, <2>1
<1>5. ASSUME NEW x \in {"active", "parked", "completed"}, row' = [row EXCEPT ![t].state = x]
      PROVE  Others(t) /\ row'[t] = [row[t] EXCEPT !.state = x]
  <2>1. [row[t] EXCEPT !.state = x] \in Row
    BY <1>1 DEF Row
  <2> QED BY <1>1, <1>2, <1>5, <2>1
<1> QED BY <1>1, <1>3, <1>4, <1>5 DEF Row

\* Every step keeps the types.
LEMMA StepTypeOK == Inv /\ [Next]_vars => TypeOK'
<1> SUFFICES ASSUME Inv, [Next]_vars PROVE TypeOK'
  OBVIOUS
<1>0. TypeOK /\ Rows /\ Known
  BY DEF Inv
<1> USE DEF krang, tables, world
<1>1. ASSUME NEW t \in Tasks, NEW s \in Sessions, Create(t, s) PROVE TypeOK'
  <2>1. Root(t) \in Dir
    BY DEF Root, Dir
  <2>2. row' \in [Tasks -> Row] /\ created' \in Seq(Tasks)
    BY <1>0, <1>1, <2>1, Inserted DEF Create
  <2>3. claude' \in [Tasks -> Claude \cup {NoClaude}]
    BY <1>0, <1>1, <2>1 DEF Create, TypeOK, Run, Claude
  <2>4. home' \in [Sessions -> Dir \cup {None}] /\ files' \subseteq Sessions \X Dir
    BY <1>0, <1>1, <2>1 DEF Create, TypeOK, Begins
  <2> QED BY <1>0, <1>1, <2>2, <2>3, <2>4 DEF Create, TypeOK
<1>15. ASSUME NEW t \in Tasks, NEW s \in Sessions, Import(t, s) PROVE TypeOK'
  <2>1. Root(t) \in Dir
    BY DEF Root, Dir
  <2>2. row' \in [Tasks -> Row] /\ created' \in Seq(Tasks)
    BY <1>0, <1>15, Inserters, Inserted
  <2>3. home' \in [Sessions -> Dir \cup {None}] /\ files' \subseteq Sessions \X Dir
    <3>1. CASE New(s) /\ Begins(s, Root(t))
      BY <1>0, <2>1, <3>1 DEF TypeOK, Begins
    <3>2. CASE UNCHANGED <<files, home>>
      BY <1>0, <3>2 DEF TypeOK
    <3> QED BY <1>15, <3>1, <3>2 DEF Import
  <2> QED BY <1>0, <1>15, <2>2, <2>3 DEF Import, Step, TypeOK
<1>16. ASSUME NEW t \in Tasks, Wake(t) PROVE TypeOK'
  <2>1. row' \in [Tasks -> Row]
    BY <1>0, <1>16, Written DEF Wake, Others
  <2>2. row[t].session \in Sessions
    BY <1>0, <1>16 DEF Wake, Rows, TypeOK, Row
  <2>3. claude' \in [Tasks -> Claude \cup {NoClaude}]
    BY <1>0, <1>16, <2>2 DEF Wake, TypeOK, Run, Claude
  <2> QED BY <1>0, <1>16, <2>1, <2>3 DEF Wake, TypeOK
<1>17. ASSUME NEW t \in Tasks, Park(t) \/ Unpark(t) PROVE TypeOK'
  <2>1. row' \in [Tasks -> Row]
    BY <1>0, <1>17, Written DEF Park, Unpark, Others
  <2> QED BY <1>0, <1>17, <2>1 DEF Park, Unpark, Step, TypeOK
<1>2. ASSUME NEW t \in Tasks, NEW s \in Sessions, NewSession(t, s) PROVE TypeOK'
  <2>1. claude[t] \in Claude /\ claude[t].project \in Dir
    BY <1>0, <1>2 DEF NewSession, TypeOK, Claude
  <2>2. [claude[t] EXCEPT !.says = s] \in Claude
    BY <2>1 DEF Claude
  <2>3. claude' = [claude EXCEPT ![t] = [claude[t] EXCEPT !.says = s]]
    BY <1>0, <1>2, <2>1 DEF NewSession, TypeOK
  <2>4. claude' \in [Tasks -> Claude \cup {NoClaude}]
    BY <1>0, <2>2, <2>3 DEF TypeOK
  <2> QED BY <1>0, <1>2, <2>1, <2>4 DEF NewSession, TypeOK, Begins
<1>3. ASSUME NEW t \in Tasks, ChangeDir(t) PROVE TypeOK'
  <2>1. claude[t] \in Claude
    BY <1>0, <1>3 DEF ChangeDir, TypeOK
  <2>2. [claude[t] EXCEPT !.cwd.sub = ~@] \in Claude
    BY <2>1 DEF Claude, Dir
  <2>3. claude' = [claude EXCEPT ![t] = [claude[t] EXCEPT !.cwd.sub = ~@]]
    BY <1>0, <1>3, <2>1 DEF ChangeDir, TypeOK
  <2>4. claude' \in [Tasks -> Claude \cup {NoClaude}]
    BY <1>0, <2>2, <2>3 DEF TypeOK
  <2> QED BY <1>0, <1>3, <2>4 DEF ChangeDir, Step, TypeOK
<1>4. ASSUME NEW t \in Tasks, Post(t) PROVE TypeOK'
  <2>1. [from |-> t, session |-> claude[t].says, cwd |-> claude[t].cwd] \in Event
    BY <1>0, <1>4 DEF Post, TypeOK, Claude, Event
  <2>2. events' \in Seq(Event) /\ Len(events') <= ChanCap
    BY <1>0, <1>4, <2>1, AppendProperties DEF Post, TypeOK
  <2> QED BY <1>0, <1>4, <2>2 DEF Post, Step, TypeOK
<1>5. ASSUME NEW t \in Tasks, Complete(t) PROVE TypeOK'
  <2>1. Copy(row[t].source, t) \subseteq Sessions \X Dir
    <3>1. row[t].source # None => row[t].source \in Tasks
      BY <1>0 DEF TypeOK, Row
    <3>2. row[t].cwd \in Dir
      BY <1>0, <1>5 DEF Complete, Rows, TypeOK, Row
    <3>3. \A u \in Tasks : row[u].session # None => row[u].session \in Sessions
      BY <1>0 DEF TypeOK, Row
    <3> QED BY <3>1, <3>2, <3>3 DEF Copy
  <2> QED BY <1>0, <1>5, <2>1 DEF Complete, TypeOK
<1>18. ASSUME NEW t \in Tasks, Completed(t) PROVE TypeOK'
  <2>1. row' \in [Tasks -> Row]
    BY <1>0, <1>18, Written DEF Completed, Others
  <2> QED BY <1>0, <1>18, <2>1 DEF Completed, TypeOK
<1>19. ASSUME NEW t \in Tasks, CompleteFails(t) PROVE TypeOK'
  BY <1>0, <1>19 DEF CompleteFails, TypeOK
<1>20. ASSUME NEW t \in Tasks, OpenDialog(t) PROVE TypeOK'
  <2>1. row[t] \in Row /\ row[t].session \in Sessions /\ row[t].cwd \in Dir
    BY <1>0, <1>20 DEF OpenDialog, Forkable, Rows, TypeOK, Row
  <2>2. dialog' \in Dialog
    BY <1>20, <2>1 DEF OpenDialog, Dialog, Row
  <2> QED BY <1>0, <1>20, <2>2 DEF OpenDialog, TypeOK
<1>21. ASSUME CloseDialog PROVE TypeOK'
  BY <1>0, <1>21 DEF CloseDialog, TypeOK
<1>6. ASSUME NEW t \in Tasks, ForkShared(t) PROVE TypeOK'
  <2>1. PICK d \in Dir : Insert(t, "active", None, d, dialog.ws, dialog.source) /\ Run(t, dialog.session, d)
    BY <1>0, <1>6, Inserters
  <2>2. dialog.ws \in Tasks \cup {None} /\ dialog.source \in Tasks /\ dialog.session \in Sessions
    BY <1>0, <1>6, Inserters DEF Dialog
  <2>3. row' \in [Tasks -> Row] /\ created' \in Seq(Tasks)
    BY <1>0, <2>1, <2>2, Inserted
  <2>4. claude' \in [Tasks -> Claude \cup {NoClaude}]
    BY <1>0, <2>1, <2>2 DEF TypeOK, Run, Claude
  <2> QED BY <1>0, <1>6, <2>3, <2>4 DEF ForkShared, TypeOK
<1>7. ASSUME NEW t \in Tasks, StartFork(t) PROVE TypeOK'
  <2>1. /\ dialog.ws \in Tasks /\ dialog.session \in Sessions /\ dialog.source \in Tasks
    BY <1>0, <1>7 DEF StartFork, TypeOK, Dialog
  <2>2. Root(t) \in Dir /\ Root(dialog.ws) \in Dir
    BY <2>1 DEF Root, Dir
  <2> QED BY <1>0, <1>7, <2>1, <2>2 DEF StartFork, TypeOK, Fork
<1>8. ASSUME AbandonFork \/ LaunchFails PROVE TypeOK'
  BY <1>0, <1>8 DEF AbandonFork, LaunchFails, TypeOK
<1>9. ASSUME CopySession PROVE TypeOK'
  <2>1. fork \in Fork
    BY <1>0, <1>9 DEF CopySession, TypeOK
  <2>2. fork' \in Fork /\ fork.session \in Sessions /\ Root(fork.task) \in Dir
    BY <1>9, <2>1 DEF CopySession, Fork, Root, Dir
  <2>3. files' \subseteq Sessions \X Dir
    BY <1>0, <1>9, <2>2 DEF CopySession, TypeOK
  <2> QED BY <1>0, <1>9, <2>2, <2>3 DEF CopySession, TypeOK
<1>10. ASSUME LaunchFork PROVE TypeOK'
  <2>1. fork \in Fork
    BY <1>0, <1>10 DEF LaunchFork, TypeOK
  <2>2. row' \in [Tasks -> Row] /\ created' \in Seq(Tasks)
    <3>1. Root(fork.task) \in Dir
      BY <2>1 DEF Fork, Root, Dir
    <3> QED BY <1>0, <1>10, <2>1, <3>1, Inserted DEF LaunchFork, Fork
  <2>3. claude' \in [Tasks -> Claude \cup {NoClaude}]
    BY <1>0, <1>10, <2>1 DEF LaunchFork, TypeOK, Run, Claude, Root, Dir, Fork
  <2> QED BY <1>0, <1>10, <2>2, <2>3 DEF LaunchFork, TypeOK
<1>11. ASSUME HandleEvent PROVE TypeOK'
  <2>1. events' \in Seq(Event) /\ Len(events') <= ChanCap
    BY <1>0, <1>11, Handled DEF TypeOK
  <2>2. row' \in [Tasks -> Row]
    <3>1. CASE row' = row
      BY <1>0, <3>1 DEF TypeOK
    <3>2. ASSUME NEW t \in Tasks, row' = [row EXCEPT ![t].session = events[1].session]
          PROVE  row' \in [Tasks -> Row]
      BY <1>0, <1>11, <3>2, Handled, Written DEF Event, Others
    <3> QED BY <1>0, <1>11, <3>1, <3>2, Handled
  <2>3. jobs' \subseteq [task : Tasks, cwd : Dir]
    BY <1>0, <1>11, Handled DEF TypeOK, Event
  <2>4. files' \subseteq files /\ contested' \in [Sessions -> Dir \cup {None}]
    BY <1>0, <1>11, Handled
  <2> QED BY <1>0, <1>11, <2>1, <2>2, <2>3, <2>4 DEF HandleEvent, TypeOK
<1>12. ASSUME NEW j \in jobs, RecordCwd(j) PROVE TypeOK'
  <2>1. row' \in [Tasks -> Row]
    <3>1. j.task \in Tasks /\ j.cwd \in Dir
      BY <1>0, <1>12 DEF TypeOK
    <3> QED BY <1>0, <1>12, <3>1, Written DEF RecordCwd, TypeOK, Others
  <2> QED BY <1>0, <1>12, <2>1 DEF RecordCwd, TypeOK
<1>13. ASSUME Restart PROVE TypeOK'
  BY <1>0, <1>13 DEF Restart, Step, TypeOK
<1>14. ASSUME UNCHANGED vars PROVE TypeOK'
  BY <1>0, <1>14 DEF vars, TypeOK
<1> QED
  BY <1>1, <1>2, <1>3, <1>4, <1>5, <1>6, <1>7, <1>8, <1>9, <1>10, <1>11, <1>12, <1>13, <1>14,
     <1>15, <1>16, <1>17, <1>18, <1>19, <1>20, <1>21 DEF Next

--------------------------------------------------------------------------------
(* What a step does to the rows: nothing, or it adds one, or it changes    *)
(* one that is there.                                                      *)

Same == row' = row /\ created' = created

Added(t) ==
    /\ row[t].state = "absent" /\ (fork' # None => fork # None /\ fork.task # t)
    /\ \E state \in {"active", "dormant"}, s \in Sessions \cup {None}, cwd \in Dir,
          ws \in Tasks \cup {None}, src \in Tasks \cup {None} :
          /\ Insert(t, state, s, cwd, ws, src)
          /\ ws \notin {t, None} => row[ws].state # "absent" /\ row[ws].ws = ws
          /\ \/ state = "active" /\ src = None /\ s # None /\ ws = t /\ New(s) /\ home'[s] = Root(t)
             \/ state = "dormant" /\ src = None /\ s # None /\ ws = None
             \/ state = "active" /\ src # None /\ s = None /\ row[src].session # None
          /\ s # None => home'[s] # None

Changed(t) ==
    /\ row[t].state # "absent" /\ created' = created /\ Others(t)
    /\ \/ row'[t].state = row[t].state \/ row'[t].state \in {"active", "parked"}
       \/ row'[t].state = "completed" /\ claude'[t] = NoClaude
    /\ row'[t].ws = row[t].ws /\ row'[t].source = row[t].source /\ row'[t].cwd # None
    /\ \/ row'[t].session = row[t].session
       \/ /\ HandleEvent /\ Len(events) # 0 /\ Owners(events[1].session) = {}
          /\ row'[t].session = events[1].session /\ events[1] \in Event

\* Every step leaves the rows alone, adds one, or changes a field of one.
LEMMA RowSteps ==
    ASSUME Inv, [Next]_vars
    PROVE  Same \/ \E t \in Tasks : Added(t) \/ Changed(t)
<1>0. TypeOK /\ Rows /\ Known
  BY DEF Inv
<1>1. ASSUME NEW t \in Tasks, NEW s \in Sessions, Create(t, s) PROVE Added(t)
  <2>1. Root(t) \in Dir
    BY DEF Root, Dir
  <2>2. home'[s] = Root(t) /\ Root(t) # None
    BY <1>0, <1>1, <2>1 DEF Create, Begins, TypeOK
  <2> QED BY <1>0, <1>1, <2>1, <2>2 DEF Create, Unused, Added, krang
<1>12. ASSUME NEW t \in Tasks, NEW s \in Sessions, Import(t, s) PROVE Added(t)
  <2>1. PICK d \in Dir : Insert(t, "dormant", s, d, None, None)
    BY <1>0, <1>12, Inserters
  <2>2. home'[s] # None
    <3>1. Root(t) \in Dir
      BY DEF Root, Dir
    <3> QED BY <1>0, <1>12, <3>1 DEF Import, Begins, Known, TypeOK
  <2>3. row[t].state = "absent" /\ (fork' # None => fork # None /\ fork.task # t)
    BY <1>12 DEF Import, Unused, krang
  <2> QED BY <2>1, <2>2, <2>3 DEF Added
<1>2. ASSUME NEW t \in Tasks, NEW s \in Sessions, NewSession(t, s) PROVE Same
  BY <1>2 DEF NewSession, Same, tables
<1>3. ASSUME NEW t \in Tasks,
             ChangeDir(t) \/ Post(t) \/ Complete(t) \/ CompleteFails(t) \/ OpenDialog(t)
      PROVE  Same
  BY <1>3 DEF ChangeDir, Post, Complete, CompleteFails, OpenDialog, Same, tables
<1>4. ASSUME NEW t \in Tasks, Completed(t) PROVE Changed(t)
  <2>1. /\ row[t].state # "absent" /\ row' = [row EXCEPT ![t].state = "completed"]
        /\ created' = created /\ row[t].cwd # None /\ claude'[t] = NoClaude
    BY <1>0, <1>4 DEF Completed, Known, Rows, TypeOK
  <2>2. /\ Others(t) /\ row'[t].session = row[t].session /\ row'[t].state = "completed"
        /\ row'[t].cwd = row[t].cwd /\ row'[t].ws = row[t].ws /\ row'[t].source = row[t].source
    BY <1>0, <2>1, Written
  <2> QED BY <2>1, <2>2 DEF Changed
<1>13. ASSUME NEW t \in Tasks, Wake(t) \/ Park(t) \/ Unpark(t) PROVE Changed(t)
  <2>1. PICK x \in {"active", "parked"} : row' = [row EXCEPT ![t].state = x]
    BY <1>13 DEF Wake, Park, Unpark
  <2>2. row[t].state # "absent" /\ created' = created /\ row[t].cwd # None
    BY <1>0, <1>13 DEF Wake, Park, Unpark, Rows
  <2>3. /\ Others(t) /\ row'[t].session = row[t].session /\ row'[t].state = x
        /\ row'[t].cwd = row[t].cwd /\ row'[t].ws = row[t].ws /\ row'[t].source = row[t].source
    BY <1>0, <2>1, Written
  <2> QED BY <2>2, <2>3 DEF Changed
<1>5. ASSUME NEW t \in Tasks, ForkShared(t) PROVE Added(t)
  <2>1. PICK d \in Dir : Insert(t, "active", None, d, dialog.ws, dialog.source)
    BY <1>0, <1>5, Inserters
  <2>2. /\ dialog.ws \in Tasks \cup {None} /\ dialog.source \in Tasks
        /\ row[dialog.source].session # None
        /\ dialog.ws # None => row[dialog.ws].state # "absent" /\ row[dialog.ws].ws = dialog.ws
    BY <1>0, <1>5, Inserters DEF ForkShared, Dialog, Known, Rows
  <2>3. row[t].state = "absent" /\ (fork' # None => fork # None /\ fork.task # t)
    BY <1>5 DEF ForkShared, Unused
  <2> QED BY <2>1, <2>2, <2>3 DEF Added
<1>6. ASSUME NEW t \in Tasks, StartFork(t) PROVE Same
  BY <1>6 DEF StartFork, Same, tables
<1>7. ASSUME CloseDialog \/ AbandonFork \/ LaunchFails \/ CopySession PROVE Same
  BY <1>7 DEF CloseDialog, AbandonFork, LaunchFails, CopySession, Same, tables
<1>8. ASSUME LaunchFork PROVE Added(fork.task) /\ fork.task \in Tasks
  <2>1. /\ fork.task \in Tasks /\ fork.source \in Tasks /\ row[fork.task].state = "absent"
        /\ row[fork.source].session # None
    BY <1>0, <1>8 DEF LaunchFork, Known, TypeOK, Fork
  <2>2. Root(fork.task) \in Dir
    BY <2>1 DEF Root, Dir
  <2>3. Insert(fork.task, "active", None, Root(fork.task), fork.task, fork.source) /\ fork' = None
    BY <1>8 DEF LaunchFork
  <2> QED BY <2>1, <2>2, <2>3 DEF Added
<1>9. ASSUME HandleEvent PROVE Same \/ \E t \in Tasks : Changed(t)
  <2>1. created' = created
    BY <1>9 DEF HandleEvent
  <2>2. ASSUME NEW t \in Tasks, row[t].state = "active", Owners(events[1].session) = {},
               row' = [row EXCEPT ![t].session = events[1].session]
        PROVE  Changed(t)
    <3>1. Len(events) # 0 /\ events[1] \in Event /\ events[1].session \in Sessions
      BY <1>0, <1>9, Handled DEF Event
    <3>2. row[t].cwd # None
      BY <1>0, <2>2 DEF Rows
    <3>3. /\ Others(t) /\ row'[t].session = events[1].session /\ row'[t].state = row[t].state
          /\ row'[t].cwd = row[t].cwd /\ row'[t].ws = row[t].ws /\ row'[t].source = row[t].source
      BY <1>0, <2>2, <3>1, Written
    <3> QED BY <1>9, <2>1, <2>2, <3>1, <3>2, <3>3 DEF Changed
  <2> QED BY <1>0, <1>9, <2>1, <2>2, Handled DEF Same
<1>10. ASSUME NEW j \in jobs, RecordCwd(j) PROVE Same \/ (Changed(j.task) /\ j.task \in Tasks)
  <2>1. /\ j.task \in Tasks /\ j.cwd \in Dir /\ row[j.task].state # "absent"
        /\ created' = created /\ j.cwd # None
    BY <1>0, <1>10 DEF TypeOK, Known, RecordCwd, Dir
  <2>2. CASE row' = [row EXCEPT ![j.task].cwd = j.cwd]
    <3> DEFINE t == j.task
               d == j.cwd
    <3>1. /\ t \in Tasks /\ d \in Dir /\ row' = [row EXCEPT ![t].cwd = d]
          /\ row[t].state # "absent" /\ d # None
      BY <2>1, <2>2
    <3> HIDE DEF t, d
    <3>2. Changed(t)
      BY <1>0, <2>1, <3>1, Written DEF Changed
    <3> QED BY <3>1, <3>2 DEF t
  <2> QED BY <1>10, <2>1, <2>2 DEF RecordCwd, Same
<1>11. ASSUME Restart \/ UNCHANGED vars PROVE Same
  BY <1>11 DEF Restart, vars, tables, Same
<1> QED
  BY <1>1, <1>2, <1>3, <1>4, <1>5, <1>6, <1>7, <1>8, <1>9, <1>10, <1>11,
     <1>12, <1>13 DEF Next

--------------------------------------------------------------------------------
(* Each step keeps the rest of the invariant.                              *)

\* What a new row is, in the terms of the steps below.
LEMMA AddedRow ==
    ASSUME TypeOK, NEW t \in Tasks, Added(t)
    PROVE  /\ row[t].state = "absent" /\ Others(t)
           /\ fork' # None => fork # None /\ fork.task # t
           /\ row'[t].state \in {"active", "dormant"} /\ row'[t].cwd \in Dir /\ row'[t].ws \in Tasks \cup {None}
           /\ row'[t].ws \notin {t, None} => row[row'[t].ws].state # "absent" /\ row[row'[t].ws].ws = row'[t].ws
           /\ \/ /\ row'[t].state = "active" /\ row'[t].source = None /\ row'[t].session \in Sessions
                 /\ New(row'[t].session) /\ row'[t].ws = t /\ home'[row'[t].session] = Root(t)
              \/ /\ row'[t].state = "dormant" /\ row'[t].source = None /\ row'[t].session \in Sessions
                 /\ row'[t].ws = None
              \/ /\ row'[t].state = "active" /\ row'[t].source \in Tasks /\ row'[t].session = None
                 /\ row[row'[t].source].session # None
           /\ row'[t].session # None => home'[row'[t].session] # None
           /\ \A i \in DOMAIN created : i \in DOMAIN created' /\ created'[i] = created[i]
           /\ \E i \in DOMAIN created' : created'[i] = t
<1>1. PICK state \in {"active", "dormant"}, s \in Sessions \cup {None}, cwd \in Dir,
           ws \in Tasks \cup {None}, src \in Tasks \cup {None} :
          /\ Insert(t, state, s, cwd, ws, src)
          /\ ws \notin {t, None} => row[ws].state # "absent" /\ row[ws].ws = ws
          /\ \/ state = "active" /\ src = None /\ s # None /\ ws = t /\ New(s) /\ home'[s] = Root(t)
             \/ state = "dormant" /\ src = None /\ s # None /\ ws = None
             \/ state = "active" /\ src # None /\ s = None /\ row[src].session # None
          /\ s # None => home'[s] # None
  BY DEF Added
<1>2. /\ Others(t)
      /\ row'[t] = [state |-> state, session |-> s, cwd |-> cwd, ws |-> ws, source |-> src]
      /\ \A i \in DOMAIN created : i \in DOMAIN created' /\ created'[i] = created[i]
      /\ \E i \in DOMAIN created' : created'[i] = t
  BY <1>1, Inserted DEF Others
<1>3. row[t].state = "absent" /\ (fork' # None => fork # None /\ fork.task # t)
  BY DEF Added
<1> HIDE DEF Added
<1> QED BY <1>1, <1>2, <1>3

\* No step gives a session to a second task.
LEMMA StepOneTask == Inv /\ [Next]_vars => OneTaskPerSession'
<1> SUFFICES ASSUME Inv, [Next]_vars PROVE OneTaskPerSession'
  OBVIOUS
<1>0. TypeOK /\ Rows /\ Known /\ OneTaskPerSession
  BY DEF Inv
<1>1. CASE Same
  BY <1>0, <1>1 DEF Same, OneTaskPerSession, Imported
<1>2. ASSUME NEW t \in Tasks, Added(t) PROVE OneTaskPerSession'
  <2>1. \/ row'[t].session = None \/ Imported(t)'
        \/ \A u \in Tasks : row[u].session # None => row[u].session # row'[t].session
    BY <1>0, <1>2, AddedRow DEF Known, New, Imported
  <2>2. \A u \in Tasks \ {t} : row'[u] = row[u] /\ (Imported(u) <=> Imported(u)')
    BY <1>0, <1>2, AddedRow DEF Others, Imported
  <2> QED BY <1>0, <2>1, <2>2 DEF OneTaskPerSession
<1>3. ASSUME NEW t \in Tasks, Changed(t) PROVE OneTaskPerSession'
  <2>0. \A u \in Tasks : Imported(u) => Imported(u)'
    BY <1>3 DEF Changed, Others, Imported
  <2>1. CASE row'[t].session = row[t].session
    BY <1>0, <1>3, <2>0, <2>1 DEF Changed, Others, OneTaskPerSession
  <2>2. CASE Owners(events[1].session) = {} /\ row'[t].session = events[1].session
             /\ events[1] \in Event
    <3>1. \A u \in Tasks : row[u].session # row'[t].session
      BY <1>0, <2>2 DEF Owners, Rows, NoRow, Event
    <3> QED BY <1>0, <1>3, <2>0, <3>1 DEF Changed, Others, OneTaskPerSession
  <2> QED BY <1>3, <2>1, <2>2 DEF Changed
<1> QED BY <1>1, <1>2, <1>3, RowSteps

\* Every step keeps a row there in full, or not at all.
LEMMA StepRows == Inv /\ [Next]_vars => Rows'
<1> SUFFICES ASSUME Inv, [Next]_vars PROVE Rows'
  OBVIOUS
<1>0. TypeOK /\ Rows /\ Known
  BY DEF Inv
<1>1. CASE Same
  BY <1>0, <1>1 DEF Same, Rows
<1>2. ASSUME NEW t \in Tasks, Added(t) PROVE Rows'
  <2>1. row[t].session = None /\ row[t].state = "absent"
    BY <1>0, <1>2 DEF Added, Rows, NoRow
  <2>2. ASSUME NEW u \in Tasks \ {t}
        PROVE  /\ row'[u] = row[u]
               /\ row[u].ws # None => row[u].ws \in Tasks \ {t}
               /\ row[u].source # None => row[u].source \in Tasks \ {t}
    <3>1. row'[u] = row[u]
      BY <1>0, <1>2, AddedRow DEF Others
    <3>2. row[u].ws # None => row[u].state # "absent" /\ row[row[u].ws].state # "absent"
      BY <1>0 DEF Rows, NoRow
    <3>3. row[u].ws \in Tasks \cup {None} /\ row[u].source \in Tasks \cup {None}
      BY <1>0 DEF TypeOK, Row
    <3>4. row[u].source # None => row[u].source # t
      BY <1>0, <2>1 DEF Rows
    <3> QED BY <2>1, <3>1, <3>2, <3>3, <3>4
  <2>3. \A u \in Tasks \ {t} : row[u].state # "absent" => \E i \in DOMAIN created' : created'[i] = u
    BY <1>0, <1>2, AddedRow DEF Rows
  <2>4. ASSUME NEW u \in Tasks \ {t}
        PROVE  /\ row'[u].state = "absent" => row'[u] = NoRow
               /\ row'[u].state # "absent" =>
                     /\ row'[u].cwd # None
                     /\ row'[u].ws # None =>
                           row'[row'[u].ws].state # "absent" /\ row'[row'[u].ws].ws = row'[u].ws
                     /\ row'[u].session = None => row'[u].source # None
               /\ row'[u].state = "dormant" =>
                     row'[u].session # None /\ row'[u].ws = None /\ row'[u].source = None
               /\ row'[u].source # None => row'[row'[u].source].session # None
    BY <1>0, <2>2 DEF Rows
  <2>5. /\ row'[t].state # "absent" /\ \E i \in DOMAIN created' : created'[i] = t
        /\ row'[t].cwd # None
        /\ row'[t].session = None => row'[t].source # None
        /\ row'[t].state = "dormant" =>
              row'[t].session # None /\ row'[t].ws = None /\ row'[t].source = None
    BY <1>0, <1>2, AddedRow
  <2>6. row'[t].ws # None => row'[row'[t].ws].state # "absent" /\ row'[row'[t].ws].ws = row'[t].ws
    BY <1>0, <1>2, <2>5, AddedRow DEF Others
  <2>7. row'[t].source # None => row'[row'[t].source].session # None
    BY <1>0, <1>2, <2>1, AddedRow DEF Others
  <2> QED BY <2>3, <2>4, <2>5, <2>6, <2>7, <2>2 DEF Rows
<1>3. ASSUME NEW t \in Tasks, Changed(t) PROVE Rows'
  <2>1. row'[t].state # "absent" /\ row[t].session # None => row'[t].session # None
    BY <1>0, <1>3 DEF Changed, Event
  <2>2. \A u \in Tasks : /\ row'[u].state = "absent" <=> row[u].state = "absent"
                         /\ row'[u].state = "dormant" => row[u].state = "dormant"
                         /\ row'[u].ws = row[u].ws /\ row'[u].source = row[u].source
                         /\ row[u].session # None => row'[u].session # None
                         /\ row[u].state # "absent" => row'[u].cwd # None
    BY <1>0, <1>3, <2>1 DEF Changed, Others, Rows, Event
  <2>3. \A u \in Tasks : row'[u].state = "absent" => row'[u] = NoRow
    BY <1>0, <1>3, <2>2 DEF Changed, Others, Rows
  <2>4. \A u \in Tasks : /\ row[u].ws # None => row[u].ws \in Tasks
                         /\ row[u].source # None => row[u].source \in Tasks
    BY <1>0 DEF Rows, TypeOK, Row
  <2> QED BY <1>0, <1>3, <2>2, <2>3, <2>4 DEF Changed, Rows
<1> QED BY <1>1, <1>2, <1>3, RowSteps

\* Rows stay, a task keeps some session, a session the place where it started.
LEMMA Monotone ==
    ASSUME Inv, [Next]_vars
    PROVE  /\ \A t \in Tasks : row[t].state # "absent" => row'[t].state # "absent"
           /\ \A t \in Tasks : row[t].session # None => row'[t].session # None
           /\ \A s \in Sessions : home[s] # None => home'[s] = home[s]
<1>0. TypeOK /\ Rows /\ Known
  BY DEF Inv
<1>1. \A t \in Tasks : /\ row[t].state # "absent" => row'[t].state # "absent"
                       /\ row[t].session # None => row'[t].session # None
  <2>1. CASE Same
    BY <2>1 DEF Same
  <2>2. ASSUME NEW u \in Tasks, Added(u), NEW t \in Tasks
        PROVE  /\ row[t].state # "absent" => row'[t].state # "absent"
               /\ row[t].session # None => row'[t].session # None
    BY <1>0, <2>2, AddedRow DEF Others, Rows, NoRow
  <2>3. ASSUME NEW u \in Tasks, Changed(u), NEW t \in Tasks
        PROVE  /\ row[t].state # "absent" => row'[t].state # "absent"
               /\ row[t].session # None => row'[t].session # None
    BY <1>0, <2>3 DEF Changed, Others, Event
  <2> QED BY <2>1, <2>2, <2>3, RowSteps
<1>2. ASSUME NEW s \in Sessions, home[s] # None PROVE home'[s] = home[s]
  <2>1. ASSUME NEW t \in Tasks, NEW u \in Sessions,
               Create(t, u) \/ Import(t, u) \/ NewSession(t, u)
        PROVE  home'[s] = home[s]
    BY <1>0, <1>2, <2>1 DEF Create, Import, NewSession, Begins, New, TypeOK
  <2>2. ASSUME NEW t \in Tasks,
               \/ ChangeDir(t) \/ Post(t) \/ Wake(t) \/ Park(t) \/ Unpark(t)
               \/ Complete(t) \/ Completed(t) \/ CompleteFails(t)
        PROVE  home'[s] = home[s]
    BY <2>2 DEF ChangeDir, Post, Wake, Park, Unpark, Complete, Completed, CompleteFails, world
  <2>3. ASSUME NEW t \in Tasks, OpenDialog(t) \/ ForkShared(t) \/ StartFork(t)
        PROVE  home'[s] = home[s]
    BY <2>3 DEF OpenDialog, ForkShared, StartFork, world
  <2>4. ASSUME \/ CloseDialog \/ AbandonFork \/ CopySession \/ LaunchFork \/ LaunchFails \/ HandleEvent
               \/ Restart \/ (\E j \in jobs : RecordCwd(j)) \/ UNCHANGED vars
        PROVE  home'[s] = home[s]
    BY <2>4 DEF CloseDialog, AbandonFork, CopySession, LaunchFork, LaunchFails, HandleEvent, Restart,
                RecordCwd, vars, world
  <2> QED BY <2>1, <2>2, <2>3, <2>4 DEF Next
<1> QED BY <1>1, <1>2

\* Whoever names a session or a task goes on naming one that there is.
LEMMA StepKnown == Inv /\ [Next]_vars => Known'
<1> SUFFICES ASSUME Inv, [Next]_vars PROVE Known'
  OBVIOUS
<1>0. TypeOK /\ Rows /\ Known
  BY DEF Inv
<1>m. /\ \A t \in Tasks : row[t].state # "absent" => row'[t].state # "absent"
      /\ \A t \in Tasks : row[t].session # None => row'[t].session # None
      /\ \A s \in Sessions : home[s] # None => home'[s] = home[s]
  BY Monotone
<1>r. \A t \in Tasks : Root(t) \in Dir /\ Root(t) # None
  <2>1. \A t \in Tasks : Root(t) \in Dir
    BY DEF Root, Dir
  <2> QED BY <2>1
<1> DEFINE K2 == \A t \in Tasks : row[t].session # None => home[row[t].session] # None
           K3 == \A t \in Tasks : claude[t] # NoClaude =>
                                 row[t].state \in {"active", "parked"} /\ home[claude[t].says] # None
           K7 == \A t \in Tasks : closing[t] # None => row[t].state # "absent"
           K4 == \A i \in DOMAIN events : row[events[i].from].state # "absent" /\ home[events[i].session] # None
           K5 == \A j \in jobs : row[j.task].state # "absent"
           K8 == dialog # None => /\ row[dialog.source].session # None /\ home[dialog.session] # None
                                  /\ row[dialog.source].state # "absent"
                                  /\ row[dialog.source].ws = dialog.ws
           K6 == fork # None => /\ row[fork.task].state = "absent" /\ row[fork.source].session # None
                                /\ home[fork.session] # None
           K9 == \A s \in Sessions, d \in Dir : <<s, d>> \in files => home[s] # None
<1>9. K9'
  <2>1. ASSUME NEW s \in Sessions, NEW d \in Dir, New(s), Begins(s, d) PROVE K9'
    BY <1>0, <1>m, <1>r, <2>1 DEF Begins, Known, TypeOK
  <2>2. ASSUME NEW t \in Tasks, NEW s \in Sessions, Create(t, s) PROVE K9'
    BY <1>r, <2>1, <2>2 DEF Create
  <2>3. CASE files' \subseteq files
    BY <1>0, <1>m, <2>3 DEF Known
  <2>4. ASSUME NEW t \in Tasks, NEW s \in Sessions, Import(t, s) PROVE K9'
    <3>1. CASE New(s) /\ Begins(s, Root(t))
      BY <1>r, <2>1, <3>1
    <3>2. CASE UNCHANGED <<files, home>>
      BY <2>3, <3>2
    <3> QED BY <2>4, <3>1, <3>2 DEF Import
  <2>5. ASSUME NEW t \in Tasks, NEW s \in Sessions, NewSession(t, s) PROVE K9'
    <3>1. claude[t].project \in Dir
      BY <1>0, <2>5 DEF NewSession, TypeOK, Claude
    <3> QED BY <2>1, <2>5, <3>1 DEF NewSession
  <2>6. CASE CopySession
    <3>1. fork.session \in Sessions /\ home[fork.session] # None
      BY <1>0, <2>6 DEF CopySession, Known, TypeOK, Fork
    <3>2. \A f \in files' : f \in files \/ f = <<fork.session, Root(fork.task)>>
      BY <2>6 DEF CopySession
    <3> QED BY <1>0, <1>m, <3>1, <3>2 DEF Known
  <2>7. CASE HandleEvent
    BY <1>0, <2>3, <2>7, Handled
  <2>8. ASSUME NEW t \in Tasks, Completed(t) PROVE K9'
    BY <2>3, <2>8 DEF Completed
  <2> QED
    BY <2>2, <2>3, <2>4, <2>5, <2>6, <2>7, <2>8 DEF Next, ChangeDir, Post, Wake, Park, Unpark, Complete,
       CompleteFails, OpenDialog, CloseDialog, ForkShared, StartFork, AbandonFork, LaunchFork,
       LaunchFails, RecordCwd, Restart, vars, world
<1>7. K7'
  <2>1. ASSUME NEW t \in Tasks, closing'[t] # None, closing[t] = None PROVE row[t].state # "absent"
    <3>1. ASSUME NEW u \in Tasks, Completed(u) \/ CompleteFails(u) PROVE FALSE
      BY <1>0, <2>1, <3>1 DEF Completed, CompleteFails, TypeOK
    <3>2. ASSUME NEW u \in Tasks, Complete(u) PROVE row[t].state # "absent"
      <4>1. u = t
        BY <1>0, <2>1, <3>2 DEF Complete, TypeOK
      <4> QED BY <3>2, <4>1 DEF Complete
    <3>3. CASE closing' = closing
      BY <2>1, <3>3
    <3>4. CASE Restart
      BY <2>1, <3>4 DEF Restart
    <3> QED
      BY <3>1, <3>2, <3>3, <3>4 DEF Next, Create, Import, NewSession, ChangeDir, Post, Wake, Park, Unpark,
         OpenDialog, CloseDialog, ForkShared, StartFork, AbandonFork, CopySession, LaunchFork,
         LaunchFails, HandleEvent, RecordCwd, vars, krang
  <2> QED BY <1>0, <1>m, <2>1 DEF Known
<1>8. K8'
  <2>1. ASSUME dialog # None, dialog' = dialog PROVE K8'
    <3>1. dialog.source \in Tasks /\ dialog.session \in Sessions
      BY <1>0, <2>1 DEF TypeOK, Dialog
    <3>2. row'[dialog.source].ws = dialog.ws
      <4>1. row[dialog.source].ws = dialog.ws /\ row[dialog.source].state # "absent"
        BY <1>0, <2>1 DEF Known
      <4>2. CASE Same
        BY <4>1, <4>2 DEF Same
      <4>3. ASSUME NEW t \in Tasks, Added(t) PROVE row'[dialog.source].ws = dialog.ws
        BY <1>0, <3>1, <4>1, <4>3, AddedRow DEF Others
      <4>4. ASSUME NEW t \in Tasks, Changed(t) PROVE row'[dialog.source].ws = dialog.ws
        BY <3>1, <4>1, <4>4 DEF Changed, Others
      <4> QED BY <4>2, <4>3, <4>4, RowSteps
    <3> QED BY <1>0, <1>m, <2>1, <3>1, <3>2 DEF Known
  <2>2. CASE dialog' = None
    BY <2>2
  <2>3. ASSUME NEW t \in Tasks, OpenDialog(t) PROVE K8'
    <3>1. /\ row' = row /\ home' = home /\ row[t].session # None /\ row[t].state # "absent"
          /\ dialog'.source = t /\ dialog'.session = row[t].session /\ dialog'.ws = row[t].ws
      BY <2>3 DEF OpenDialog, Forkable, tables, world
    <3> QED BY <1>0, <3>1 DEF Known
  <2> QED
    BY <2>1, <2>2, <2>3 DEF Next, Create, Import, NewSession, ChangeDir, Post, Wake, Park, Unpark,
       Complete, Completed, CompleteFails, CloseDialog, ForkShared, StartFork, AbandonFork,
       CopySession, LaunchFork, LaunchFails, HandleEvent, RecordCwd, Restart, vars, krang
<1>2. K2'
  <2>1. CASE Same
    BY <1>0, <1>m, <2>1 DEF Same, Known, TypeOK, Row
  <2>2. ASSUME NEW t \in Tasks, Added(t) PROVE K2'
    <3>1. row'[t].session # None => home'[row'[t].session] # None
      BY <1>0, <2>2, AddedRow
    <3>2. ASSUME NEW u \in Tasks \ {t}, row'[u].session # None PROVE home'[row'[u].session] # None
      <4>1. row'[u] = row[u]
        BY <1>0, <2>2, AddedRow DEF Others
      <4> QED BY <1>0, <1>m, <3>2, <4>1 DEF Known, TypeOK, Row
    <3> QED BY <3>1, <3>2
  <2>3. ASSUME NEW t \in Tasks, Changed(t) PROVE K2'
    <3>1. DOMAIN events = 1..Len(events) /\ Len(events) \in Nat
      BY <1>0 DEF TypeOK
    <3>2. Len(events) # 0 => home[events[1].session] # None
      BY <1>0, <3>1 DEF Known
    <3>3. row'[t].session = row[t].session \/ (home[row'[t].session] # None /\ row'[t].session \in Sessions)
      BY <2>3, <3>2 DEF Changed, Event
    <3>4. home'[row'[t].session] # None \/ row'[t].session = None
      BY <1>0, <1>m, <3>3 DEF Known, TypeOK, Row
    <3>5. ASSUME NEW u \in Tasks \ {t}, row'[u].session # None PROVE home'[row'[u].session] # None
      BY <1>0, <1>m, <2>3, <3>5 DEF Changed, Others, Known, TypeOK, Row
    <3> QED BY <3>4, <3>5
  <2> QED BY <2>1, <2>2, <2>3, RowSteps
<1>3. K3'
  <2>1. ASSUME NEW t \in Tasks, NEW s \in Sessions, Create(t, s) PROVE K3'
    <3>1. Insert(t, "active", s, Root(t), t, None)
      BY <2>1 DEF Create
    <3>2. row'[t].state = "active" /\ \A u \in Tasks \ {t} : row'[u] = row[u]
      BY <1>0, <3>1 DEF Insert, TypeOK
    <3>3. /\ home'[s] = Root(t)
          /\ claude'[t].says = s /\ \A u \in Tasks \ {t} : claude'[u] = claude[u]
      BY <1>0, <1>r, <2>1 DEF Create, Begins, Run, TypeOK
    <3> QED BY <1>0, <1>m, <1>r, <3>2, <3>3 DEF Known, TypeOK, Claude
  <2>2. ASSUME NEW t \in Tasks, NEW s \in Sessions, NewSession(t, s) PROVE K3'
    <3>1. claude[t].project \in Dir
      BY <1>0, <2>2 DEF NewSession, TypeOK, Claude
    <3>2. /\ home'[s] # None /\ row' = row /\ claude'[t].says = s /\ claude[t] # NoClaude
          /\ \A u \in Tasks \ {t} : claude'[u] = claude[u]
      BY <1>0, <1>r, <2>2, <3>1 DEF NewSession, Begins, TypeOK, Claude, tables
    <3> QED BY <1>0, <1>m, <3>2 DEF Known, TypeOK, Claude
  <2>3. ASSUME NEW t \in Tasks, ChangeDir(t) PROVE K3'
    <3>1. /\ row' = row /\ home' = home /\ claude'[t].says = claude[t].says /\ claude[t] # NoClaude
          /\ \A u \in Tasks \ {t} : claude'[u] = claude[u]
      BY <1>0, <2>3 DEF ChangeDir, TypeOK, Claude, tables
    <3> QED BY <1>0, <3>1 DEF Known
  <2>4. ASSUME NEW t \in Tasks, Completed(t) PROVE K3'
    <3>1. /\ claude'[t] = NoClaude /\ home' = home
          /\ \A u \in Tasks \ {t} : claude'[u] = claude[u] /\ row'[u] = row[u]
      BY <1>0, <2>4, Written DEF Completed, TypeOK, Others
    <3> QED BY <1>0, <3>1 DEF Known
  <2>8. ASSUME NEW t \in Tasks, Wake(t) PROVE K3'
    <3>1. /\ home' = home /\ row'[t].state = "active" /\ home[row[t].session] # None
      BY <1>0, <2>8, Written DEF Wake, Rows, Known
    <3>2. /\ claude'[t].says = row[t].session
          /\ \A u \in Tasks \ {t} : claude'[u] = claude[u] /\ row'[u] = row[u]
      BY <1>0, <2>8, Written DEF Wake, Run, TypeOK, Others
    <3> QED BY <1>0, <3>1, <3>2 DEF Known
  <2>5. ASSUME NEW t \in Tasks, ForkShared(t) PROVE K3'
    <3>1. PICK d \in Dir : Insert(t, "active", None, d, dialog.ws, dialog.source) /\ Run(t, dialog.session, d)
      BY <1>0, <2>5, Inserters
    <3>2. /\ dialog.ws \in Tasks \cup {None} /\ dialog.source \in Tasks
          /\ home[dialog.session] # None /\ home' = home
      BY <1>0, <2>5, Inserters DEF ForkShared, Known, Dialog
    <3>3. /\ row'[t].state = "active" /\ \A u \in Tasks \ {t} : row'[u] = row[u]
      BY <1>0, <3>1 DEF Insert, TypeOK
    <3>4. /\ claude'[t].says = dialog.session /\ \A u \in Tasks \ {t} : claude'[u] = claude[u]
      BY <1>0, <3>1 DEF Run, TypeOK
    <3> QED BY <1>0, <3>2, <3>3, <3>4 DEF Known
  <2>6. CASE LaunchFork
    <3>1. fork \in Fork /\ fork.task \in Tasks /\ fork.source \in Tasks /\ Root(fork.task) \in Dir
      BY <1>0, <1>r, <2>6 DEF LaunchFork, TypeOK, Fork
    <3>2. Insert(fork.task, "active", None, Root(fork.task), fork.task, fork.source)
      BY <2>6 DEF LaunchFork
    <3>3. row'[fork.task].state = "active" /\ \A u \in Tasks \ {fork.task} : row'[u] = row[u]
      BY <1>0, <3>1, <3>2 DEF Insert, TypeOK
    <3>4. /\ home' = home /\ \A u \in Tasks \ {fork.task} : claude'[u] = claude[u]
          /\ claude'[fork.task].says = fork.session /\ home[fork.session] # None
      BY <1>0, <2>6, <3>1 DEF LaunchFork, Run, TypeOK, Known
    <3> QED BY <1>0, <3>1, <3>3, <3>4 DEF Known
  <2>7. CASE claude' = claude
    <3>1. CASE Same
      BY <1>0, <1>m, <2>7, <3>1 DEF Known, Same, TypeOK, Claude
    <3>2. ASSUME NEW t \in Tasks, Added(t) \/ Changed(t), NEW u \in Tasks, claude'[u] # NoClaude
          PROVE  row'[u].state \in {"active", "parked"} /\ home'[claude'[u].says] # None
      <4>1. claude[u].says \in Sessions /\ home[claude[u].says] # None /\ row[u].state \in {"active", "parked"}
        BY <1>0, <2>7, <3>2 DEF Known, TypeOK, Claude
      <4>2. row'[u].state \in {"active", "parked"}
        BY <1>0, <2>7, <3>2, <4>1, AddedRow DEF Changed, Others
      <4> QED BY <1>m, <2>7, <4>1, <4>2
    <3> QED BY <3>1, <3>2, RowSteps
  <2> QED
    BY <2>1, <2>2, <2>3, <2>4, <2>5, <2>6, <2>7, <2>8 DEF Next, Import, Post, Park, Unpark, Complete,
       CompleteFails, OpenDialog, CloseDialog, StartFork, AbandonFork, CopySession,
       LaunchFails, HandleEvent, RecordCwd, Restart, vars, world
<1>4. K4'
  <2>1. ASSUME NEW t \in Tasks, Post(t) PROVE K4'
    <3>1. /\ row' = row /\ home' = home /\ row[t].state # "absent" /\ home[claude[t].says] # None
          /\ DOMAIN events' = 1..(Len(events) + 1) /\ Len(events) \in Nat
          /\ \A i \in 1..Len(events) : events'[i] = events[i]
          /\ events'[Len(events) + 1].from = t /\ events'[Len(events) + 1].session = claude[t].says
      BY <1>0, <2>1, AppendProperties DEF Post, Known, TypeOK, tables, world, Claude, Event
    <3> QED BY <1>0, <3>1 DEF Known, TypeOK
  <2>2. CASE \A i \in DOMAIN events' : \E k \in DOMAIN events : events'[i] = events[k]
    <3>1. DOMAIN events = 1..Len(events) /\ \A k \in 1..Len(events) : events[k] \in Event
      BY <1>0 DEF TypeOK
    <3> QED BY <1>0, <1>m, <2>2, <3>1 DEF Known, Event
  <2>3. CASE HandleEvent
    <3>1. /\ DOMAIN events = 1..Len(events) /\ Len(events) \in Nat
          /\ DOMAIN events' = 1..Len(events') /\ Len(events') = Len(events) - 1
          /\ \A i \in 1..Len(events') : events'[i] = events[i + 1]
      BY <1>0, <2>3, Handled DEF TypeOK
    <3> QED BY <2>2, <3>1
  <2>4. CASE Restart
    BY <2>4 DEF Restart
  <2> QED
    BY <2>1, <2>2, <2>3, <2>4 DEF Next, Create, Import, NewSession, ChangeDir, Wake, Park, Unpark,
       Complete, Completed, CompleteFails, OpenDialog, CloseDialog, ForkShared, StartFork,
       AbandonFork, CopySession, LaunchFork, LaunchFails, RecordCwd, vars
<1>5. K5'
  <2>1. CASE HandleEvent
    BY <1>0, <1>m, <2>1, Handled DEF Known, TypeOK
  <2>2. CASE jobs' \subseteq jobs
    BY <1>0, <1>m, <2>2 DEF Known, TypeOK
  <2> QED
    BY <2>1, <2>2 DEF Next, Create, Import, NewSession, ChangeDir, Post, Wake, Park, Unpark,
       Complete, Completed, CompleteFails, OpenDialog, CloseDialog, ForkShared, StartFork,
       AbandonFork, CopySession, LaunchFork, LaunchFails, RecordCwd, Restart, vars, krang
<1>6. K6'
  <2>1. ASSUME NEW t \in Tasks, StartFork(t) PROVE K6'
    <3>1. /\ row' = row /\ home' = home /\ fork'.task = t /\ row[t].state = "absent"
          /\ fork'.source = dialog.source /\ fork'.session = dialog.session /\ dialog # None
      BY <2>1 DEF StartFork, Unused, tables, world
    <3> QED BY <1>0, <3>1 DEF Known
  <2>2. ASSUME fork # None, fork' # None, fork'.task = fork.task, fork'.source = fork.source,
               fork'.session = fork.session
        PROVE  K6'
    <3>1. fork.task \in Tasks /\ fork.source \in Tasks /\ fork.session \in Sessions
      BY <1>0, <2>2 DEF TypeOK, Fork
    <3>2. row'[fork.task].state = "absent"
      <4>1. CASE Same
        BY <1>0, <2>2, <4>1 DEF Same, Known
      <4>2. ASSUME NEW t \in Tasks, Added(t) PROVE row'[fork.task].state = "absent"
        BY <1>0, <2>2, <3>1, <4>2, AddedRow DEF Others, Known
      <4>3. ASSUME NEW t \in Tasks, Changed(t) PROVE row'[fork.task].state = "absent"
        BY <1>0, <2>2, <3>1, <4>3 DEF Changed, Others, Known
      <4> QED BY <4>1, <4>2, <4>3, RowSteps
    <3> QED BY <1>0, <1>m, <2>2, <3>1, <3>2 DEF Known
  <2>3. CASE fork' = None
    BY <2>3
  <2>4. CASE fork' = fork
    BY <2>2, <2>3, <2>4
  <2>5. CASE CopySession
    <3>1. fork \in Fork /\ fork # None /\ fork' = [fork EXCEPT !.step = "launch"]
      BY <1>0, <2>5 DEF CopySession, TypeOK
    <3>2. fork'.task = fork.task /\ fork'.source = fork.source /\ fork'.session = fork.session
      BY <3>1 DEF Fork
    <3> QED BY <2>2, <2>3, <3>1, <3>2
  <2> QED
    BY <2>1, <2>3, <2>4, <2>5 DEF Next, Create, Import, NewSession, ChangeDir, Post, Wake, Park, Unpark,
       Complete, Completed, CompleteFails, OpenDialog, CloseDialog, ForkShared, AbandonFork,
       LaunchFork, LaunchFails, HandleEvent, RecordCwd, Restart, vars, krang
<1> QED BY <1>2, <1>3, <1>4, <1>5, <1>6, <1>7, <1>8, <1>9 DEF Known

\* A fork that has a session of its own does not go back to the one it borrowed.
LEMMA StepBorrowsFirst == Inv /\ [Next]_vars => BorrowsFirst'
<1> SUFFICES ASSUME Inv, [Next]_vars, Unshared' PROVE BorrowsFirst'
  BY DEF BorrowsFirst
<1>0. TypeOK /\ Rows /\ Known /\ BorrowsFirst
  BY DEF Inv
<1>r. \A t, u \in Tasks : Root(t) \in Dir /\ Root(t) # None /\ (Root(t) = Root(u) => t = u)
  <2>1. \A t, u \in Tasks : Root(t) \in Dir /\ (Root(t) = Root(u) => t = u)
    BY DEF Root, Dir
  <2> QED BY <2>1
<1>m. \A s \in Sessions : home[s] # None => home'[s] = home[s]
  BY Monotone
<1>u. Unshared
  <2>1. CASE Same
    BY <2>1 DEF Same, Unshared
  <2>2. ASSUME NEW t \in Tasks, Added(t) \/ Changed(t) PROVE Unshared
    BY <2>2, <1>0, AddedRow DEF Changed, Others, Unshared
  <2> QED BY <2>1, <2>2, RowSteps
<1> DEFINE P1 == \A s \in Sessions : home[s] # None => \E t \in Tasks : Own(t, s) /\ row[t].state # "absent"
           Q1 == \A t \in Tasks : claude[t] # NoClaude =>
                    /\ claude[t].project = Root(t)
                    /\ Own(t, claude[t].says) \/ \A s \in Sessions : ~Own(t, s)
           Q2 == \A i \in DOMAIN events : ~Own(events[i].from, events[i].session) =>
                    /\ \A j \in 1..(i - 1) : ~Own(events[i].from, events[j].session)
                    /\ \A t \in Tasks : row[t].session # None => ~Own(events[i].from, row[t].session)
<1>q. P1 /\ Q1 /\ Q2
  BY <1>0, <1>u DEF BorrowsFirst
\* Nothing is imported, so nothing woken, and no fork shares a workspace.
<1>f. ASSUME NEW t \in Tasks
      PROVE  ~Wake(t) /\ ~ForkShared(t) /\ \A s \in Sessions : ~Import(t, s)
  <2>1. ASSUME Wake(t) PROVE FALSE
    BY <1>0, <1>u, <2>1 DEF Wake, Rows, Unshared
  <2>2. ASSUME ForkShared(t) PROVE FALSE
    <3>1. PICK d \in Dir : Insert(t, "active", None, d, dialog.ws, dialog.source)
      BY <1>0, <2>2, Inserters
    <3>2. /\ dialog.source \in Tasks /\ row[dialog.source].state # "absent"
          /\ row[dialog.source].ws = dialog.ws /\ row[t].state = "absent"
      BY <1>0, <2>2, Inserters DEF ForkShared, Unused, Known, Dialog
    <3>3. row'[t].state = "active" /\ row'[t].ws = dialog.ws
      BY <1>0, <3>1 DEF Insert, TypeOK
    <3> QED BY <1>u, <3>2, <3>3 DEF Unshared
  <2>3. ASSUME NEW s \in Sessions, Import(t, s) PROVE FALSE
    <3>1. PICK d \in Dir : Insert(t, "dormant", s, d, None, None)
      BY <1>0, <2>3, Inserters
    <3>2. row'[t].state = "dormant" /\ row'[t].ws = None
      BY <1>0, <3>1 DEF Insert, TypeOK
    <3> QED BY <3>2 DEF Unshared
  <2> QED BY <2>1, <2>2, <2>3
<1>c. ASSUME NEW t \in Tasks, NEW s \in Sessions, Create(t, s)
      PROVE  /\ home' = [home EXCEPT ![s] = Root(t)] /\ home'[s] = Root(t) /\ New(s)
             /\ row'[t].state # "absent" /\ claude'[t].says = s /\ claude'[t].project = Root(t)
             /\ \A u \in Tasks \ {t} : claude'[u] = claude[u]
  <2>1. Insert(t, "active", s, Root(t), t, None)
    BY <1>c DEF Create
  <2>2. row'[t].state # "absent"
    BY <1>0, <2>1 DEF Insert, TypeOK
  <2> QED BY <1>0, <1>c, <2>2 DEF Create, Begins, Run, TypeOK
<1>n. ASSUME NEW t \in Tasks, NEW s \in Sessions, NewSession(t, s)
      PROVE  /\ home' = [home EXCEPT ![s] = Root(t)] /\ home'[s] = Root(t) /\ New(s)
             /\ row'[t].state # "absent" /\ claude'[t].says = s /\ claude'[t].project = Root(t)
             /\ \A u \in Tasks \ {t} : claude'[u] = claude[u]
  <2>1. claude[t] # NoClaude /\ claude[t] \in Claude /\ claude[t].project = Root(t)
    BY <1>0, <1>q, <1>n DEF NewSession, TypeOK
  <2>2. row'[t].state # "absent"
    BY <1>0, <1>n, <2>1 DEF NewSession, Known, tables
  <2> QED BY <1>0, <1>n, <2>1, <2>2 DEF NewSession, Begins, TypeOK, Claude
<1>o. ASSUME \A t \in Tasks, s \in Sessions : ~Create(t, s) /\ ~NewSession(t, s)
      PROVE  home' = home
  BY <1>f, <1>o DEF Next, ChangeDir, Post, Park, Unpark, Complete, Completed, CompleteFails, OpenDialog,
     CloseDialog, StartFork, AbandonFork, CopySession, LaunchFork, LaunchFails, HandleEvent,
     RecordCwd, Restart, vars, world
<1>p. P1'
  <2> SUFFICES ASSUME NEW s \in Sessions, home'[s] # None
               PROVE  \E t \in Tasks : home'[s] = Root(t) /\ row'[t].state # "absent"
    BY DEF Own
  <2>1. CASE home[s] # None
    BY <1>q, <1>m, <2>1, Monotone DEF Own
  <2>2. CASE home[s] = None
    <3>1. PICK t \in Tasks, x \in Sessions : Create(t, x) \/ NewSession(t, x)
      BY <1>o, <2>2
    <3>2. home' = [home EXCEPT ![x] = Root(t)] /\ home'[x] = Root(t) /\ row'[t].state # "absent"
      BY <1>c, <1>n, <3>1
    <3>3. x = s
      BY <1>0, <2>2, <3>2 DEF TypeOK
    <3> QED BY <3>2, <3>3
  <2> QED BY <2>1, <2>2
<1>b. ASSUME NEW t \in Tasks, NEW s \in Sessions, home' = [home EXCEPT ![s] = Root(t)], New(s),
             NEW u \in Tasks \ {t}, claude'[u] = claude[u], claude'[u] # NoClaude
      PROVE  Own(u, claude[u].says)' \/ \A x \in Sessions : ~Own(u, x)'
  <2>1. claude[u].says \in Sessions /\ claude[u].says # s
    BY <1>0, <1>b DEF Known, New, TypeOK, Claude
  <2>2. \A x \in Sessions : home'[x] = IF x = s THEN Root(t) ELSE home[x]
    BY <1>0, <1>b DEF TypeOK
  <2> QED BY <1>q, <1>r, <1>b, <2>1, <2>2 DEF Own
<1>1. Q1'
  <2>1. ASSUME NEW t \in Tasks, NEW s \in Sessions, Create(t, s) \/ NewSession(t, s) PROVE Q1'
    <3>1. /\ home' = [home EXCEPT ![s] = Root(t)] /\ home'[s] = Root(t) /\ New(s)
          /\ claude'[t].says = s /\ claude'[t].project = Root(t)
          /\ \A u \in Tasks \ {t} : claude'[u] = claude[u]
      BY <1>c, <1>n, <2>1
    <3> QED BY <1>b, <1>q, <3>1 DEF Own
  <2>3. ASSUME NEW t \in Tasks, ChangeDir(t) PROVE Q1'
    <3>1. /\ home' = home /\ claude'[t].says = claude[t].says /\ claude[t] # NoClaude
          /\ claude'[t].project = claude[t].project
          /\ \A u \in Tasks \ {t} : claude'[u] = claude[u]
      BY <1>0, <2>3 DEF ChangeDir, TypeOK, Claude
    <3> QED BY <1>q, <3>1 DEF Own
  <2>4. ASSUME NEW t \in Tasks, Completed(t) PROVE Q1'
    <3>1. /\ home' = home /\ claude'[t] = NoClaude
          /\ \A u \in Tasks \ {t} : claude'[u] = claude[u]
      BY <1>0, <2>4 DEF Completed, TypeOK
    <3> QED BY <1>q, <3>1 DEF Own
  <2>6. CASE LaunchFork
    <3>1. fork.task \in Tasks /\ row[fork.task].state = "absent"
      BY <1>0, <2>6 DEF LaunchFork, TypeOK, Fork, Known
    <3>2. /\ home' = home /\ claude'[fork.task].project = Root(fork.task)
          /\ \A u \in Tasks \ {fork.task} : claude'[u] = claude[u]
      BY <1>0, <2>6, <3>1 DEF LaunchFork, Run, TypeOK
    <3>3. ASSUME NEW s \in Sessions, home[s] = Root(fork.task) PROVE FALSE
      <4>1. PICK t \in Tasks : home[s] = Root(t) /\ row[t].state # "absent"
        BY <1>q, <1>r, <3>1, <3>3 DEF Own
      <4> QED BY <1>r, <3>1, <3>3, <4>1
    <3> QED BY <1>q, <3>2, <3>3 DEF Own
  <2>7. CASE claude' = claude /\ home' = home
    BY <1>q, <2>7 DEF Own
  <2> QED
    BY <1>f, <2>1, <2>3, <2>4, <2>6, <2>7 DEF Next, Post, Park, Unpark, Complete, CompleteFails,
       OpenDialog, CloseDialog, StartFork, AbandonFork, CopySession, LaunchFails, HandleEvent,
       RecordCwd, Restart, vars, world
\* A session that is known stays where it was started: at home with a task or not.
<1>k. ASSUME NEW s \in Sessions, home[s] # None, NEW t \in Tasks PROVE Own(t, s)' <=> Own(t, s)
  BY <1>m, <1>k DEF Own
<1>e. /\ DOMAIN events = 1..Len(events) /\ Len(events) \in Nat
      /\ \A i \in DOMAIN events :
            events[i] \in Event /\ events[i].from \in Tasks /\ events[i].session \in Sessions
            /\ home[events[i].session] # None
  <2>1. /\ DOMAIN events = 1..Len(events) /\ Len(events) \in Nat
        /\ \A i \in DOMAIN events : events[i] \in Event
    BY <1>0 DEF TypeOK
  <2> QED BY <1>0, <2>1 DEF Event, Known
<1>s. \A t \in Tasks : row[t].session # None =>
          row[t].session \in Sessions /\ home[row[t].session] # None
  BY <1>0 DEF Known, TypeOK, Row
<1>2. ASSUME events' = events, ~HandleEvent PROVE Q2'
  <2> SUFFICES ASSUME NEW i \in DOMAIN events, ~Own(events[i].from, events[i].session)'
               PROVE  /\ \A j \in 1..(i - 1) : ~Own(events[i].from, events[j].session)'
                      /\ \A t \in Tasks : row'[t].session # None => ~(home'[row'[t].session] = Root(events[i].from))
    BY <1>2 DEF Own
  <2>1. /\ \A j \in 1..(i - 1) : ~Own(events[i].from, events[j].session)
        /\ \A t \in Tasks : row[t].session # None => ~Own(events[i].from, row[t].session)
    BY <1>q, <1>k, <1>e, <1>2
  <2>2. \A j \in 1..(i - 1) : ~Own(events[i].from, events[j].session)'
    BY <1>e, <1>k, <1>2, <2>1
  <2>3. \A t \in Tasks : row[t].session # None => home'[row[t].session] # Root(events[i].from)
    BY <1>s, <1>m, <2>1 DEF Own
  <2>4. CASE Same
    BY <2>2, <2>3, <2>4 DEF Same
  <2>5. ASSUME NEW t \in Tasks, Added(t), NEW u \in Tasks, row'[u].session # None
        PROVE  home'[row'[u].session] # Root(events[i].from)
    <3>1. events[i].from \in Tasks \ {t}
      BY <1>0, <1>e, <2>5 DEF Added, Known
    <3>2. row'[t].state # "absent" /\ row'[t].ws = t
      BY <1>0, <2>5, AddedRow DEF Unshared
    <3>3. home'[row'[t].session] = Root(t) \/ row'[t].session = None
      BY <1>0, <2>5, <3>2, AddedRow
    <3>4. \A v \in Tasks \ {t} : row'[v] = row[v]
      BY <1>0, <2>5, AddedRow DEF Others
    <3> QED BY <1>r, <2>3, <2>5, <3>1, <3>3, <3>4
  <2>6. ASSUME NEW t \in Tasks, Changed(t), NEW u \in Tasks, row'[u].session # None
        PROVE  home'[row'[u].session] # Root(events[i].from)
    BY <1>2, <2>3, <2>6 DEF Changed, Others
  <2> QED BY <2>2, <2>4, <2>5, <2>6, RowSteps
<1>3. ASSUME NEW t \in Tasks, Post(t) PROVE Q2'
  <2>1. /\ row' = row /\ home' = home /\ claude[t] # NoClaude
        /\ DOMAIN events' = 1..(Len(events) + 1)
        /\ \A i \in 1..Len(events) : events'[i] = events[i]
        /\ events'[Len(events) + 1].from = t /\ events'[Len(events) + 1].session = claude[t].says
    BY <1>0, <1>3, AppendProperties DEF Post, TypeOK, tables, world, Claude, Event
  <2>2. ASSUME NEW i \in 1..Len(events), ~Own(events'[i].from, events'[i].session)
        PROVE  /\ \A j \in 1..(i - 1) : ~Own(events'[i].from, events'[j].session)
               /\ \A u \in Tasks : row[u].session # None => ~Own(events'[i].from, row[u].session)
    BY <1>q, <1>e, <2>1, <2>2
  <2>3. ASSUME ~Own(t, claude[t].says)
        PROVE  /\ \A j \in 1..Len(events) : ~Own(t, events'[j].session)
               /\ \A u \in Tasks : row[u].session # None => ~Own(t, row[u].session)
    BY <1>q, <1>e, <1>s, <2>1, <2>3
  <2>4. \A i \in 1..(Len(events) + 1) : i \in 1..Len(events) \/ i = Len(events) + 1
    BY <1>e
  <2> QED BY <1>e, <2>1, <2>2, <2>3, <2>4 DEF Own
<1>4. ASSUME HandleEvent PROVE Q2'
  <2>1. /\ DOMAIN events' = 1..(Len(events) - 1) /\ Len(events) # 0
        /\ \A i \in DOMAIN events' : events'[i] = events[i + 1] /\ i + 1 \in DOMAIN events
    <3>1. /\ Len(events) \in Nat \ {0} /\ events' \in Seq(Event) /\ Len(events') = Len(events) - 1
          /\ \A i \in 1..Len(events') : events'[i] = events[i + 1]
      BY <1>0, <1>4, Handled
    <3>2. DOMAIN events' = 1..Len(events')
      BY <3>1
    <3> QED BY <1>e, <3>1, <3>2
  <2>2. home' = home
    BY <1>4 DEF HandleEvent
  <2>3. \A u \in Tasks : row'[u].session = row[u].session \/ row'[u].session = events[1].session
    BY <1>0, <1>4, Handled, Written DEF Others, Event
  <2> SUFFICES ASSUME NEW i \in DOMAIN events', ~Own(events[i + 1].from, events[i + 1].session)
               PROVE  /\ \A j \in 1..(i - 1) : ~Own(events[i + 1].from, events[j + 1].session)
                      /\ \A u \in Tasks : row'[u].session # None => ~Own(events[i + 1].from, row'[u].session)
    BY <1>e, <2>1, <2>2 DEF Own
  <2>4. /\ \A j \in 1..i : ~Own(events[i + 1].from, events[j].session)
        /\ \A u \in Tasks : row[u].session # None => ~Own(events[i + 1].from, row[u].session)
    BY <1>q, <1>e, <2>1
  <2> QED BY <1>e, <2>1, <2>3, <2>4
<1>5. ASSUME events' = <<>> PROVE Q2'
  BY <1>5
<1>6. ASSUME ~HandleEvent, events' # events, events' # <<>> PROVE \E t \in Tasks : Post(t)
  BY <1>6 DEF Next, Create, Import, NewSession, ChangeDir, Wake, Park, Unpark, Complete, Completed,
     CompleteFails, OpenDialog, CloseDialog, ForkShared, StartFork, AbandonFork, CopySession,
     LaunchFork, LaunchFails, RecordCwd, Restart, vars
<1> QED
  <2>1. Q2'
    BY <1>2, <1>3, <1>4, <1>5, <1>6
  <2> QED BY <1>1, <1>p, <2>1 DEF BorrowsFirst

--------------------------------------------------------------------------------
(* Theorems.                                                               *)

\* The invariant: types and the bound of the channel, one task per session
\* (every lookup by session, every thaw and every fork relies on it), and what
\* keeps both so.
THEOREM Invariance == Spec => []Inv
<1>1. Init => Inv
  <2> SUFFICES ASSUME Init PROVE Inv
    OBVIOUS
  <2>1. TypeOK
    BY DEF Init, TypeOK, Row, NoRow
  <2>2. /\ \A t \in Tasks : row[t] = NoRow /\ NoRow.state = "absent" /\ NoRow.session = None
                           /\ NoRow.source = None /\ claude[t] = NoClaude
        /\ \A s \in Sessions : home[s] = None
        /\ \A t \in Tasks : closing[t] = None
        /\ fork = None /\ dialog = None /\ jobs = {} /\ events = <<>> /\ files = {}
    BY DEF Init, NoRow
  <2>3. OneTaskPerSession /\ Rows /\ Known /\ BorrowsFirst
    BY <2>2 DEF OneTaskPerSession, Rows, Known, BorrowsFirst
  <2> QED BY <2>1, <2>3 DEF Inv
<1>2. Inv /\ [Next]_vars => Inv'
  BY StepTypeOK, StepOneTask, StepRows, StepKnown, StepBorrowsFirst DEF Inv
<1> QED BY <1>1, <1>2, PTL DEF Spec

\* What is taken for the copy of a source's transcript is one, in the directory
\* recorded for the task, when the source is recorded in another.
LEMMA CopyIs ==
    ASSUME TypeOK, Rows, NEW t \in Tasks, NEW f \in Copy(row[t].source, t)
    PROVE  \E src \in Tasks : /\ row[src].state # "absent" /\ row[src].session # None
                              /\ row[src].cwd # row[t].cwd /\ f = <<row[src].session, row[t].cwd>>
<1> DEFINE src == row[t].source
<1>1. /\ src # None /\ row[src].session # None /\ row[src].cwd # row[t].cwd
      /\ f = <<row[src].session, row[t].cwd>>
  BY DEF Copy
<1>2. src \in Tasks
  BY <1>1 DEF TypeOK, Row
<1>3. row[src].state # "absent"
  BY <1>1, <1>2 DEF Rows, NoRow
<1> HIDE DEF src
<1> QED BY <1>1, <1>2, <1>3

\* A transcript is removed as the copy of a task's source, by an adoption or by a
\* completion that had set out to.
LEMMA Removes ==
    ASSUME Inv, [Next]_vars, NEW f \in files, f \notin files'
    PROVE  \/ \E t \in Tasks : f \in Copy(row[t].source, t)
           \/ \E t \in Tasks : closing[t] # None /\ f \in closing[t]
<1>0. TypeOK /\ Rows
  BY DEF Inv
<1>1. ASSUME NEW t \in Tasks, Completed(t)
      PROVE  closing[t] # None /\ f \in closing[t]
  BY <1>1 DEF Completed
<1>2. ASSUME HandleEvent PROVE \E t \in Tasks : f \in Copy(row[t].source, t)
  <2> DEFINE e == Head(events)
             t == Route(e)
  <2>1. t # None /\ Adopt(e, t) /\ e \in Event
    BY <1>0, <1>2, HeadTailProperties, EmptySeq DEF HandleEvent, TypeOK
  <2>2. t \in Tasks
    BY <1>0, <2>1, RouteIs
  <2> HIDE DEF e, t
  <2>3. f \in Copy(row[t].source, t)
    BY <2>1, <2>2 DEF Adopt
  <2> QED BY <2>2, <2>3
<1>3. CASE files \subseteq files'
  BY <1>3
<1>4. ASSUME NEW t \in Tasks, NEW s \in Sessions,
             Create(t, s) \/ Import(t, s) \/ NewSession(t, s)
      PROVE  files \subseteq files'
  BY <1>4 DEF Create, Import, NewSession, Begins
<1> QED
  BY <1>1, <1>2, <1>3, <1>4 DEF Next, ChangeDir, Post, Wake, Park, Unpark, Complete, CompleteFails,
     OpenDialog, CloseDialog, ForkShared, StartFork, AbandonFork, CopySession, LaunchFork,
     LaunchFails, RecordCwd, Restart, vars, world

\* A completion sets out to remove what is the copy by the rows it read.
LEMMA Condemns ==
    ASSUME Inv, [Next]_vars, NEW f, NEW t \in Tasks, closing'[t] # None, f \in closing'[t],
           closing[t] = None \/ f \notin closing[t]
    PROVE  f \in Copy(row[t].source, t)
<1>0. TypeOK
  BY DEF Inv
<1>1. ASSUME NEW u \in Tasks, Complete(u) PROVE f \in Copy(row[t].source, t)
  BY <1>0, <1>1 DEF Complete, TypeOK
<1>2. ASSUME NEW u \in Tasks, Completed(u) \/ CompleteFails(u) PROVE FALSE
  BY <1>0, <1>2 DEF Completed, CompleteFails, TypeOK
<1>3. ASSUME Restart PROVE FALSE
  BY <1>3 DEF Restart
<1>4. ASSUME closing' = closing PROVE FALSE
  BY <1>4
<1> QED
  BY <1>1, <1>2, <1>3, <1>4 DEF Next, Create, Import, NewSession, ChangeDir, Post, Wake, Park, Unpark,
     OpenDialog, CloseDialog, ForkShared, StartFork, AbandonFork, CopySession, LaunchFork,
     LaunchFails, HandleEvent, RecordCwd, vars, krang

\* No step of krang deletes a session's own transcript, and no completion reads
\* rows by which it is going to, while every task of the session is recorded where
\* the session was started (Complete, tryAdoptSession, CleanupCopiedSession).
THEOREM HomeTranscript == Spec => HomeTranscriptKeptAtHome
<1>1. ASSUME Inv, [Next]_vars, NEW s \in Sessions, Kept(s), ~Kept(s)'
      PROVE  \E t \in Owners(s) : row[t].cwd # home[s]
  <2> DEFINE f == <<s, home[s]>>
  <2>1. home'[s] = home[s] /\ home[s] # None
    BY <1>1, Monotone DEF Kept
  <2>2. \/ f \notin files'
        \/ \E t \in Tasks : closing'[t] # None /\ f \in closing'[t]
    BY <1>1, <2>1 DEF Kept
  <2>3. f \in files /\ \A t \in Tasks : closing[t] # None => f \notin closing[t]
    BY <1>1 DEF Kept
  <2> HIDE DEF f
  <2>4. \E t \in Tasks : f \in Copy(row[t].source, t)
    BY <1>1, <2>2, <2>3, Removes, Condemns
  <2>5. PICK src \in Tasks : /\ row[src].state # "absent" /\ row[src].session # None
                             /\ \E t \in Tasks : row[src].cwd # row[t].cwd
                                                 /\ f = <<row[src].session, row[t].cwd>>
    BY <1>1, <2>4, CopyIs DEF Inv
  <2>6. row[src].session = s /\ row[src].cwd # home[s]
    BY <2>5 DEF f
  <2> QED BY <2>5, <2>6 DEF Owners
<1>2. Inv /\ [Next]_vars
      => [\A s \in Sessions : Kept(s) /\ ~Kept(s)' => \E t \in Owners(s) : row[t].cwd # home[s]]_vars
  BY <1>1
<1> QED BY <1>2, Invariance, PTL DEF Spec, HomeTranscriptKeptAtHome

\* A fork in a workspace of its own that gets its session leaves no copy of its
\* source's transcript there (tryAdoptSession, CleanupCopiedSession).
THEOREM CopyIsGone == Spec => CopyGone
<1> DEFINE Served(t) == /\ row[t].state = "active" /\ row[t].session = None /\ row'[t].session # None
                        /\ row[t].cwd = Root(t) /\ row[row[t].source].cwd # Root(t)
           Free(t)   == <<row[row[t].source].session, Root(t)>> \notin files'
<1>1. ASSUME Inv, [Next]_vars, NEW t \in Tasks, Served(t) PROVE Free(t)
  <2>0. TypeOK /\ Rows
    BY <1>1 DEF Inv
  <2>1. HandleEvent
    <3>1. CASE Same
      BY <1>1, <3>1 DEF Same
    <3>2. ASSUME NEW u \in Tasks, Added(u) PROVE FALSE
      BY <1>1, <2>0, <3>2, AddedRow DEF Others
    <3>3. ASSUME NEW u \in Tasks, Changed(u) PROVE HandleEvent
      BY <1>1, <3>3 DEF Changed, Others
    <3> QED BY <1>1, <3>1, <3>2, <3>3, RowSteps
  <2> DEFINE e == Head(events)
             r == Route(e)
  <2>2. e \in Event
    BY <2>0, <2>1, HeadTailProperties, EmptySeq DEF HandleEvent, TypeOK
  <2>3. r # None /\ Adopt(e, r)
    BY <1>1, <2>1 DEF HandleEvent
  <2>4. r \in Tasks
    BY <2>0, <2>2, <2>3, RouteIs
  <2>5. e.session \in Sessions
    BY <2>2 DEF Event
  <2> HIDE DEF e, r
  <2>6. row' = [row EXCEPT ![r].session = e.session]
    BY <1>1, <2>3 DEF Adopt
  <2>7. r = t
    BY <1>1, <2>0, <2>4, <2>5, <2>6, Written DEF Others
  <2>8. row[t].source # None /\ row[row[t].source].session # None
    BY <1>1, <2>0 DEF Rows
  <2>9. files' = files \ Copy(row[t].source, t)
    BY <1>1, <2>3, <2>7, <2>8 DEF Adopt
  <2> QED BY <1>1, <2>8, <2>9 DEF Copy
<1>2. Inv /\ [Next]_vars =>
      [\A t \in Tasks : row[t].state = "active" /\ row[t].session = None /\ row'[t].session # None
                        /\ row[t].cwd = Root(t) /\ row[row[t].source].cwd # Root(t) =>
          <<row[row[t].source].session, Root(t)>> \notin files']_vars
  BY <1>1
<1> QED BY <1>2, Invariance, PTL DEF Spec, CopyGone

\* An event whose directory tells whose it is goes to the task of the Claude that
\* sent it, or to none (Update on HookEventMsg, tryAdoptSession).
THEOREM Routing == Spec => []RoutedToSender
<1>1. Inv => RoutedToSender
  <2> DEFINE e == Head(events)
             f == e.from
  <2> SUFFICES ASSUME Inv, events # <<>>, Settled(e),
                      row[f].session = None /\ Owners(e.session) # {} => contested[e.session] = row[f].cwd
               PROVE  Route(e) \in {f, None}
    BY DEF RoutedToSender
  <2>0. TypeOK /\ OneTaskPerSession /\ Rows /\ Known /\ BorrowsFirst
    BY DEF Inv
  <2>1. /\ Len(events) \in Nat \ {0} /\ e = events[1] /\ e \in Event /\ 1 \in DOMAIN events
        /\ f \in Tasks /\ e.session \in Sessions
    <3>1. e \in Event /\ e = events[1] /\ Len(events) \in Nat \ {0} /\ DOMAIN events = 1..Len(events)
      BY <2>0, HeadTailProperties, EmptySeq DEF TypeOK
    <3> QED BY <3>1 DEF Event
  <2>2. /\ row[f].state = "active" /\ e.cwd = Root(row[f].ws) /\ row[f].cwd = e.cwd
        /\ \A t \in Tasks : row[t].state # "absent" => Alone(t) /\ AtHome(t)
    BY <2>1 DEF Settled, AtHome
  <2> HIDE DEF e, f
  <2>r. \A t, u : Root(t) = Root(u) => t = u
    BY DEF Root
  <2>3. Unshared
    <3> SUFFICES ASSUME NEW t \in Tasks, row[t].state # "absent" PROVE row[t].ws = t
      BY DEF Unshared
    <3>1. row[t].cwd = Root(row[t].ws) /\ row[t].cwd \in Dir /\ row[t].ws \in Tasks \cup {None}
      BY <2>0, <2>2 DEF AtHome, Rows, TypeOK, Row
    <3>2. row[t].ws # None
      BY <3>1 DEF Root, Dir
    <3>3. row[row[t].ws].state # "absent" /\ row[row[t].ws].ws = row[t].ws
      BY <2>0, <3>2 DEF Rows
    <3> QED BY <2>2, <3>1, <3>2, <3>3 DEF Alone
  <2>4. \A t \in Tasks : row[t].state # "absent" => row[t].ws = t /\ row[t].cwd = Root(t)
                         /\ (row[t].session # None => home[row[t].session] = Root(t))
    BY <2>2, <2>3 DEF Unshared, AtHome
  <2>5. row[f].ws = f /\ e.cwd = Root(f) /\ e.cwd.ws = f
    BY <2>1, <2>2, <2>4 DEF Root
  <2>6. CASE Owners(e.session) = {}
    <3> DEFINE fresh == {t \in Pending : e.cwd = row[t].cwd \/ e.cwd.ws = row[t].ws}
               there == {t \in Adoptable : row[t].cwd = e.cwd}
    <3>1. fresh \subseteq {f} /\ there \subseteq {f}
      BY <2>r, <2>4, <2>5 DEF Pending, Adoptable
    <3>2. FirstIn(fresh) \in fresh \cup {None} /\ FirstIn(there) \in there \cup {None}
      BY <2>0, FirstInIs DEF Pending, Adoptable
    <3>3. Route(e) \in {FirstIn(fresh), FirstIn(there)}
      BY <2>6 DEF Route, Adopter
    <3> QED BY <3>1, <3>2, <3>3
  <2>7. CASE Owners(e.session) # {}
    <3> DEFINE t  == Owner(e.session)
               fs == {u \in Pending : row[u].cwd = contested[e.session]}
    <3>1. t \in Tasks /\ row[t].state # "absent" /\ row[t].session = e.session
      BY <2>0, <2>7, OwnerIs DEF Owners
    <3>2. Route(e) = IF contested[e.session] # None /\ e.cwd # row[t].cwd /\ FirstIn(fs) # None
                     THEN FirstIn(fs) ELSE t
      BY <2>7 DEF Route, RouteKnown
    <3> HIDE DEF t
    <3>3. CASE t = f
      BY <2>2, <3>2, <3>3
    <3>4. CASE t # f
      <4>1. home[e.session] = Root(t) /\ Root(t) # Root(f)
        BY <2>r, <2>1, <2>4, <3>1, <3>4
      <4>2. ~Own(f, e.session)
        BY <4>1 DEF Own
      <4>3. row[f].session = None
        BY <2>0, <2>1, <2>2, <2>3, <2>4, <4>2 DEF BorrowsFirst, Own, f
      <4>4. contested[e.session] = Root(f) /\ Root(f) # None
        BY <2>0, <2>1, <2>2, <2>5, <2>7, <4>3 DEF Event
      <4>5. f \in fs /\ fs \subseteq {f}
        BY <2>r, <2>1, <2>2, <2>4, <2>5, <4>3, <4>4 DEF Pending, Adoptable
      <4>6. FirstIn(fs) = f
        BY <2>0, <2>1, <2>2, <4>5, FirstInIs DEF Rows, Pending, Adoptable
      <4>7. e.cwd # row[t].cwd /\ f # None
        BY <2>1, <2>4, <2>5, <3>1, <4>1
      <4> QED BY <3>2, <4>4, <4>6, <4>7
    <3> QED BY <3>3, <3>4
  <2> QED BY <2>6, <2>7
<1> QED BY <1>1, Invariance, PTL

================================================================================
