------------------------------ MODULE TaskWizard -------------------------------
(* The wizard a human creates and edits tasks with (tui/wizard.go), its repo    *)
(* picker (tui/repopicker.go), and the searches and clones it starts in the     *)
(* background, whose answers come back through Model.Update (tui/model.go).     *)
(*                                                                              *)
(* The keys of the wizard are handled one at a time in the Update loop.  What   *)
(* makes it hard: answers arrive while the human goes on, in another org or in  *)
(* another wizard; several handlers share the focus of three text inputs; and   *)
(* while a repo is cloned every key is ignored.                                 *)
(*                                                                              *)
(* Abstracted: the position of a cursor (the human picks any visible item), the *)
(* fields of the Flags tab, what a task name says, error texts, views.          *)
EXTENDS Naturals, Sequences

CONSTANTS
    Repos,          \* names of repos, cloned or on GitHub
    LocalRepos,     \* those in the repos directory at the start
    Present,        \* those the workspace of an edited task holds
    SetNames,       \* the sets of krang.yaml
    Members,        \* the repos of each set
    Filters,        \* texts to filter the local list by
    Matching,       \* the sets and repos each of them finds
    Orgs,           \* organizations that may be configured
    OtherOrgs,      \* those a human may type
    Queries,        \* texts to search an organization for
    Found,          \* the repos GitHub finds for an organization and a text
    MaxGen,         \* bound: the searches asked for
    Empty,          \* the empty text
    None

ASSUME WizardAssumption ==
    /\ LocalRepos \subseteq Repos /\ Present \subseteq Repos
    /\ SetNames \cap Repos = {}
    /\ Members \in [SetNames -> SUBSET Repos]
    /\ Matching \in [Filters -> SUBSET (SetNames \cup Repos)]
    /\ Found \in [Orgs \cup OtherOrgs \cup {None} -> [Queries \cup {Empty} -> SUBSET Repos]]
    /\ Empty \notin Filters \cup Queries \cup Orgs \cup OtherOrgs
    /\ None \notin Repos \cup Orgs \cup OtherOrgs
    /\ MaxGen \in Nat

VARIABLES
    strategy,   \* workspace_strategy of krang.yaml, if any
    orgs,       \* github_orgs of the configuration
    local,      \* the repos in the repos directory
    mode,       \* Model.mode: the wizard, the clone it waits for, or elsewhere
    wizard,     \* Model.activeWizard
    picker,     \* its repoPicker, the Local tab
    remote,     \* the Remote tab
    gen,        \* Model.remoteSearchGen
    timers,     \* debounce timers that run
    searches,   \* searches under way
    clone       \* the clone under way

config == <<strategy, orgs>>
asking == <<gen, timers, searches>>
vars   == <<config, local, mode, wizard, picker, remote, asking, clone>>

AllOrgs  == Orgs \cup OtherOrgs
Search   == [gen : 1..MaxGen, org : AllOrgs \cup {None}, query : Queries \cup {Empty}]
Wizard   == [edit : BOOLEAN, second : {"picker", "form", "skip"},
             tab : {"name", "repos", "options"}, valid : BOOLEAN]
Picker   == [listed : SUBSET Repos, ticked : SUBSET Repos, marked : SUBSET SetNames,
             filter : Filters \cup {Empty}, filtering : BOOLEAN]
Remote   == [pane : {"local", "remote"}, phase : {"select", "entry", "search"},
             org : AllOrgs \cup {None}, query : Queries \cup {Empty}, shown : Search \cup {None},
             focus : SUBSET {"filter", "entry", "query"}]
Clone    == [org : AllOrgs, repo : Repos]

ASSUME NoneAssumption == None \notin Wizard \cup Picker \cup Remote \cup Search \cup Clone

TypeOK ==
    /\ strategy \in {"multi", "single", "none"} /\ orgs \subseteq Orgs
    /\ local \subseteq Repos
    /\ mode \in {"elsewhere", "wizard", "clone"}
    /\ wizard \in Wizard \cup {None} /\ picker \in Picker \cup {None} /\ remote \in Remote \cup {None}
    /\ gen \in 0..MaxGen /\ timers \subseteq 1..MaxGen /\ searches \subseteq Search
    /\ clone \in Clone \cup {None}

Init ==
    /\ strategy \in {"multi", "single", "none"} /\ orgs \in SUBSET Orgs /\ local = LocalRepos
    /\ mode = "elsewhere" /\ wizard = None /\ picker = None /\ remote = None
    /\ gen = 0 /\ timers = {} /\ searches = {} /\ clone = None

--------------------------------------------------------------------------------
(* Building and leaving the wizard.                                             *)

NewPicker(repos) ==
    [listed |-> repos, ticked |-> {}, marked |-> {}, filter |-> Empty, filtering |-> FALSE]

NewRemote ==
    [pane |-> "local", phase |-> IF orgs = {} THEN "entry" ELSE "select",
     org |-> None, query |-> Empty, shown |-> None, focus |-> {"entry"}]

\* The second tab picks repos, offers a list (of directories, or of repos of which
\* one is allowed), or is left out.
Open(w) ==
    /\ mode = "elsewhere" /\ mode' = "wizard" /\ wizard' = w
    /\ IF w.second = "picker"
         THEN picker' = NewPicker(local) /\ remote' = NewRemote
         ELSE picker' = None /\ remote' = None
    /\ UNCHANGED <<config, local, asking, clone>>

SecondTabs == CASE strategy = "multi"  -> {"picker"}
                [] strategy = "single" -> IF local = {} THEN {"picker"} ELSE {"form"}
                [] strategy = "none"   -> {"form", "skip"}

OpenCreate == \E s \in SecondTabs :
    Open([edit |-> FALSE, second |-> s, tab |-> "name", valid |-> FALSE])

\* Only a task with a workspace is offered repos.
OpenEdit ==
    \/ /\ strategy # "none"
       /\ Open([edit |-> TRUE, second |-> "picker", tab |-> "repos", valid |-> TRUE])
    \/ Open([edit |-> TRUE, second |-> "skip", tab |-> "options", valid |-> TRUE])

Leave ==
    /\ mode' = "elsewhere" /\ wizard' = None /\ picker' = None /\ remote' = None
    /\ UNCHANGED <<config, local, asking, clone>>

--------------------------------------------------------------------------------
(* Tabs.  Bracket keys move between them unless they are typed into a text.     *)

InTab(t)  == mode = "wizard" /\ wizard.tab = t
InPane(p) == InTab("repos") /\ wizard.second = "picker" /\ remote.pane = p
In(phase) == InPane("remote") /\ remote.phase = phase

TextInputActive ==
    \/ InPane("local") /\ picker.filtering
    \/ InPane("remote") /\ remote.phase \in {"entry", "search"}

TabOrder == (IF wizard.edit THEN <<>> ELSE <<"name">>)
         \o (IF wizard.second = "skip" THEN <<>> ELSE <<"repos">>) \o <<"options">>

SwitchTo(t) ==
    /\ wizard' = [wizard EXCEPT !.tab = t]
    /\ UNCHANGED <<config, local, mode, picker, remote, asking, clone>>

PrevTab == /\ mode = "wizard" /\ ~TextInputActive
           /\ \E i \in 2..Len(TabOrder) : wizard.tab = TabOrder[i] /\ SwitchTo(TabOrder[i - 1])

NextTab == /\ mode = "wizard" /\ ~TextInputActive
           /\ InTab("name") => wizard.valid
           /\ \E i \in 2..Len(TabOrder) : wizard.tab = TabOrder[i - 1] /\ SwitchTo(TabOrder[i])

TypeName ==
    /\ InTab("name") /\ wizard' \in {[wizard EXCEPT !.valid = v] : v \in BOOLEAN}
    /\ UNCHANGED <<config, local, mode, picker, remote, asking, clone>>

\* Enter moves on from the name, and submits everywhere else.
EnterName == /\ InTab("name") /\ wizard.valid
             /\ IF wizard.second = "skip" THEN Leave ELSE SwitchTo("repos")

EnterForm == InTab("options") \/ (InTab("repos") /\ wizard.second = "form")
EnterLocal == InPane("local") /\ ~picker.filtering
Submit == (EnterForm \/ EnterLocal) /\ Leave

--------------------------------------------------------------------------------
(* The Local tab: sets first, then every repo of the repos directory.           *)

Items      == SetNames \cup picker.listed
SearchText == picker.filter
Visible    == IF SearchText = Empty THEN Items ELSE Items \cap Matching[SearchText]

SetPicker(p) ==
    /\ picker' = p
    /\ UNCHANGED <<config, local, mode, wizard, remote, asking, clone>>

Complete(s, ticked) == Members[s] \subseteq ticked

\* Ticking a set ticks its members.  The other sets are compared with what was
\* ticked before: they stand before all repos in the list that is walked.
ToggleSet(s) ==
    LET on == s \notin picker.marked
        members == Members[s] \cap picker.listed
    IN  SetPicker([picker EXCEPT
            !.ticked = IF on THEN @ \cup members ELSE @ \ members,
            !.marked = (IF on THEN {s} ELSE {}) \cup {x \in SetNames \ {s} : Complete(x, picker.ticked)}])

\* Mutant: the sets of the repo are left as they are.
ToggleRepoAlone(r) ==
    SetPicker([picker EXCEPT !.ticked = IF r \in @ THEN @ \ {r} ELSE @ \cup {r}])

ToggleRepo(r) ==
    LET ticked == IF r \in picker.ticked THEN picker.ticked \ {r} ELSE picker.ticked \cup {r}
    IN  SetPicker([picker EXCEPT !.ticked = ticked,
                                 !.marked = {s \in SetNames : Complete(s, ticked)}])

Toggle == /\ InPane("local") /\ ~picker.filtering
          /\ \/ \E s \in SetNames \cap Visible : ToggleSet(s)
             \/ \E r \in picker.listed \cap Visible : ToggleRepo(r)

\* What Enter submits: the members of every set that is marked, and the repos.
SelectedRepos == picker.ticked \cup UNION {Members[s] : s \in picker.marked}

StartFilter ==
    /\ InPane("local") /\ ~picker.filtering
    /\ picker' = [picker EXCEPT !.filtering = TRUE]
    /\ remote' = [remote EXCEPT !.focus = @ \cup {"filter"}]
    /\ UNCHANGED <<config, local, mode, wizard, asking, clone>>

\* A text input takes a key only when it has the focus.
TypeFilter ==
    /\ InPane("local") /\ picker.filtering /\ "filter" \in remote.focus
    /\ \E f \in Filters \cup {Empty} : SetPicker([picker EXCEPT !.filter = f])

StopFilter ==
    /\ InPane("local") /\ picker.filtering
    /\ picker' = [picker EXCEPT !.filtering = FALSE]
    /\ remote' = [remote EXCEPT !.focus = @ \ {"filter"}]
    /\ UNCHANGED <<config, local, mode, wizard, asking, clone>>

--------------------------------------------------------------------------------
(* Local or Remote.                                                             *)

InputOf(phase) == CASE phase = "select" -> {} [] phase = "entry" -> {"entry"} [] phase = "search" -> {"query"}

\* Mutant: a filter that is being typed is not focused again.
ToLocalBlurred(r, p) == [r EXCEPT !.pane = "local", !.focus = @ \ {"entry", "query"}]

ToLocal(r, p) == [r EXCEPT !.pane = "local",
                           !.focus = (@ \ {"entry", "query"}) \cup (IF p.filtering THEN {"filter"} ELSE {})]
ToRemote(r)   == [r EXCEPT !.pane = "remote", !.focus = (@ \ {"filter"}) \cup InputOf(r.phase)]

SetRemote(r) ==
    /\ remote' = r
    /\ UNCHANGED <<config, local, mode, wizard, picker, asking, clone>>

SwitchPane == \/ InPane("local")  /\ SetRemote(ToRemote(remote))
              \/ InPane("remote") /\ SetRemote(ToLocal(remote, picker))

--------------------------------------------------------------------------------
(* The Remote tab.  Results and query outlive the org they were found in.       *)

EnterSearch(org) ==
    SetRemote([remote EXCEPT !.org = org, !.phase = "search", !.focus = (@ \ InputOf(remote.phase)) \cup {"query"}])

SelectOrg   == In("select") /\ \E o \in orgs : EnterSearch(o)
SelectOther == In("select") /\ SetRemote([remote EXCEPT !.phase = "entry", !.focus = @ \cup {"entry"}])

\* The name of the organization is typed, if the field takes keys, and entered.
EnterOrg == In("entry") /\ "entry" \in remote.focus /\ \E o \in OtherOrgs : EnterSearch(o)

\* Typing asks for a search unless the text is gone: then the results go too,
\* but the search that is under way is still the newest.
TypeQuery ==
    /\ In("search") /\ "query" \in remote.focus
    /\ \E q \in (Queries \cup {Empty}) \ {remote.query} :
         IF q # Empty
           THEN /\ gen < MaxGen /\ gen' = gen + 1 /\ timers' = timers \cup {gen'}
                /\ remote' = [remote EXCEPT !.query = q]
           ELSE /\ remote' = [remote EXCEPT !.query = q, !.shown = None]
                /\ UNCHANGED <<gen, timers>>
    /\ UNCHANGED <<config, local, mode, wizard, picker, searches, clone>>

Results == IF remote.shown = None THEN {} ELSE Found[remote.shown.org][remote.shown.query]

\* Enter on a result clones it unless a repo of that name is there.  Until the
\* clone is done no key has an effect.
CloneRemote ==
    /\ In("search")
    /\ \E r \in Results \ local : clone' = [org |-> remote.org, repo |-> r]
    /\ mode' = "clone"
    /\ UNCHANGED <<config, local, wizard, picker, remote, asking>>

--------------------------------------------------------------------------------
(* Esc backs out one thing at a time.                                           *)

EscLocal ==
    /\ InPane("local") /\ ~picker.filtering
    /\ IF picker.filter # Empty THEN SetPicker([picker EXCEPT !.filter = Empty]) ELSE Leave

Back == IF orgs = {} THEN "entry" ELSE "select"

EscSearch ==
    /\ In("search")
    /\ SetRemote([remote EXCEPT !.phase = Back, !.shown = None, !.focus = (@ \ {"query"}) \cup InputOf(Back)])

\* Mutant: Esc takes the focus from the field and stays.
EscEntryStays ==
    /\ In("entry")
    /\ IF orgs = {} THEN Leave ELSE SetRemote([remote EXCEPT !.focus = @ \ {"entry"}])

EscEntry ==
    /\ In("entry")
    /\ IF orgs = {} THEN Leave ELSE SetRemote([remote EXCEPT !.phase = "select", !.focus = @ \ {"entry"}])

EscElsewhere ==
    /\ mode = "wizard" /\ (InTab("repos") /\ wizard.second = "picker" => In("select"))
    /\ Leave

Esc == StopFilter \/ EscLocal \/ EscSearch \/ EscEntry \/ EscElsewhere

--------------------------------------------------------------------------------
(* Answers from the background.  They find whatever wizard is open by then.     *)

\* Mutant: any answer is welcome.
CurrentAny(g) == picker # None

Current(g) == picker # None /\ g = gen

\* The org and the text are those of now, not those of the key that set the timer.
Debounce(g) ==
    /\ g \in timers /\ timers' = timers \ {g}
    /\ IF Current(g)
         THEN searches' = searches \cup {[gen |-> g, org |-> remote.org, query |-> remote.query]}
         ELSE UNCHANGED searches
    /\ UNCHANGED <<config, local, mode, wizard, picker, remote, gen, clone>>

SearchDone(s) ==
    /\ s \in searches /\ searches' = searches \ {s}
    /\ IF Current(s.gen)
         THEN \E shown \in {s, None} : remote' = [remote EXCEPT !.shown = shown]
         ELSE UNCHANGED remote
    /\ UNCHANGED <<config, local, mode, wizard, picker, gen, timers, clone>>

Excluded == IF wizard.edit THEN Present ELSE {}

CloneEnds(ok) ==
    /\ clone # None /\ clone' = None
    /\ local' = IF ok THEN local \cup {clone.repo} ELSE local
    /\ UNCHANGED <<config, wizard, asking>>

\* Mutant: a clone that has failed falls through to the list of tasks.
CloneDoneForgets(ok) ==
    /\ CloneEnds(ok)
    /\ mode' = IF ok THEN "wizard" ELSE "elsewhere"
    /\ UNCHANGED <<picker, remote>>

\* A clone that has succeeded leads to the Local tab, with a list made anew: the
\* ticks and the filter are gone.
CloneDone(ok) ==
    /\ CloneEnds(ok)
    /\ mode' = IF picker # None THEN "wizard" ELSE "elsewhere"
    /\ IF ok /\ picker # None
         THEN /\ picker' = NewPicker(local' \ Excluded)
              /\ remote' = ToLocal([remote EXCEPT !.focus = @ \ {"filter"}], picker')
         ELSE UNCHANGED <<picker, remote>>

--------------------------------------------------------------------------------
\* The keys, and what the background does.
Key ==
    \/ OpenCreate \/ OpenEdit \/ PrevTab \/ NextTab \/ TypeName \/ EnterName \/ Submit
    \/ Toggle \/ StartFilter \/ TypeFilter \/ SwitchPane
    \/ SelectOrg \/ SelectOther \/ EnterOrg \/ TypeQuery \/ CloneRemote
    \/ Esc

Next ==
    \/ Key
    \/ \E g \in 1..MaxGen : Debounce(g)
    \/ \E s \in Search : SearchDone(s)
    \/ \E ok \in BOOLEAN : CloneDone(ok)

Spec == Init /\ [][Next]_vars

\* A clone comes to an end.  Nothing is assumed of the human or of a search.
FairSpec == Spec /\ WF_vars(\E ok \in BOOLEAN : CloneDone(ok))

--------------------------------------------------------------------------------
(* Properties.                                                                  *)

\* The text input that takes the keys has the focus: the five handlers that move
\* between tabs, panes and phases hand it on, or a field would be dead.
KeysFollowFocus ==
    picker # None =>
        /\ remote.pane = "local" /\ picker.filtering => "filter" \in remote.focus
        /\ remote.pane = "remote" => InputOf(remote.phase) \subseteq remote.focus

\* The wizard and its picker are there while they are shown or waited for, and a
\* clone is waited for as long as it runs.
Held ==
    /\ mode = "elsewhere" <=> wizard = None
    /\ picker # None <=> remote # None
    /\ picker # None <=> wizard # None /\ wizard.second = "picker"
    /\ mode = "clone" <=> clone # None
    /\ mode = "clone" => picker # None

\* No tab behind the name is reached with a name that is refused.
NameChecked == wizard # None /\ wizard.tab # "name" => wizard.valid

\* Only what is listed is ticked, and no search is ahead of the counter.
Within ==
    /\ picker # None => picker.ticked \subseteq picker.listed /\ picker.listed \subseteq local
    /\ timers \subseteq 1..gen
    /\ \A s \in searches : s.gen <= gen
    /\ remote # None /\ remote.shown # None => remote.shown.gen <= gen

\* Texts are searched for, and repos cloned, in an organization that was chosen.
OrgChosen == remote # None /\ remote.phase = "search" => remote.org # None

\* Whatever is open is open as a whole, and can be typed into.
IInv == TypeOK /\ Held /\ KeysFollowFocus /\ NameChecked /\ Within /\ OrgChosen

\* Esc never gets stuck: it closes the wizard or undoes one of the few things
\* (a filter being typed, a filter, a phase of the Remote tab) that keep it open.
One(b) == IF b THEN 1 ELSE 0
Depth ==
    IF ~InTab("repos") \/ picker = None THEN 0
    ELSE IF remote.pane = "local" THEN One(picker.filtering) + One(picker.filter # Empty)
    ELSE One(remote.phase = "search") + One(remote.phase = "entry" /\ orgs # {})
EscBacksOut == [][Esc => wizard' = None \/ Depth' < Depth]_vars

\* The results on the screen are never replaced by those of an earlier search,
\* however late its answer comes.
NewestShown ==
    [][remote # None /\ remote' # None =>
          (remote.shown # None /\ remote'.shown # None => remote'.shown.gen >= remote.shown.gen)]_vars

\* Ticking a single repo, whatever has been ticked before, leaves selected what
\* is seen to be ticked.  Ticking a set does not: see the README.
SelectionIsTicked == picker # None => SelectedRepos = picker.ticked
RepoToggleRepairs ==
    [][InPane("local") /\ (\E r \in picker.listed : ToggleRepo(r)) => SelectionIsTicked']_vars

\* Every clone gives the keyboard back.
CloneReturns == clone # None ~> mode = "wizard"
================================================================================
