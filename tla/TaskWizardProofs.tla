---------------------------- MODULE TaskWizardProofs ----------------------------
(* Theorems about TaskWizard, for any repos, sets, organizations and texts, and *)
(* any number of searches.                                                      *)
EXTENDS TaskWizard, TLAPS

USE WizardAssumption, NoneAssumption

--------------------------------------------------------------------------------
(* A picker with its Remote tab.                                                *)

\* What is ticked is listed, the field that takes the keys has the focus, and a
\* search has an organization.
Tidy(p, r) ==
    /\ p \in Picker /\ r \in Remote /\ p.ticked \subseteq p.listed
    /\ r.pane = "local" /\ p.filtering => "filter" \in r.focus
    /\ r.pane = "remote" => InputOf(r.phase) \subseteq r.focus
    /\ r.phase = "search" => r.org # None

\* The parts of the invariant that are about the wizard that is open.
Whole ==
    /\ Held /\ mode \in {"elsewhere", "wizard", "clone"}
    /\ wizard \in Wizard \cup {None} /\ NameChecked
    /\ local \subseteq Repos
    /\ picker = None \/ (Tidy(picker, remote) /\ picker.listed \subseteq local)

\* ... and those about the searches and the clone.
Asked ==
    /\ strategy \in {"multi", "single", "none"} /\ orgs \subseteq Orgs
    /\ gen \in 0..MaxGen /\ timers \subseteq 1..MaxGen /\ searches \subseteq Search
    /\ timers \subseteq 1..gen
    /\ \A s \in searches : s.gen <= gen
    /\ remote # None /\ remote.shown # None => remote.shown.gen <= gen
    /\ clone \in Clone \cup {None}

\* The invariant is both of these.
LEMMA Parts == IInv <=> Whole /\ Asked
<1>1. ASSUME IInv PROVE Whole /\ Asked
  <2>1. ASSUME picker # None PROVE picker \in Picker /\ remote \in Remote /\ remote # None
    BY <1>1, <2>1 DEF IInv, TypeOK, Held
  <2> QED BY <1>1, <2>1 DEF IInv, TypeOK, Held, KeysFollowFocus, NameChecked, Within, OrgChosen, Whole, Asked, Tidy
<1>2. ASSUME Whole, Asked PROVE IInv
  <2>1. picker = None <=> remote = None
    BY <1>2 DEF Whole, Held
  <2>2. TypeOK
    BY <1>2, <2>1 DEF Whole, Asked, Tidy, TypeOK
  <2>3. KeysFollowFocus /\ OrgChosen
    BY <1>2, <2>1 DEF Whole, Tidy, KeysFollowFocus, OrgChosen
  <2> QED BY <1>2, <2>1, <2>2, <2>3 DEF Whole, Asked, Tidy, IInv, Within
<1> QED BY <1>1, <1>2

\* The fields of a picker and of a Remote tab.
LEMMA Fields ==
    ASSUME NEW p \in Picker, NEW r \in Remote
    PROVE  /\ p.listed \subseteq Repos /\ p.ticked \subseteq Repos /\ p.marked \subseteq SetNames
           /\ p.filter \in Filters \cup {Empty} /\ p.filtering \in BOOLEAN
           /\ r.pane \in {"local", "remote"} /\ r.phase \in {"select", "entry", "search"}
           /\ r.org \in AllOrgs \cup {None} /\ r.query \in Queries \cup {Empty}
           /\ r.shown \in Search \cup {None} /\ r.focus \subseteq {"filter", "entry", "query"}
BY DEF Picker, Remote

\* The tabs that follow the first one are not for the name.
LEMMA Tabs ==
    /\ \A i \in 2..Len(TabOrder) : TabOrder[i] \in {"repos", "options"}
    /\ \A i \in 2..Len(TabOrder) : TabOrder[i - 1] \in {"name", "repos"}
<1> DEFINE front  == IF wizard.edit THEN <<>> ELSE <<"name">>
           middle == IF wizard.second = "skip" THEN <<>> ELSE <<"repos">>
<1>1. front \in Seq({"name"}) /\ Len(front) <= 1 /\ middle \in Seq({"repos"}) /\ Len(middle) <= 1
  <2>1. /\ <<"name">> \in Seq({"name"}) /\ Len(<<"name">>) = 1
        /\ <<"repos">> \in Seq({"repos"}) /\ Len(<<"repos">>) = 1
    OBVIOUS
  <2>2. /\ <<>> \in Seq({"name"}) /\ <<>> \in Seq({"repos"}) /\ Len(<<>>) = 0
    OBVIOUS
  <2>3. (front = <<>> \/ front = <<"name">>) /\ (middle = <<>> \/ middle = <<"repos">>)
    OBVIOUS
  <2> HIDE DEF front, middle
  <2>4. front \in Seq({"name"}) /\ Len(front) <= 1
    <3>1. CASE front = <<>>
      BY <2>2, <3>1
    <3>2. CASE front = <<"name">>
      BY <2>1, <3>2
    <3> QED BY <2>3, <3>1, <3>2
  <2>5. middle \in Seq({"repos"}) /\ Len(middle) <= 1
    <3>1. CASE middle = <<>>
      BY <2>2, <3>1
    <3>2. CASE middle = <<"repos">>
      BY <2>1, <3>2
    <3> QED BY <2>3, <3>1, <3>2
  <2> QED BY <2>4, <2>5
<1>2. TabOrder = front \o middle \o <<"options">>
  BY DEF TabOrder
<1> HIDE DEF front, middle
<1>3. /\ front \o middle \in Seq({"name", "repos"}) /\ Len(front \o middle) = Len(front) + Len(middle)
      /\ \A i \in 1..Len(front \o middle) : i > 1 => (front \o middle)[i] = "repos"
  BY <1>1
<1> DEFINE two == front \o middle
<1> HIDE DEF two
<1>4. /\ two \in Seq({"name", "repos"}) /\ \A i \in 1..Len(two) : i > 1 => two[i] = "repos"
      /\ TabOrder = two \o <<"options">>
  BY <1>2, <1>3 DEF two
<1>5. /\ Len(TabOrder) = Len(two) + 1
      /\ \A i \in 1..Len(two) : TabOrder[i] = two[i]
      /\ TabOrder[Len(two) + 1] = "options"
  BY <1>4
<1>6. ASSUME NEW i \in 2..Len(TabOrder)
      PROVE  TabOrder[i] \in {"repos", "options"} /\ TabOrder[i - 1] \in {"name", "repos"}
  BY <1>4, <1>5
<1> QED BY <1>6

--------------------------------------------------------------------------------
(* The steps, by what they change.                                              *)

\* The wizard moves to a tab, or the name is judged anew.
Tabbed ==
    /\ mode = "wizard" /\ UNCHANGED <<config, local, mode, picker, remote, asking, clone>>
    /\ \E tab \in {"name", "repos", "options"}, valid \in BOOLEAN :
         /\ tab # "name" => valid
         /\ wizard' = [wizard EXCEPT !.tab = tab, !.valid = valid]

\* Keys and answers change the picker and its Remote tab, which show no other results.
Turned ==
    /\ picker # None /\ UNCHANGED <<config, local, mode, wizard, clone>>
    /\ Tidy(picker', remote') /\ picker'.listed = picker.listed
Moved == Turned /\ mode = "wizard" /\ UNCHANGED asking /\ remote'.shown \in {remote.shown, None}

\* What is open while the repo picker is.
LEMMA PickerOpen ==
    ASSUME Whole, InTab("repos"), wizard.second = "picker"
    PROVE  /\ mode = "wizard" /\ picker # None /\ remote # None /\ Tidy(picker, remote)
           /\ picker \in Picker /\ remote \in Remote /\ clone = None
BY DEF Whole, Held, InTab, Tidy

\* Keys that only change the picker, or only the Remote tab.
LEMMA PickerMoves ==
    ASSUME Whole, InTab("repos"), wizard.second = "picker", NEW p, SetPicker(p), Tidy(p, remote),
           p.listed = picker.listed
    PROVE  Moved
BY PickerOpen DEF SetPicker, Turned, Moved

\* Keys that only change the Remote tab.
LEMMA RemoteMoves ==
    ASSUME Whole, InTab("repos"), wizard.second = "picker", NEW r, SetRemote(r), Tidy(picker, r),
           r.shown \in {remote.shown, None}
    PROVE  Moved
BY PickerOpen DEF SetRemote, Turned, Moved

\* Keys that go from tab to tab or change the name.
LEMMA TabSteps ==
    ASSUME Whole, PrevTab \/ NextTab \/ TypeName \/ (EnterName /\ wizard.second # "skip")
    PROVE  Tabbed
<1>1. ASSUME mode = "wizard" PROVE wizard \in Wizard /\ (wizard.tab # "name" => wizard.valid)
  BY <1>1 DEF Whole, Held, NameChecked
<1>2. ASSUME mode = "wizard", NEW t \in {"name", "repos", "options"}, SwitchTo(t), wizard.valid
      PROVE  Tabbed
  <2>1. wizard \in Wizard /\ wizard.valid \in BOOLEAN
    BY <1>1, <1>2 DEF Wizard
  <2>2. [wizard EXCEPT !.tab = t] = [wizard EXCEPT !.tab = t, !.valid = wizard.valid]
    BY <1>2, <2>1 DEF Wizard
  <2> QED BY <1>2, <2>1, <2>2 DEF SwitchTo, Tabbed
<1>3. CASE PrevTab
  BY <1>1, <1>2, <1>3, Tabs DEF PrevTab
<1>4. CASE NextTab
  BY <1>1, <1>2, <1>4, Tabs DEF NextTab, InTab
<1>5. CASE TypeName
  <2>1. PICK v \in BOOLEAN : wizard' = [wizard EXCEPT !.valid = v]
    BY <1>5 DEF TypeName
  <2>2. wizard \in Wizard /\ wizard.tab = "name" /\ mode = "wizard"
    BY <1>1, <1>5 DEF TypeName, InTab
  <2>3. [wizard EXCEPT !.valid = v] = [wizard EXCEPT !.tab = "name", !.valid = v]
    BY <2>2 DEF Wizard
  <2> QED BY <1>5, <2>1, <2>2, <2>3 DEF TypeName, Tabbed
<1>6. CASE EnterName /\ wizard.second # "skip"
  BY <1>2, <1>6 DEF EnterName, InTab
<1> QED BY <1>3, <1>4, <1>5, <1>6

\* Keys of the Local pane.
LEMMA PickerSteps ==
    ASSUME Whole, Toggle \/ TypeFilter \/ StartFilter \/ StopFilter
    PROVE  Moved
<1>0. InTab("repos") /\ wizard.second = "picker"
  BY DEF Toggle, TypeFilter, StartFilter, StopFilter, InPane
<1>1. /\ picker \in Picker /\ remote \in Remote /\ Tidy(picker, remote) /\ mode = "wizard"
      /\ picker # None
  BY <1>0, PickerOpen
<1>2. CASE Toggle
  <2>1. ASSUME NEW s \in SetNames, ToggleSet(s) PROVE Moved
    <3> DEFINE members == Members[s] \cap picker.listed
               ticked == IF s \notin picker.marked THEN picker.ticked \cup members ELSE picker.ticked \ members
               marked == (IF s \notin picker.marked THEN {s} ELSE {})
                           \cup {x \in SetNames \ {s} : Complete(x, picker.ticked)}
               p == [picker EXCEPT !.ticked = ticked, !.marked = marked]
    <3>1. SetPicker(p)
      BY <1>1, <2>1 DEF ToggleSet, Picker
    <3>2. ticked \subseteq picker.listed /\ marked \subseteq SetNames
      BY <1>1 DEF Tidy
    <3> HIDE DEF ticked, marked
    <3>3. Tidy(p, remote) /\ p.listed = picker.listed
      BY <1>1, <3>2 DEF Tidy, Picker
    <3> QED BY <1>0, <3>1, <3>3, PickerMoves
  <2>2. ASSUME NEW r \in picker.listed, ToggleRepo(r) PROVE Moved
    <3> DEFINE ticked == IF r \in picker.ticked THEN picker.ticked \ {r} ELSE picker.ticked \cup {r}
               marked == {s \in SetNames : Complete(s, ticked)}
               p == [picker EXCEPT !.ticked = ticked, !.marked = marked]
    <3>1. SetPicker(p)
      BY <2>2 DEF ToggleRepo
    <3>2. ticked \subseteq picker.listed /\ marked \subseteq SetNames
      BY <1>1 DEF Tidy
    <3> HIDE DEF ticked, marked
    <3>3. Tidy(p, remote) /\ p.listed = picker.listed
      BY <1>1, <3>2 DEF Tidy, Picker
    <3> QED BY <1>0, <3>1, <3>3, PickerMoves
  <2> QED BY <1>2, <2>1, <2>2 DEF Toggle
<1>3. CASE TypeFilter
  <2>1. PICK f \in Filters \cup {Empty} : SetPicker([picker EXCEPT !.filter = f])
    BY <1>3 DEF TypeFilter
  <2>2. Tidy([picker EXCEPT !.filter = f], remote) /\ [picker EXCEPT !.filter = f].listed = picker.listed
    BY <1>1 DEF Tidy, Picker
  <2> QED BY <1>0, <2>1, <2>2, PickerMoves
<1>4. CASE StartFilter \/ StopFilter
  <2>1. PICK b \in BOOLEAN, focus \in SUBSET {"filter", "entry", "query"} :
           /\ picker' = [picker EXCEPT !.filtering = b] /\ remote' = [remote EXCEPT !.focus = focus]
           /\ b => "filter" \in focus
           /\ remote.pane = "local" /\ UNCHANGED <<config, local, mode, wizard, asking, clone>>
    <3>1. CASE StartFilter
      <4>1. /\ picker' = [picker EXCEPT !.filtering = TRUE]
            /\ remote' = [remote EXCEPT !.focus = remote.focus \cup {"filter"}]
            /\ remote.focus \cup {"filter"} \in SUBSET {"filter", "entry", "query"}
        BY <1>1, <3>1 DEF StartFilter, Remote
      <4> QED BY <3>1, <4>1 DEF StartFilter, InPane
    <3>2. CASE StopFilter
      <4>1. /\ picker' = [picker EXCEPT !.filtering = FALSE]
            /\ remote' = [remote EXCEPT !.focus = remote.focus \ {"filter"}]
            /\ remote.focus \ {"filter"} \in SUBSET {"filter", "entry", "query"}
        BY <1>1, <3>2 DEF StopFilter, Remote
      <4> QED BY <3>2, <4>1 DEF StopFilter, InPane
    <3> QED BY <1>4, <3>1, <3>2
  <2>2. /\ Tidy(picker', remote') /\ picker'.listed = picker.listed /\ remote'.shown = remote.shown
    BY <1>1, <2>1 DEF Tidy, Picker, Remote
  <2> QED BY <1>1, <2>1, <2>2 DEF Turned, Moved
<1> QED BY <1>2, <1>3, <1>4

\* Keys of the Remote pane.
LEMMA RemoteSteps ==
    ASSUME Whole, orgs \subseteq Orgs,
           \/ SwitchPane \/ SelectOrg \/ SelectOther \/ EnterOrg \/ EscSearch
           \/ (EscEntry /\ orgs # {}) \/ (EscLocal /\ picker.filter # Empty)
    PROVE  Moved
<1>0. InTab("repos") /\ wizard.second = "picker"
  BY DEF SwitchPane, SelectOrg, SelectOther, EnterOrg, EscSearch, EscEntry, EscLocal, In, InPane
<1>1. picker \in Picker /\ remote \in Remote /\ Tidy(picker, remote)
  BY <1>0, PickerOpen
<1>i. \A x \in {"select", "entry", "search"} : InputOf(x) \subseteq {"entry", "query"}
  BY DEF InputOf
<1>2. CASE SwitchPane
  <2>1. Tidy(picker, ToRemote(remote)) /\ ToRemote(remote).shown = remote.shown
    BY <1>1, <1>i DEF Tidy, ToRemote, Remote
  <2>2. Tidy(picker, ToLocal(remote, picker)) /\ ToLocal(remote, picker).shown = remote.shown
    <3> DEFINE focus == (remote.focus \ {"entry", "query"}) \cup (IF picker.filtering THEN {"filter"} ELSE {})
    <3>1. ToLocal(remote, picker) = [remote EXCEPT !.pane = "local", !.focus = focus]
      BY <1>1 DEF ToLocal, Remote
    <3>2. focus \in SUBSET {"filter", "entry", "query"} /\ (picker.filtering => "filter" \in focus)
      BY <1>1 DEF Remote
    <3> HIDE DEF focus
    <3> DEFINE r == [remote EXCEPT !.pane = "local", !.focus = focus]
    <3>3. /\ r \in Remote /\ r.pane = "local" /\ r.focus = focus /\ r.phase = remote.phase
          /\ r.org = remote.org /\ r.shown = remote.shown
      BY <1>1, <3>2 DEF Remote
    <3> HIDE DEF r
    <3> QED BY <1>1, <3>1, <3>2, <3>3 DEF Tidy, r
  <2> QED BY <1>0, <1>2, <2>1, <2>2, RemoteMoves DEF SwitchPane
<1>3. ASSUME remote.pane = "remote", NEW x \in {"select", "entry", "search"}, NEW o \in AllOrgs \cup {None},
             NEW sh \in {remote.shown, None}, NEW fo \in SUBSET {"filter", "entry", "query"},
             InputOf(x) \subseteq fo, x = "search" => o # None,
             SetRemote([remote EXCEPT !.org = o, !.phase = x, !.shown = sh, !.focus = fo])
      PROVE  Moved
  <2> DEFINE r == [remote EXCEPT !.org = o, !.phase = x, !.shown = sh, !.focus = fo]
  <2>1. Tidy(picker, r) /\ r.shown = sh
    BY <1>1, <1>3 DEF Tidy, Remote
  <2> HIDE DEF r
  <2> QED BY <1>0, <1>3, <2>1, RemoteMoves DEF r
<1>4. \A x \in {"select", "entry", "search"} :
         /\ remote.focus \cup InputOf(x) \in SUBSET {"filter", "entry", "query"}
         /\ (remote.focus \ InputOf(remote.phase)) \cup InputOf(x) \in SUBSET {"filter", "entry", "query"}
         /\ (remote.focus \ {"query"}) \cup InputOf(x) \in SUBSET {"filter", "entry", "query"}
  BY <1>1, <1>i DEF Remote
<1>5. ASSUME NEW o \in AllOrgs, EnterSearch(o), remote.pane = "remote" PROVE Moved
  <2> DEFINE fo == (remote.focus \ InputOf(remote.phase)) \cup {"query"}
  <2>1. /\ [remote EXCEPT !.org = o, !.phase = "search", !.focus = fo]
              = [remote EXCEPT !.org = o, !.phase = "search", !.shown = remote.shown, !.focus = fo]
        /\ SetRemote([remote EXCEPT !.org = o, !.phase = "search", !.focus = fo])
    BY <1>1, <1>5 DEF Remote, EnterSearch
  <2>2. InputOf("search") = {"query"}
    BY DEF InputOf
  <2>3. fo \in SUBSET {"filter", "entry", "query"} /\ InputOf("search") \subseteq fo
    BY <1>4, <2>2
  <2>4. o # None
    BY DEF AllOrgs
  <2> HIDE DEF fo
  <2> QED BY <1>3, <1>5, <2>1, <2>3, <2>4
<1>6. CASE SelectOrg \/ EnterOrg
  BY <1>5, <1>6 DEF SelectOrg, EnterOrg, In, InPane, AllOrgs
<1>7. CASE SelectOther
  <2> DEFINE fo == remote.focus \cup {"entry"}
  <2>1. /\ [remote EXCEPT !.phase = "entry", !.focus = fo]
              = [remote EXCEPT !.org = remote.org, !.phase = "entry", !.shown = remote.shown, !.focus = fo]
        /\ SetRemote([remote EXCEPT !.phase = "entry", !.focus = fo])
        /\ remote.pane = "remote" /\ remote.org \in AllOrgs \cup {None}
    BY <1>1, <1>7 DEF Remote, SelectOther, In, InPane
  <2>2. InputOf("entry") = {"entry"}
    BY DEF InputOf
  <2>3. fo \in SUBSET {"filter", "entry", "query"} /\ InputOf("entry") \subseteq fo
    BY <1>4, <2>2
  <2> HIDE DEF fo
  <2> QED BY <1>3, <2>1, <2>3
<1>8. CASE EscSearch
  <2> DEFINE fo == (remote.focus \ {"query"}) \cup InputOf(Back)
  <2>1. /\ [remote EXCEPT !.phase = Back, !.shown = None, !.focus = fo]
              = [remote EXCEPT !.org = remote.org, !.phase = Back, !.shown = None, !.focus = fo]
        /\ SetRemote([remote EXCEPT !.phase = Back, !.shown = None, !.focus = fo])
        /\ remote.pane = "remote" /\ remote.org \in AllOrgs \cup {None}
    BY <1>1, <1>8 DEF Remote, EscSearch, In, InPane
  <2>2. Back \in {"entry", "select"}
    BY DEF Back
  <2>3. fo \in SUBSET {"filter", "entry", "query"} /\ InputOf(Back) \subseteq fo
    BY <1>4, <2>2
  <2> HIDE DEF fo
  <2> QED BY <1>3, <2>1, <2>2, <2>3
<1>9. CASE EscEntry /\ orgs # {}
  <2> DEFINE fo == remote.focus \ {"entry"}
  <2>1. /\ [remote EXCEPT !.phase = "select", !.focus = fo]
              = [remote EXCEPT !.org = remote.org, !.phase = "select", !.shown = remote.shown, !.focus = fo]
        /\ SetRemote([remote EXCEPT !.phase = "select", !.focus = fo])
        /\ remote.pane = "remote" /\ remote.org \in AllOrgs \cup {None}
        /\ fo \in SUBSET {"filter", "entry", "query"}
    BY <1>1, <1>9 DEF Remote, EscEntry, In, InPane
  <2>2. InputOf("select") = {}
    BY DEF InputOf
  <2> HIDE DEF fo
  <2> QED BY <1>3, <2>1, <2>2
<1>10. CASE EscLocal /\ picker.filter # Empty
  <2>1. SetPicker([picker EXCEPT !.filter = Empty])
    BY <1>10 DEF EscLocal
  <2>2. Tidy([picker EXCEPT !.filter = Empty], remote) /\ [picker EXCEPT !.filter = Empty].listed = picker.listed
    BY <1>1 DEF Tidy, Picker
  <2> QED BY <1>0, <2>1, <2>2, PickerMoves
<1> QED BY <1>2, <1>6, <1>7, <1>8, <1>9, <1>10

\* What is left opens or leaves the wizard, or has to do with the background.
LEMMA Steps ==
    ASSUME IInv, [Next]_vars
    PROVE  \/ UNCHANGED vars \/ Tabbed \/ Moved
           \/ \E w \in Wizard : Open(w) /\ (w.tab # "name" => w.valid)
           \/ mode = "wizard" /\ Leave
           \/ TypeQuery \/ CloneRemote
           \/ \E g \in 1..MaxGen : Debounce(g)
           \/ \E s \in Search : SearchDone(s)
           \/ \E ok \in BOOLEAN : CloneDone(ok)
<1>0. Whole /\ orgs \subseteq Orgs
  BY Parts DEF Asked
<1>1. CASE OpenCreate \/ OpenEdit
  <2>1. PICK s, w :
           /\ s \in {"picker", "form", "skip"} /\ Open(w)
           /\ \/ w = [edit |-> FALSE, second |-> s, tab |-> "name", valid |-> FALSE]
              \/ w = [edit |-> TRUE, second |-> s, tab |-> "repos", valid |-> TRUE]
              \/ w = [edit |-> TRUE, second |-> s, tab |-> "options", valid |-> TRUE]
    <3>1. SecondTabs \subseteq {"picker", "form", "skip"}
      BY <1>0 DEF SecondTabs, IInv, TypeOK
    <3> QED BY <1>1, <3>1 DEF OpenCreate, OpenEdit
  <2> DEFINE create == [edit |-> FALSE, second |-> s, tab |-> "name", valid |-> FALSE]
             edit(tab) == [edit |-> TRUE, second |-> s, tab |-> tab, valid |-> TRUE]
  <2>a. create \in Wizard /\ create.tab = "name"
    BY <2>1 DEF Wizard
  <2>b. \A tab \in {"repos", "options"} : edit(tab) \in Wizard /\ edit(tab).valid
    BY <2>1 DEF Wizard
  <2>2. w \in Wizard /\ (w.tab # "name" => w.valid)
    BY <2>1, <2>a, <2>b
  <2> QED BY <2>1, <2>2
<1>2. CASE PrevTab \/ NextTab \/ TypeName \/ EnterName
  <2>1. CASE EnterName /\ wizard.second = "skip"
    BY <2>1 DEF EnterName, InTab
  <2> QED BY <1>0, <1>2, <2>1, TabSteps
<1>3. CASE Submit
  BY <1>3 DEF Submit, EnterForm, EnterLocal, InPane, InTab
<1>4. CASE Toggle \/ StartFilter \/ TypeFilter
  BY <1>0, <1>4, PickerSteps
<1>5. CASE SwitchPane \/ SelectOrg \/ SelectOther \/ EnterOrg
  BY <1>0, <1>5, RemoteSteps
<1>6. CASE Esc
  <2>1. CASE StopFilter
    BY <1>0, <2>1, PickerSteps
  <2>2. CASE EscLocal
    BY <1>0, <2>2, RemoteSteps DEF EscLocal, InPane, InTab
  <2>3. CASE EscSearch
    BY <1>0, <2>3, RemoteSteps
  <2>4. CASE EscEntry
    BY <1>0, <2>4, RemoteSteps DEF EscEntry, In, InPane, InTab
  <2>5. CASE EscElsewhere
    BY <2>5 DEF EscElsewhere
  <2> QED BY <1>6, <2>1, <2>2, <2>3, <2>4, <2>5 DEF Esc
<1> QED BY <1>1, <1>2, <1>3, <1>4, <1>5, <1>6 DEF Next, Key

--------------------------------------------------------------------------------
(* The answers.                                                                 *)

\* Typing a text or clearing it is a turn of the Remote tab.
LEMMA TypeQueryTurns ==
    ASSUME Whole, TypeQuery
    PROVE  Turned /\ remote'.shown \in {remote.shown, None} /\ mode = "wizard"
<1>0. InTab("repos") /\ wizard.second = "picker" /\ remote.pane = "remote"
  BY DEF TypeQuery, In, InPane
<1>1. picker \in Picker /\ remote \in Remote /\ Tidy(picker, remote) /\ picker # None /\ mode = "wizard"
  BY <1>0, PickerOpen
<1>2. PICK q \in Queries \cup {Empty} :
         remote' \in {[remote EXCEPT !.query = q], [remote EXCEPT !.query = q, !.shown = None]}
  BY DEF TypeQuery
<1>3. Tidy(picker, remote') /\ remote'.shown \in {remote.shown, None}
  <2>1. CASE remote' = [remote EXCEPT !.query = q]
    BY <1>1, <2>1 DEF Tidy, Remote
  <2>2. CASE remote' = [remote EXCEPT !.query = q, !.shown = None]
    BY <1>1, <2>2 DEF Tidy, Remote
  <2> QED BY <1>2, <2>1, <2>2
<1> QED BY <1>1, <1>3 DEF TypeQuery, Turned

\* So is an answer to the newest search.
LEMMA SearchDoneTurns ==
    ASSUME Whole, NEW s \in Search, SearchDone(s)
    PROVE  \/ picker = None /\ UNCHANGED <<config, local, mode, wizard, picker, remote, clone>>
           \/ /\ Turned
              /\ remote'.shown \in {remote.shown, None} \/ (remote'.shown = s /\ s.gen = gen)
<1>1. CASE picker = None
  BY <1>1 DEF SearchDone, Current
<1>2. CASE picker # None
  <2>1. Tidy(picker, remote) /\ picker \in Picker /\ remote \in Remote
    BY <1>2 DEF Whole, Tidy
  <2>2. CASE ~Current(s.gen)
    BY <1>2, <2>1, <2>2 DEF SearchDone, Turned
  <2>3. CASE Current(s.gen)
    <3>1. PICK shown \in {s, None} : remote' = [remote EXCEPT !.shown = shown]
      BY <2>3 DEF SearchDone
    <3>2. Tidy(picker, remote') /\ remote'.shown = shown
      BY <2>1, <3>1 DEF Tidy, Remote
    <3> QED BY <1>2, <2>3, <3>2 DEF SearchDone, Turned, Current
  <2> QED BY <2>2, <2>3
<1> QED BY <1>1, <1>2

\* A new picker with a new Remote tab is tidy, and so is one whose Remote tab is
\* left for the Local one.
LEMMA NewPickers ==
    ASSUME NEW repos \in SUBSET Repos
    PROVE  /\ Tidy(NewPicker(repos), NewRemote) /\ NewRemote.shown = None
           /\ NewPicker(repos).listed = repos
           /\ \A p \in Picker, r \in Remote : Tidy(p, r) =>
                 LET l == ToLocal([r EXCEPT !.focus = @ \ {"filter"}], NewPicker(repos))
                 IN  Tidy(NewPicker(repos), l) /\ l.shown = r.shown
<1>1. NewPicker(repos) \in Picker /\ ~NewPicker(repos).filtering /\ NewPicker(repos).listed = repos
      /\ NewPicker(repos).ticked = {}
  BY DEF NewPicker, Picker
<1>2. NewRemote \in Remote /\ NewRemote.pane = "local" /\ NewRemote.phase # "search" /\ NewRemote.shown = None
  BY DEF NewRemote, Remote
<1>3. ASSUME NEW p \in Picker, NEW r \in Remote, Tidy(p, r)
      PROVE  LET l == ToLocal([r EXCEPT !.focus = @ \ {"filter"}], NewPicker(repos))
             IN  Tidy(NewPicker(repos), l) /\ l.shown = r.shown
  <2> DEFINE q == NewPicker(repos)
             l == ToLocal([r EXCEPT !.focus = @ \ {"filter"}], q)
             focus == r.focus \ {"filter", "entry", "query"}
             k == [r EXCEPT !.pane = "local", !.focus = focus]
  <2> HIDE DEF q
  <2>1. l = k
    <3>1. [r EXCEPT !.focus = @ \ {"filter"}].focus = r.focus \ {"filter"}
      BY DEF Remote
    <3>2. ((r.focus \ {"filter"}) \ {"entry", "query"}) \cup (IF q.filtering THEN {"filter"} ELSE {}) = focus
      BY <1>1 DEF q
    <3> QED BY <3>1, <3>2 DEF ToLocal, Remote
  <2>2. focus \in SUBSET {"filter", "entry", "query"}
    BY DEF Remote
  <2> HIDE DEF focus, l
  <2>3. /\ k \in Remote /\ k.pane = "local" /\ k.phase = r.phase /\ k.org = r.org /\ k.shown = r.shown
    BY <2>2 DEF Remote
  <2> HIDE DEF k
  <2>4. Tidy(q, k)
    BY <1>1, <1>3, <2>3 DEF Tidy, q
  <2> QED BY <2>1, <2>3, <2>4 DEF l, q
<1> QED BY <1>1, <1>2, <1>3 DEF Tidy

--------------------------------------------------------------------------------
(* The invariant is kept.                                                       *)

\* What is open stays whole when a tab or a pane is turned.
LEMMA TurnedWhole == Whole /\ Turned => Whole'
<1> SUFFICES ASSUME Whole, Turned PROVE Whole'
  OBVIOUS
<1>1. picker' # None /\ remote' # None /\ remote # None
  BY DEF Turned, Tidy, Whole, Held
<1> QED BY <1>1 DEF Turned, Whole, Held, NameChecked

\* What GitHub finds are repos.
LEMMA FoundRepos == remote \in Remote => Results \subseteq Repos
<1> SUFFICES ASSUME remote \in Remote, remote.shown # None PROVE Found[remote.shown.org][remote.shown.query] \subseteq Repos
  BY DEF Results
<1>1. remote.shown \in Search
  BY DEF Remote
<1>2. remote.shown.org \in Orgs \cup OtherOrgs \cup {None} /\ remote.shown.query \in Queries \cup {Empty}
  BY <1>1 DEF Search, AllOrgs
<1> QED BY <1>2

\* Every step keeps what is open whole.
LEMMA StepWhole == IInv /\ [Next]_vars => Whole'
<1> SUFFICES ASSUME IInv, [Next]_vars PROVE Whole'
  OBVIOUS
<1>0. Whole
  BY Parts
<1>1. CASE UNCHANGED vars
  BY <1>0, <1>1 DEF vars, config, asking, Whole, Held, NameChecked, Tidy
<1>2. CASE Tabbed
  <2>1. wizard \in Wizard /\ wizard # None
    BY <1>0, <1>2 DEF Tabbed, Whole, Held
  <2>2. PICK tab \in {"name", "repos", "options"}, valid \in BOOLEAN :
          (tab # "name" => valid) /\ wizard' = [wizard EXCEPT !.tab = tab, !.valid = valid]
    BY <1>2 DEF Tabbed
  <2>3. /\ wizard' \in Wizard /\ wizard'.second = wizard.second
        /\ wizard'.tab # "name" => wizard'.valid
    BY <2>1, <2>2 DEF Wizard
  <2>4. wizard' # None
    BY <2>3
  <2> QED BY <1>0, <1>2, <2>1, <2>3, <2>4 DEF Tabbed, Whole, Held, NameChecked, Tidy
<1>3. CASE Moved
  BY <1>0, <1>3, TurnedWhole DEF Moved
<1>4. ASSUME NEW w \in Wizard, Open(w), w.tab # "name" => w.valid PROVE Whole'
  <2>1. w # None /\ wizard' = w /\ mode' = "wizard" /\ local' = local /\ clone' = clone /\ clone = None
    BY <1>0, <1>4 DEF Open, Whole, Held
  <2>2. CASE w.second = "picker"
    <3>1. picker' = NewPicker(local) /\ remote' = NewRemote
      BY <1>4, <2>2 DEF Open
    <3>2. Tidy(picker', remote') /\ picker'.listed = local
      BY <1>0, <3>1, NewPickers DEF Whole
    <3>3. picker' # None /\ remote' # None
      BY <3>2 DEF Tidy
    <3> QED BY <1>0, <1>4, <2>1, <2>2, <3>2, <3>3 DEF Whole, Held, NameChecked
  <2>3. CASE w.second # "picker"
    BY <1>0, <1>4, <2>1, <2>3 DEF Open, Whole, Held, NameChecked
  <2> QED BY <2>2, <2>3
<1>5. CASE mode = "wizard" /\ Leave
  BY <1>0, <1>5 DEF Leave, Whole, Held, NameChecked
<1>6. CASE TypeQuery
  BY <1>0, <1>6, TypeQueryTurns, TurnedWhole
<1>7. CASE CloneRemote
  <2>1. InTab("repos") /\ wizard.second = "picker" /\ remote.phase = "search"
    BY <1>7 DEF CloneRemote, In, InPane
  <2>2. picker # None /\ Tidy(picker, remote) /\ remote \in Remote /\ wizard # None
    BY <1>0, <2>1, PickerOpen DEF Whole, Held
  <2>3. PICK r \in Results \ local : clone' = [org |-> remote.org, repo |-> r]
    BY <1>7 DEF CloneRemote
  <2>4. r \in Repos
    BY <2>2, <2>3, FoundRepos
  <2>5. remote.org \in AllOrgs
    BY <2>1, <2>2 DEF Tidy, Remote
  <2>6. clone' \in Clone /\ clone' # None
    BY <2>3, <2>4, <2>5 DEF Clone
  <2> QED BY <1>0, <1>7, <2>1, <2>2, <2>6 DEF CloneRemote, Whole, Held, NameChecked
<1>8. ASSUME NEW g \in 1..MaxGen, Debounce(g) PROVE Whole'
  BY <1>0, <1>8 DEF Debounce, Whole, Held, NameChecked
<1>9. ASSUME NEW s \in Search, SearchDone(s) PROVE Whole'
  <2>1. CASE picker = None /\ UNCHANGED <<config, local, mode, wizard, picker, remote, clone>>
    BY <1>0, <2>1 DEF Whole, Held, NameChecked
  <2> QED BY <1>0, <1>9, <2>1, SearchDoneTurns, TurnedWhole
<1>10. ASSUME NEW ok \in BOOLEAN, CloneDone(ok) PROVE Whole'
  <2>1. clone # None /\ mode = "clone" /\ picker # None /\ wizard # None /\ wizard.second = "picker"
    BY <1>0, <1>10 DEF CloneDone, CloneEnds, Whole, Held
  <2>2. Tidy(picker, remote) /\ picker \in Picker /\ remote \in Remote /\ picker.listed \subseteq local
    BY <1>0, <2>1 DEF Whole, Tidy
  <2>3. clone \in Clone /\ clone.repo \in Repos
    BY <2>1 DEF IInv, TypeOK, Clone
  <2>4. clone' = None /\ local \subseteq local' /\ local' \subseteq Repos /\ mode' = "wizard" /\ wizard' = wizard
    BY <1>0, <1>10, <2>1, <2>3 DEF CloneDone, CloneEnds, Whole
  <2>5. Tidy(picker', remote') /\ picker'.listed \subseteq local'
    <3>1. CASE ok
      <4>1. /\ picker' = NewPicker(local' \ Excluded)
            /\ remote' = ToLocal([remote EXCEPT !.focus = @ \ {"filter"}], NewPicker(local' \ Excluded))
        BY <1>10, <2>1, <3>1 DEF CloneDone
      <4> QED BY <2>2, <2>4, <4>1, NewPickers
    <3>2. CASE ~ok
      BY <1>10, <2>2, <2>4, <3>2 DEF CloneDone
    <3> QED BY <3>1, <3>2
  <2>6. picker' # None /\ remote' # None
    BY <2>5 DEF Tidy
  <2> QED BY <1>0, <2>1, <2>4, <2>5, <2>6 DEF Whole, Held, NameChecked
<1> QED BY <1>1, <1>2, <1>3, <1>4, <1>5, <1>6, <1>7, <1>8, <1>9, <1>10, Steps

\* Every step keeps a clone waited for while it runs.
LEMMA StepAsked == IInv /\ [Next]_vars => Asked'
<1> SUFFICES ASSUME IInv, [Next]_vars PROVE Asked'
  OBVIOUS
<1>0. Whole /\ Asked
  BY Parts
<1> USE DEF config, asking
<1>1. CASE UNCHANGED vars
  BY <1>0, <1>1 DEF vars, Asked
<1>2. CASE Tabbed
  BY <1>0, <1>2 DEF Tabbed, Asked
<1>3. CASE Moved
  <2>1. remote # None
    BY <1>0, <1>3 DEF Moved, Turned, Whole, Held
  <2> QED BY <1>0, <1>3, <2>1 DEF Moved, Turned, Asked
<1>4. ASSUME NEW w \in Wizard, Open(w) PROVE Asked'
  <2>1. remote' # None => remote'.shown = None
    BY <1>0, <1>4, NewPickers DEF Open, Whole
  <2> QED BY <1>0, <1>4, <2>1 DEF Open, Asked
<1>5. CASE mode = "wizard" /\ Leave
  BY <1>0, <1>5 DEF Leave, Asked
<1>6. CASE TypeQuery
  <2>1. remote # None /\ remote'.shown \in {remote.shown, None}
    BY <1>0, <1>6, TypeQueryTurns DEF Turned, Whole, Held
  <2>2. \/ UNCHANGED <<gen, timers>>
        \/ gen < MaxGen /\ gen' = gen + 1 /\ timers' = timers \cup {gen'}
    BY <1>6 DEF TypeQuery
  <2>3. UNCHANGED <<strategy, orgs, searches, clone>>
    BY <1>6 DEF TypeQuery
  <2>4. \A n \in Nat : n <= gen => n <= gen'
    BY <1>0, <2>2 DEF Asked
  <2>5. /\ gen' \in 0..MaxGen /\ timers' \subseteq 1..MaxGen /\ timers' \subseteq 1..gen'
    BY <1>0, <2>2 DEF Asked
  <2>6. \A s \in searches : s.gen <= gen'
    BY <1>0, <2>4 DEF Asked, Search
  <2>7. remote.shown # None => remote.shown.gen <= gen'
    <3>1. remote.shown # None => remote.shown \in Search
      BY <2>1 DEF IInv, TypeOK, Remote
    <3> QED BY <1>0, <2>1, <2>4, <3>1 DEF Asked, Search
  <2> QED BY <1>0, <2>1, <2>3, <2>5, <2>6, <2>7 DEF Asked
<1>7. CASE CloneRemote
  <2>1. clone' \in Clone \cup {None}
    <3>1. InTab("repos") /\ wizard.second = "picker" /\ remote.phase = "search"
      BY <1>7 DEF CloneRemote, In, InPane
    <3>2. Tidy(picker, remote) /\ remote \in Remote
      BY <1>0, <3>1, PickerOpen
    <3>3. remote.org \in AllOrgs
      BY <3>1, <3>2 DEF Tidy, Remote
    <3> QED BY <1>7, <3>3, <3>2, FoundRepos DEF CloneRemote, Clone
  <2> QED BY <1>0, <1>7, <2>1 DEF CloneRemote, Asked
<1>8. ASSUME NEW g \in 1..MaxGen, Debounce(g) PROVE Asked'
  <2>1. UNCHANGED <<strategy, orgs, remote, gen, clone>> /\ timers' \subseteq timers
    BY <1>8 DEF Debounce
  <2>2. searches' \subseteq Search /\ \A s \in searches' : s.gen <= gen
    <3>1. CASE Current(g)
      <4> DEFINE s == [gen |-> g, org |-> remote.org, query |-> remote.query]
      <4>1. searches' = searches \cup {s}
        BY <1>8, <3>1 DEF Debounce
      <4>2. remote \in Remote
        BY <1>0, <3>1 DEF Current, Whole, Tidy
      <4>3. s \in Search /\ s.gen = g /\ g = gen
        BY <3>1, <4>2 DEF Remote, Search, Current
      <4> HIDE DEF s
      <4> QED BY <1>0, <4>1, <4>3 DEF Asked
    <3>2. CASE ~Current(g)
      BY <1>0, <1>8, <3>2 DEF Debounce, Asked
    <3> QED BY <3>1, <3>2
  <2> QED BY <1>0, <2>1, <2>2 DEF Asked
<1>9. ASSUME NEW s \in Search, SearchDone(s) PROVE Asked'
  <2>1. /\ UNCHANGED <<strategy, orgs, gen, timers, clone>> /\ searches' \subseteq searches
    BY <1>9 DEF SearchDone
  <2>2. remote' # None /\ remote'.shown # None => remote'.shown.gen <= gen
    <3>1. CASE picker = None /\ remote' = remote
      BY <1>0, <3>1 DEF Asked
    <3>2. CASE Turned /\ (remote'.shown \in {remote.shown, None} \/ (remote'.shown = s /\ s.gen = gen))
      <4>1. remote # None
        BY <1>0, <3>2 DEF Turned, Whole, Held
      <4>2. gen <= gen
        BY <1>0 DEF Asked
      <4> QED BY <1>0, <3>2, <4>1, <4>2 DEF Asked
    <3> QED BY <1>0, <1>9, <3>1, <3>2, SearchDoneTurns
  <2> QED BY <1>0, <2>1, <2>2 DEF Asked
<1>10. ASSUME NEW ok \in BOOLEAN, CloneDone(ok) PROVE Asked'
  <2>1. UNCHANGED <<config, asking>> /\ clone' = None
    BY <1>10 DEF CloneDone, CloneEnds
  <2>2. remote' # None /\ remote'.shown # None => remote'.shown.gen <= gen
    <3>1. CASE ok /\ picker # None
      <4>1. remote' = ToLocal([remote EXCEPT !.focus = @ \ {"filter"}], NewPicker(local' \ Excluded))
        BY <1>10, <3>1 DEF CloneDone
      <4>2. picker \in Picker /\ remote \in Remote /\ Tidy(picker, remote) /\ remote # None
        BY <1>0, <3>1 DEF Whole, Tidy
      <4>3. local' \in SUBSET Repos
        BY StepWhole DEF Whole
      <4>4. remote'.shown = remote.shown
        BY <4>1, <4>2, <4>3, NewPickers
      <4> QED BY <1>0, <4>2, <4>4 DEF Asked
    <3>2. CASE ~(ok /\ picker # None)
      BY <1>0, <1>10, <3>2 DEF CloneDone, Asked
    <3> QED BY <3>1, <3>2
  <2> QED BY <1>0, <2>1, <2>2 DEF Asked
<1> QED BY <1>1, <1>2, <1>3, <1>4, <1>5, <1>6, <1>7, <1>8, <1>9, <1>10, Steps

--------------------------------------------------------------------------------
(* The theorems.                                                                *)

\* The invariant holds at the start.
LEMMA InitIInv == Init => IInv
BY DEF Init, IInv, TypeOK, Held, KeysFollowFocus, NameChecked, Within, OrgChosen

\* Always: what is open is open as a whole, the field that takes the keys has the
\* focus, no tab behind a refused name is reached, only what is listed is ticked,
\* a clone is waited for exactly as long as it runs and has its organization.
THEOREM Invariance == Spec => []IInv
<1>1. IInv /\ [Next]_vars => IInv'
  <2>1. Whole' /\ Asked' <=> IInv'
    BY Parts, PTL
  <2> QED BY <2>1, StepWhole, StepAsked
<1> QED BY <1>1, InitIInv, PTL DEF Spec

\* Results never go back to those of an earlier search: each step keeps them,
\* clears them, closes or opens the wizard, or shows those of the newest search.
THEOREM ResultsAdvance == Spec => NewestShown
<1>1. ASSUME IInv, [Next]_vars, remote # None, remote' # None, remote.shown # None, remote'.shown # None
      PROVE  remote'.shown.gen >= remote.shown.gen
  <2>0. Whole /\ Asked
    BY <1>1, Parts
  <2>1. remote.shown \in Search /\ remote.shown.gen \in Nat /\ gen \in Nat /\ remote.shown.gen <= gen
    <3>1. remote \in Remote
      BY <1>1 DEF IInv, TypeOK
    <3> QED BY <1>1, <2>0, <3>1 DEF Remote, Search, Asked
  <2>2. CASE remote'.shown = remote.shown
    BY <2>1, <2>2
  <2>3. CASE remote'.shown # remote.shown
    <3>1. CASE UNCHANGED vars \/ Tabbed \/ CloneRemote
      BY <2>3, <3>1 DEF vars, Tabbed, CloneRemote
    <3>2. CASE Moved \/ TypeQuery
      BY <1>1, <2>0, <2>3, <3>2, TypeQueryTurns DEF Moved
    <3>3. ASSUME NEW w \in Wizard, Open(w) PROVE FALSE
      BY <1>1, <2>0, <3>3 DEF Open, Whole, Held
    <3>4. CASE Leave
      BY <1>1, <3>4 DEF Leave
    <3>5. ASSUME NEW g \in 1..MaxGen, Debounce(g) PROVE FALSE
      BY <2>3, <3>5 DEF Debounce
    <3>6. ASSUME NEW s \in Search, SearchDone(s) PROVE remote'.shown.gen >= remote.shown.gen
      <4>1. remote'.shown = s /\ s.gen = gen
        BY <1>1, <2>0, <2>3, <3>6, SearchDoneTurns
      <4> QED BY <2>1, <4>1
    <3>7. ASSUME NEW ok \in BOOLEAN, CloneDone(ok) PROVE FALSE
      <4>1. CASE ok /\ picker # None
        <5>1. remote' = ToLocal([remote EXCEPT !.focus = @ \ {"filter"}], NewPicker(local' \ Excluded))
          BY <3>7, <4>1 DEF CloneDone
        <5>2. picker \in Picker /\ remote \in Remote /\ Tidy(picker, remote)
          BY <2>0, <4>1 DEF Whole, Tidy
        <5>3. local' \in SUBSET Repos
          BY <1>1, StepWhole DEF Whole
        <5> QED BY <2>3, <5>1, <5>2, <5>3, NewPickers
      <4>2. CASE ~(ok /\ picker # None)
        BY <2>3, <3>7, <4>2 DEF CloneDone
      <4> QED BY <4>1, <4>2
    <3> QED BY <1>1, <3>1, <3>2, <3>3, <3>4, <3>5, <3>6, <3>7, Steps
  <2> QED BY <2>2, <2>3
<1>2. IInv /\ [Next]_vars =>
        [remote # None /\ remote' # None =>
          (remote.shown # None /\ remote'.shown # None => remote'.shown.gen >= remote.shown.gen)]_vars
  BY <1>1
<1> QED BY <1>2, Invariance, PTL DEF Spec, NewestShown

\* Esc closes the wizard, or undoes one of the at most two things that keep it open.
THEOREM EscLeadsOut == Spec => EscBacksOut
<1>1. ASSUME IInv, Esc, wizard' # None PROVE Depth' < Depth
  <2>0. Whole /\ Asked
    BY <1>1, Parts
  <2>n. ~Leave
    BY <1>1 DEF Leave
  <2>1. InTab("repos") /\ wizard.second = "picker"
    BY <1>1, <2>n DEF Esc, StopFilter, EscLocal, EscSearch, EscEntry, EscElsewhere, In, InPane
  <2>2. /\ picker # None /\ Tidy(picker, remote) /\ picker \in Picker /\ remote \in Remote
        /\ mode = "wizard" /\ wizard.tab = "repos"
    BY <2>0, <2>1, PickerOpen DEF InTab
  <2>3. picker.filtering \in BOOLEAN /\ remote.phase \in {"select", "entry", "search"}
    BY <2>2, Fields
  <2>4. mode' = mode /\ wizard' = wizard /\ orgs' = orgs
    BY <1>1, <2>n DEF Esc, StopFilter, EscLocal, EscSearch, EscEntry, EscElsewhere, SetPicker, SetRemote, config
  <2>5. /\ Depth = IF remote.pane = "local" THEN One(picker.filtering) + One(picker.filter # Empty)
                  ELSE One(remote.phase = "search") + One(remote.phase = "entry" /\ orgs # {})
        /\ picker' # None =>
              Depth' = IF remote'.pane = "local" THEN One(picker'.filtering) + One(picker'.filter # Empty)
                       ELSE One(remote'.phase = "search") + One(remote'.phase = "entry" /\ orgs # {})
    BY <2>2, <2>4 DEF Depth, InTab
  <2>6. CASE StopFilter
    <3>1. /\ remote.pane = "local" /\ picker.filtering
          /\ picker' = [picker EXCEPT !.filtering = FALSE] /\ remote'.pane = remote.pane
      BY <2>2, <2>6 DEF StopFilter, InPane, Remote
    <3>2. picker' \in Picker /\ ~picker'.filtering /\ picker'.filter = picker.filter
      BY <2>2, <3>1 DEF Picker
    <3>3. picker' # None
      BY <3>2
    <3> QED BY <2>5, <3>1, <3>2, <3>3 DEF One
  <2>7. CASE EscLocal
    <3>1. /\ remote.pane = "local" /\ ~picker.filtering /\ picker.filter # Empty /\ remote' = remote
          /\ picker' = [picker EXCEPT !.filter = Empty]
      BY <2>n, <2>7 DEF EscLocal, InPane, SetPicker
    <3>2. picker' \in Picker /\ ~picker'.filtering /\ picker'.filter = Empty
      BY <2>2, <3>1 DEF Picker
    <3>3. picker' # None
      BY <3>2
    <3> QED BY <2>5, <3>1, <3>2, <3>3 DEF One
  <2>8. CASE EscSearch
    <3>1. /\ remote.pane = "remote" /\ remote.phase = "search" /\ picker' = picker
          /\ remote'.pane = "remote" /\ remote'.phase = Back
      BY <2>2, <2>8 DEF EscSearch, In, InPane, SetRemote, Remote
    <3>2. ~(remote'.phase = "entry" /\ orgs # {}) /\ remote'.phase # "search"
      BY <3>1 DEF Back
    <3> QED BY <2>2, <2>5, <3>1, <3>2 DEF One
  <2>9. CASE EscEntry
    <3>1. /\ remote.pane = "remote" /\ remote.phase = "entry" /\ orgs # {} /\ picker' = picker
          /\ remote'.pane = "remote" /\ remote'.phase = "select"
      BY <2>n, <2>2, <2>9 DEF EscEntry, In, InPane, SetRemote, Remote
    <3> QED BY <2>2, <2>5, <3>1 DEF One
  <2>10. CASE EscElsewhere
    BY <2>n, <2>10 DEF EscElsewhere
  <2> QED BY <1>1, <2>6, <2>7, <2>8, <2>9, <2>10 DEF Esc
<1>2. IInv /\ [Next]_vars => [Esc => wizard' = None \/ Depth' < Depth]_vars
  BY <1>1
<1> QED BY <1>2, Invariance, PTL DEF Spec, EscBacksOut

\* After a repo has been ticked or unticked, Enter submits what is seen ticked.
THEOREM TicksAreSelected == Spec => RepoToggleRepairs
<1>1. ASSUME IInv, InPane("local"), NEW r \in picker.listed, ToggleRepo(r) PROVE SelectionIsTicked'
  <2> DEFINE ticked == IF r \in picker.ticked THEN picker.ticked \ {r} ELSE picker.ticked \cup {r}
             marked == {s \in SetNames : Complete(s, ticked)}
  <2>1. picker \in Picker
    BY <1>1, Parts, PickerOpen DEF InPane
  <2>2. picker' = [picker EXCEPT !.ticked = ticked, !.marked = marked]
    BY <1>1 DEF ToggleRepo, SetPicker
  <2> HIDE DEF ticked
  <2>3. picker'.ticked = ticked /\ picker'.marked = marked
    BY <2>1, <2>2 DEF Picker
  <2>4. UNION {Members[s] : s \in marked} \subseteq ticked
    BY DEF Complete
  <2> HIDE DEF marked
  <2> QED BY <2>3, <2>4 DEF SelectionIsTicked, SelectedRepos
<1>2. IInv /\ [Next]_vars =>
        [InPane("local") /\ (\E r \in picker.listed : ToggleRepo(r)) => SelectionIsTicked']_vars
  BY <1>1
<1> QED BY <1>2, Invariance, PTL DEF Spec, RepoToggleRepairs

================================================================================
