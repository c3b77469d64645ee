---------------------------- MODULE PullerProofs ----------------------------
(***************************************************************************)
(* Theorems about the puller: Interaction, for every site and every way a  *)
(* run may go, and DefectFetch, for every set of fetches, files and names. *)
(***************************************************************************)
EXTENDS Interaction, DefectFetch, SequenceTheorems, TLAPS

-----------------------------------------------------------------------------
(* The interaction engine.                                                 *)

\* Every open tab, and the page of a run that goes on, has been opened, so that a
\* popup is never the page; the parent page is the opener of the page.
TabsInv ==
    /\ \A t \in open : place[t] # None
    /\ Running => place[page] # None
    /\ ParentIsOpener

\* As long as no row was given a late download and every box could be unchecked, no
\* box is checked between two rows.
RowsInv == (~history.tardy => boxes = {}) /\ FilesAreOwn

IInv == TypeOK /\ GivesUpInTime /\ TabsInv /\ RowsInv

------------------------------------------------------------------------------
\* What SiteAssumption says of the configuration of a run.
LEMMA SiteShape ==
    ASSUME conf \in DOMAIN Sites
    PROVE  /\ Site.entry \in Range(Site.sequence) /\ Site.targets \subseteq Places
           /\ Site.sequence \in Seq(Range(Site.sequence))
           /\ Site.others \in Seq(Range(Site.others))
           /\ DOMAIN Site.step = Range(Site.sequence) \union Range(Site.others)
           /\ Site.iterations \in Nat /\ Site.failures \in Nat
BY SiteAssumption, BoundAssumption DEF Site, IsSequence

LEMMA StepShape ==
    ASSUME conf \in DOMAIN Sites, NEW s \in DOMAIN Site.step
    PROVE  /\ Site.step[s].actions \in Seq(Range(Site.step[s].actions))
           /\ \A a \in Range(Site.step[s].actions) : a.kind = "popup" => a.opens \in Places
BY SiteAssumption DEF Site, IsSequence

\* The element of a sequence at a place that was looked up.
LEMMA Element ==
    ASSUME NEW s, s \in Seq(Range(s)), NEW i \in Nat, i >= 1, i <= Len(s)
    PROVE  s[i] \in Range(s)
BY ElementOfSeq

\* What a tab shows after the url of the site was opened in it.
LEMMA LandingShape == ControlTypes => Landing \in Places
BY SiteShape, SiteAssumption DEF ControlTypes, Landing

------------------------------------------------------------------------------
\* The initial states.
LEMMA InitIInv == Init => IInv
<1> SUFFICES ASSUME Init PROVE IInv
  OBVIOUS
<1> USE SiteShape, BoundAssumption DEF NoTab
<1>1. ControlTypes
  BY DEF Init, ControlTypes
<1>2. BrowserTypes /\ TableTypes
  BY DEF Init, BrowserTypes, TableTypes
<1>3. history \in Histories
  BY DEF Init, Histories
<1>4. GivesUpInTime
  BY DEF Init, GivesUpInTime
<1>5. TabsInv /\ RowsInv
  BY DEF Init, TabsInv, RowsInv, Running, ParentIsOpener, FilesAreOwn
<1>6. QED
  BY <1>1, <1>2, <1>3, <1>4, <1>5 DEF IInv, TypeOK

------------------------------------------------------------------------------
\* The steps of the engine between the actions of a step.
Control ==
    \/ Refuse \/ OutOfIterations \/ StopAtUntil \/ CheckCondition \/ CheckOther \/ NoOther
    \/ Jump \/ Settle \/ CheckExpect \/ Resolve \/ NoNextStep \/ ActionRaises

\* Actions that succeed or fail without a change to the tabs or the table.
Quiet ==
    \/ ActionTimesOut \/ Click \/ Wait \/ Download \/ SetJump
    \/ ReadText \/ ReadTitle \/ ReadTable \/ Lookup \/ DownloadComments

Tabbing == Open \/ Login \/ Goto \/ ClickPopup \/ ClosePopup \/ SiteMoves \/ SiteCloses
Tabling == BeginFiles \/ Row \/ EndFiles \/ LateLost

LEMMA StepSplit ==
    ASSUME [Next]_vars
    PROVE  Control \/ Quiet \/ Tabbing \/ Tabling \/ Collect \/ UNCHANGED vars
BY DEF Next, Engine, Done, Control, Quiet, Tabbing, Tabling

\* A step that fails counts one failure, or ends the run.
LEMMA StepFailsSteers ==
    ASSUME ControlTypes, GivesUpInTime, pc = "acting", StepFails, conf' = conf
    PROVE  /\ pc' \in {"loop", "ended"} /\ outcome' \in {outcome, "failed"}
           /\ failures' \in Nat /\ GivesUpInTime'
BY SiteShape
   DEF ControlTypes, GivesUpInTime, StepFails, CountFailure, End, GoTo, Site, InOthers

LEMMA ControlSteers ==
    ASSUME ControlTypes, GivesUpInTime, Control
    PROVE  ControlTypes' /\ GivesUpInTime'
<1> USE SiteShape, StepShape DEF ControlTypes, GivesUpInTime, End, GoTo, Raise, quiet, given
<1>1. CASE Refuse \/ OutOfIterations \/ StopAtUntil \/ NoOther \/ NoNextStep \/ ActionRaises
  BY <1>1 DEF Refuse, OutOfIterations, StopAtUntil, NoOther, NoNextStep, ActionRaises, Site
<1>2. CASE Raise
  BY <1>2 DEF Site
<1>3. CASE CheckCondition
  <2>1. CASE Raise
    BY <1>2, <2>1
  <2>2. CASE ~Raise
    <3>1. /\ pc = "loop" /\ iteration < Site.iterations /\ iteration' = iteration + 1
          /\ running' = current /\ at' = 1 /\ pc' \in {"acting", "others"}
          /\ UNCHANGED <<quiet, outcome, current, failures, jump, history>>
      BY <1>3, <2>2 DEF CheckCondition
    <3>2. QED
      BY <3>1 DEF Site
  <2>3. QED
    BY <2>1, <2>2
<1>4. CASE CheckOther
  <2>1. Site.others[at] \in DOMAIN Site.step
    <3>1. at <= Len(Site.others) /\ at >= 1 /\ at \in Nat
      BY <1>4 DEF CheckOther
    <3>2. Site.others[at] \in Range(Site.others)
      BY <3>1, Element
    <3>3. QED
      BY <3>2
  <2>2. CASE Raise
    BY <1>2, <2>2
  <2>3. CASE ~Raise
    <3>1. /\ pc = "others" /\ at' \in {1, at + 1} /\ pc' \in {"acting", "others"}
          /\ running' \in {running, Site.others[at]}
          /\ UNCHANGED <<quiet, outcome, current, failures, iteration, jump, history>>
      BY <1>4, <2>3 DEF CheckOther
    <3>2. QED
      BY <2>1, <3>1 DEF Site
  <2>4. QED
    BY <2>2, <2>3
<1>5. CASE Jump \/ Settle
  BY <1>5 DEF Jump, Settle, Site
<1>6. CASE CheckExpect
  BY <1>6 DEF CheckExpect, CountFailure, Site
<1>7. CASE Resolve
  <2>1. CASE Raise
    BY <1>2, <2>1
  <2>2. CASE ~Raise
    <3>1. /\ pc = "resolve" /\ at' \in {at, at + 1} /\ failures' \in {failures, 0}
          /\ current' = current \/ current' \in Range(Site.sequence)
          /\ \/ pc' \in {"resolve", "loop"} /\ outcome' = outcome
             \/ pc' = "ended" /\ outcome' = "failed"
          /\ UNCHANGED <<quiet, running, iteration, jump, history>>
      BY <1>7, <2>2 DEF Resolve
    <3>2. QED
      BY <3>1 DEF Site
  <2>3. QED
    BY <2>1, <2>2
<1>8. QED
  BY <1>1, <1>3, <1>4, <1>5, <1>6, <1>7 DEF Control

\* Every other step leaves the place in the run alone, goes on to the next action, or
\* lets the step fail.
Acts ==
    /\ UNCHANGED <<given, current, running, iteration>> /\ troubles' \in 0..MaxTroubles
    /\ \/ pc = "acting" /\ Succeeds
       \/ pc = "acting" /\ at' = at /\ StepFails
       \/ UNCHANGED <<pc, outcome, failures, at>>
    /\ jump' = jump \/ (Doing("jump") /\ jump' = Action.step)

LEMMA ActsSteers ==
    ASSUME ControlTypes, GivesUpInTime, Acts
    PROVE  ControlTypes' /\ GivesUpInTime'
<1> USE SiteShape DEF ControlTypes, GivesUpInTime, Acts, given
<1>1. jump' # None => \E s \in DOMAIN Site.step : \E a \in Range(Site.step[s].actions) :
                         a.kind = "jump" /\ jump' = a.step
  <2>1. CASE jump' = jump
    BY <2>1
  <2>2. CASE Doing("jump") /\ jump' = Action.step
    <3>1. Step.actions[at] \in Range(Site.step[running].actions)
      BY <2>2, StepShape, Element DEF Doing, Step
    <3>2. Step.actions[at].kind = "jump" /\ jump' = Step.actions[at].step
      BY <2>2 DEF Doing, Action
    <3>3. QED
      BY <3>1, <3>2
  <2>3. QED
    BY <2>1, <2>2
<1>2. /\ pc' \in {pc, "acting", "loop", "ended"} /\ outcome' \in {outcome, "failed"}
      /\ at' \in Nat \ {0} /\ failures' \in Nat /\ GivesUpInTime'
  <2>1. CASE pc = "acting" /\ Succeeds
    BY <2>1 DEF Succeeds, GoTo, Site
  <2>2. CASE pc = "acting" /\ at' = at /\ StepFails
    BY <2>2, StepFailsSteers
  <2>3. CASE UNCHANGED <<pc, outcome, failures, at>>
    BY <2>3 DEF Site
  <2>4. QED
    BY <2>1, <2>2, <2>3
<1>3. QED
  BY <1>1, <1>2 DEF Site

LEMMA QuietActs == ControlTypes /\ Quiet => Acts
<1> SUFFICES ASSUME ControlTypes, Quiet PROVE Acts
  OBVIOUS
<1> USE BoundAssumption DEF ControlTypes, Acts, Doing, still, Fine, Trouble
<1>1. CASE ActionTimesOut
  BY <1>1 DEF ActionTimesOut
<1>2. CASE Click \/ Wait \/ Download
  BY <1>2 DEF Click, Wait, Download, Harmless
<1>3. CASE SetJump
  BY <1>3 DEF SetJump
<1>4. CASE ReadText \/ ReadTitle \/ ReadTable \/ Lookup
  BY <1>4 DEF ReadText, ReadTitle, ReadTable, Lookup
<1>5. CASE DownloadComments
  BY <1>5 DEF DownloadComments
<1>6. QED
  BY <1>1, <1>2, <1>3, <1>4, <1>5 DEF Quiet

LEMMA TabbingActs == ControlTypes /\ Tabbing => Open \/ Acts
<1> SUFFICES ASSUME ControlTypes, Tabbing, ~Open PROVE Acts
  OBVIOUS
<1> USE BoundAssumption DEF ControlTypes, Acts, Doing, still, Fine, Trouble, control
<1>1. CASE Login
  BY <1>1 DEF Login
<1>2. CASE Goto
  BY <1>2 DEF Goto
<1>3. CASE ClickPopup
  BY <1>3 DEF ClickPopup
<1>4. CASE ClosePopup
  BY <1>4 DEF ClosePopup
<1>5. CASE SiteMoves \/ SiteCloses
  BY <1>5 DEF SiteMoves, SiteCloses
<1>6. QED
  BY <1>1, <1>2, <1>3, <1>4, <1>5 DEF Tabbing

LEMMA TablingActs == ControlTypes /\ Tabling => Acts
<1> SUFFICES ASSUME ControlTypes, Tabling PROVE Acts
  OBVIOUS
<1> USE BoundAssumption DEF ControlTypes, Acts, Doing, still, Fine, Trouble, control
<1>1. CASE BeginFiles
  BY <1>1 DEF BeginFiles
<1>2. CASE Row
  <2>1. troubles' \in 0..MaxTroubles
    <3>1. troubles' \in {troubles, troubles + 1, troubles + 2}
      <4>1. CASE RowSaved(boxes \union {item})
        <5>1. \E got \in late \union {boxes \union {item}} : Uncheck(0, got \in late)
          BY <4>1 DEF RowSaved
        <5>2. troubles' \in {troubles + 0, troubles + 0 + 1}
          BY <5>1 DEF Uncheck
        <5>3. QED
          BY <5>2
      <4>2. CASE Uncheck(1, FALSE)
        BY <4>2 DEF Uncheck
      <4>3. QED
        BY <1>2, <4>1, <4>2 DEF Row
    <3>2. QED
      BY <1>2, <3>1 DEF Row
  <2>2. QED
    BY <1>2, <2>1 DEF Row
<1>3. CASE EndFiles
  BY <1>3 DEF EndFiles
<1>4. CASE LateLost
  BY <1>4 DEF LateLost
<1>5. QED
  BY <1>1, <1>2, <1>3, <1>4 DEF Tabling

\* The first tab is opened, or cannot be; and the report of the mode.
LEMMA OpenSteers ==
    ASSUME ControlTypes, GivesUpInTime, Open \/ Collect
    PROVE  ControlTypes' /\ GivesUpInTime'
<1> USE SiteShape, BoundAssumption DEF ControlTypes, GivesUpInTime, given
<1>1. CASE Open
  BY <1>1 DEF Open, Fine, Trouble, End, GoTo, Site
<1>2. CASE Collect
  BY <1>2 DEF Collect, Site
<1>3. QED
  BY <1>1, <1>2

\* The parts of the invariant on the control of the run are inductive.
LEMMA NextSteers ==
    ASSUME ControlTypes, GivesUpInTime, [Next]_vars
    PROVE  ControlTypes' /\ GivesUpInTime'
<1>1. CASE Control
  BY <1>1, ControlSteers
<1>2. CASE Quiet
  BY <1>2, QuietActs, ActsSteers
<1>3. CASE Tabbing
  BY <1>3, TabbingActs, ActsSteers, OpenSteers
<1>4. CASE Tabling
  BY <1>4, TablingActs, ActsSteers
<1>5. CASE Collect
  BY <1>5, OpenSteers
<1>6. CASE UNCHANGED vars
  BY <1>6 DEF vars, given, control, ControlTypes, GivesUpInTime, Site
<1>7. QED
  BY <1>1, <1>2, <1>3, <1>4, <1>5, <1>6, StepSplit

------------------------------------------------------------------------------
\* The history: who opened a tab, whether a row was given a late download.
LEMMA HistorySteps ==
    ASSUME history \in Histories, ControlTypes, BrowserTypes, [Next]_vars
    PROVE  /\ (history \in Histories)'
           /\ ~ClickPopup => history'.opener = history.opener
           /\ ~Row => history'.tardy = history.tardy
<1> USE DEF Histories, still, given, quiet
<1>1. CASE CheckExpect
  <2>1. history' = history \/ history' = [history EXCEPT !.walked = @ \union {running}]
    BY <1>1 DEF CheckExpect, Raise
  <2>2. conf' = conf
    BY <1>1 DEF CheckExpect, Raise
  <2>3. QED
    BY <2>1, <2>2 DEF ControlTypes, Site
<1>2. CASE SetJump
  <2>1. UNCHANGED <<conf, history>>
    BY <1>2 DEF SetJump
  <2>2. QED
    BY <1>2, <2>1 DEF ControlTypes, Site
<1>3. CASE Row
  <2>1. \/ history' = history
        \/ \E b \in BOOLEAN : history' = [history EXCEPT !.tardy = b]
    <3>1. ASSUME NEW asked, RowSaved(asked)
          PROVE  \E b \in BOOLEAN : history' = [history EXCEPT !.tardy = b]
      <4>1. PICK got : Uncheck(0, got \in late)
        BY <3>1 DEF RowSaved
      <4>2. QED
        BY <4>1 DEF Uncheck
    <3>2. CASE Uncheck(1, FALSE)
      BY <3>2 DEF Uncheck
    <3>3. QED
      BY <1>3, <3>1, <3>2 DEF Row
  <2>2. conf' = conf
    BY <1>3 DEF Row
  <2>3. QED
    BY <1>3, <2>1, <2>2 DEF ControlTypes, Site
<1>4. CASE ClickPopup
  <2>1. PICK t \in 1..Tabs : history' = [history EXCEPT !.opener[t] = page]
    BY <1>4 DEF ClickPopup
  <2>2. conf' = conf
    BY <1>4 DEF ClickPopup
  <2>3. history'.opener = [history.opener EXCEPT ![t] = page]
    BY <2>1
  <2>4. history'.opener \in [1..Tabs -> 0..Tabs]
    BY <2>3, BoundAssumption DEF BrowserTypes
  <2>5. QED
    BY <1>4, <2>1, <2>2, <2>4 DEF ControlTypes, Site
<1>5. CASE ~CheckExpect /\ ~SetJump /\ ~Row /\ ~ClickPopup
  <2>1. UNCHANGED <<conf, history>>
    <3>1. CASE Control
      BY <1>5, <3>1 DEF Control, Refuse, OutOfIterations, StopAtUntil, CheckCondition, CheckOther,
         NoOther, Jump, Settle, Resolve, NoNextStep, ActionRaises, Raise
    <3>2. CASE Quiet
      BY <1>5, <3>2 DEF Quiet, ActionTimesOut, Click, Wait, Download, Harmless, ReadText,
         ReadTitle, ReadTable, Lookup, DownloadComments
    <3>3. CASE Tabbing
      BY <1>5, <3>3 DEF Tabbing, Open, Login, Goto, ClosePopup, SiteMoves, SiteCloses
    <3>4. CASE Tabling \/ Collect
      BY <1>5, <3>4 DEF Tabling, BeginFiles, EndFiles, LateLost, Collect
    <3>5. CASE UNCHANGED vars
      BY <3>5 DEF vars
    <3>6. QED
      BY <3>1, <3>2, <3>3, <3>4, <3>5, StepSplit
  <2>2. QED
    BY <1>5, <2>1 DEF Site
<1>6. QED
  BY <1>1, <1>2, <1>3, <1>4, <1>5

------------------------------------------------------------------------------
\* The tabs.
LEMMA OthersKeepTabs ==
    ASSUME Control \/ Quiet \/ Tabling \/ UNCHANGED vars
    PROVE  UNCHANGED browser /\ (Running' => Running)
<1> USE DEF quiet, still, Raise, End, GoTo, Running
<1>1. CASE Control
  BY <1>1 DEF Control, Refuse, OutOfIterations, StopAtUntil, CheckCondition, CheckOther, NoOther,
     Jump, Settle, CheckExpect, Resolve, NoNextStep, ActionRaises
<1>2. CASE Quiet
  BY <1>2 DEF Quiet, ActionTimesOut, Click, Wait, Download, Harmless, SetJump, ReadText,
     ReadTitle, ReadTable, Lookup, DownloadComments, Doing
<1>3. CASE Tabling
  BY <1>3 DEF Tabling, BeginFiles, Row, EndFiles, LateLost, Doing, control
<1>4. CASE UNCHANGED vars
  BY <1>4 DEF vars, control
<1>5. QED
  BY <1>1, <1>2, <1>3, <1>4

\* A popup is a tab that no run of the page has been in, and its opener is the page.
LEMMA PopupTabs ==
    ASSUME TypeOK, TabsInv, ClickPopup
    PROVE  BrowserTypes' /\ TabsInv'
<1> USE DEF TypeOK, BrowserTypes, NoTab
<1>1. PICK t \in 1..Tabs :
        /\ NewTab(t)
        /\ place' = [place EXCEPT ![t] = IF session THEN Action.opens ELSE LoginPlace]
        /\ open' = open \union {t}
        /\ history' = [history EXCEPT !.opener[t] = page]
        /\ \/ page' = t /\ parent' = page
           \/ UNCHANGED <<page, parent>>
  BY DEF ClickPopup
<1>2. Action.opens \in Places
  <2>1. Step.actions[at] \in Range(Site.step[running].actions)
    BY StepShape, Element DEF ClickPopup, Doing, Step, ControlTypes
  <2>2. QED
    BY <2>1, StepShape DEF ClickPopup, Doing, Action, ControlTypes
<1>3. page # t /\ place[page] # None
  <2>1. Running
    BY DEF ClickPopup, Doing, Running
  <2>2. QED
    BY <1>1, <2>1 DEF TabsInv, NewTab
<1>4. place'[t] \in Places /\ None \notin Places
  BY <1>1, <1>2, SiteAssumption
<1>5. BrowserTypes'
  BY <1>1, <1>4 DEF ClickPopup
<1>6. history'.opener = [history.opener EXCEPT ![t] = page]
  BY <1>1 DEF Histories
<1>7. TabsInv'
  <2>1. (\A u \in open : place[u] # None)'
    BY <1>1, <1>4 DEF TabsInv
  <2>2. (Running => place[page] # None)'
    BY <1>1, <1>3, <1>4 DEF Running
  <2>3. ParentIsOpener'
    BY <1>1, <1>3, <1>6 DEF ParentIsOpener, TabsInv, Histories
  <2>4. QED
    BY <2>1, <2>2, <2>3 DEF TabsInv
<1>8. QED
  BY <1>5, <1>7

LEMMA TabsSteps ==
    ASSUME TypeOK, TabsInv, [Next]_vars
    PROVE  BrowserTypes' /\ TabsInv'
<1> USE DEF TypeOK, BrowserTypes, TabsInv, ParentIsOpener, NoTab
<1>1. CASE ClickPopup
  BY <1>1, PopupTabs
<1>2. CASE ~ClickPopup
  <2>1. history'.opener = history.opener /\ None \notin Places /\ Landing \in Places
    BY <1>2, HistorySteps, LandingShape, SiteAssumption
  <2>2. CASE Open
    BY <2>1, <2>2 DEF Open, GoTo, End, Running
  <2>3. CASE Login
    <3>1. target \in Places
      BY SiteShape DEF ControlTypes
    <3>2. PICK p \in Places : place' = [place EXCEPT ![page] = p]
      BY <2>3, <3>1, SiteAssumption DEF Login
    <3>3. UNCHANGED <<open, page, parent>> /\ session' \in BOOLEAN
      BY <2>3 DEF Login, ControlTypes
    <3>4. QED
      BY <2>1, <3>2, <3>3
  <2>4. CASE Goto
    BY <2>1, <2>4 DEF Goto, Doing, Running
  <2>5. CASE ClosePopup
    <3>1. /\ parent' = NoTab /\ open' \subseteq open /\ Running
          /\ page' = page \/ (page' = parent /\ parent \in open)
          /\ UNCHANGED <<place, session>>
      BY <2>5 DEF ClosePopup, Doing, Running
    <3>2. QED
      BY <2>1, <3>1, BoundAssumption
  <2>6. CASE SiteMoves
    BY <2>1, <2>6 DEF SiteMoves
  <2>7. CASE SiteCloses
    BY <2>1, <2>7 DEF SiteCloses, control, Running
  <2>8. CASE Collect
    BY <2>1, <2>8 DEF Collect, Running
  <2>9. CASE Control \/ Quiet \/ Tabling \/ UNCHANGED vars
    <3>1. UNCHANGED <<place, open, page, parent, session>> /\ (Running' => Running)
      BY <2>9, OthersKeepTabs DEF browser
    <3>2. QED
      BY <2>1, <3>1
  <2>10. QED
    BY <1>2, <2>2, <2>3, <2>4, <2>5, <2>6, <2>7, <2>8, <2>9, StepSplit DEF Tabbing
<1>3. QED
  BY <1>1, <1>2

------------------------------------------------------------------------------
\* The rows of individual_download.
LEMMA OthersKeepRows ==
    ASSUME [Next]_vars, ~Tabling
    PROVE  /\ UNCHANGED <<item, saved>> /\ boxes' \in {boxes, {}} /\ late' \in {late, {}}
           /\ ClickPopup \/ Collect \/ boxes' = boxes
<1> USE DEF quiet, still, table, Raise
<1>1. CASE Control
  BY <1>1 DEF Control, Refuse, OutOfIterations, StopAtUntil, CheckCondition, CheckOther, NoOther,
     Jump, Settle, CheckExpect, Resolve, NoNextStep, ActionRaises
<1>2. CASE Quiet
  BY <1>2 DEF Quiet, ActionTimesOut, Click, Wait, Download, Harmless, SetJump, ReadText,
     ReadTitle, ReadTable, Lookup, DownloadComments
<1>3. CASE Tabbing
  BY <1>3 DEF Tabbing, Open, Login, Goto, ClickPopup, ClosePopup, SiteMoves, SiteCloses
<1>4. CASE Collect
  BY <1>4 DEF Collect
<1>5. CASE UNCHANGED vars
  BY <1>5 DEF vars
<1>6. QED
  BY <1>1, <1>2, <1>3, <1>4, <1>5, StepSplit

\* A row adds one entry for itself.  Unless it got a late download, what it got was
\* asked for with the boxes checked then, and that is its own alone.
LEMMA RowAppends ==
    ASSUME TableTypes, history \in Histories, item \in 1..Rows,
           NEW entry \in SavedRows, saved' = Append(saved, entry), FilesAreOwn,
           ~history'.tardy => ~history.tardy,
           entry.status = "success" /\ ~history'.tardy => entry.got = {entry.row}
    PROVE  saved' \in Seq(SavedRows) /\ FilesAreOwn'
<1>1. saved' \in Seq(SavedRows)
  BY DEF TableTypes
<1>2. ASSUME NEW i \in DOMAIN saved', saved'[i].status = "success", ~history'.tardy
      PROVE  saved'[i].got = {saved'[i].row}
  <2>1. Len(saved') = Len(saved) + 1 /\ saved'[Len(saved) + 1] = entry
    BY DEF TableTypes
  <2>2. CASE i = Len(saved) + 1
    BY <1>2, <2>1, <2>2
  <2>3. CASE i # Len(saved) + 1
    <3>1. i \in DOMAIN saved /\ saved'[i] = saved[i]
      BY <1>1, <2>1, <2>3 DEF TableTypes
    <3>2. QED
      BY <1>2, <3>1 DEF FilesAreOwn
  <2>4. QED
    BY <2>2, <2>3
<1>3. QED
  BY <1>1, <1>2 DEF FilesAreOwn

\* Unchecking the box of the row leaves none checked that was not before, or says so.
LEMMA UncheckLeaves ==
    ASSUME TableTypes, RowsInv, history \in Histories, item \in 1..Rows,
           NEW tardy \in BOOLEAN,
           \/ boxes' = boxes \ {item} /\ history' = [history EXCEPT !.tardy = tardy]
           \/ boxes' = boxes \union {item} /\ history' = [history EXCEPT !.tardy = TRUE],
           history.tardy => tardy
    PROVE  /\ boxes' \subseteq 1..Rows
           /\ ~history'.tardy => ~tardy /\ boxes' = {}
BY DEF Histories, TableTypes, RowsInv

LEMMA RowKeepsOwn ==
    ASSUME TypeOK, RowsInv, Row
    PROVE  TableTypes' /\ RowsInv'
<1> DEFINE asked == boxes \union {item}
<1> USE DEF TypeOK
<1>1. /\ item \in 1..Rows /\ item' = item + 1 /\ item' \in 0..Rows + 1
      /\ \/ RowSaved(asked)
         \/ RowFails /\ late' = late \union {asked} /\ Uncheck(1, FALSE)
         \/ RowFails /\ UNCHANGED <<boxes, late, history>>
  <2>1. item \in 1..Rows /\ item' = item + 1
    BY DEF Row
  <2>2. \/ RowSaved(asked)
        \/ RowFails /\ late' = late \union {asked} /\ Uncheck(1, FALSE)
        \/ RowFails /\ UNCHANGED <<boxes, late, history>>
    BY DEF Row
  <2>3. item' \in 0..Rows + 1
    BY <2>1, BoundAssumption
  <2>4. QED
    BY <2>1, <2>2, <2>3
<1>2. asked \subseteq 1..Rows /\ FilesAreOwn
  BY <1>1 DEF TableTypes, RowsInv
<1>3. CASE RowSaved(asked)
  <2>1. PICK got \in late \union {asked} :
          /\ late' = (late \union {asked}) \ {got}
          /\ saved' = Append(saved, [row |-> item, status |-> "success", got |-> got])
          /\ Uncheck(0, got \in late)
    BY <1>3 DEF RowSaved
  <2>2. /\ boxes' \subseteq 1..Rows
        /\ ~history'.tardy => ~history.tardy /\ got \notin late /\ boxes' = {}
    <3>1. PICK tardy \in BOOLEAN :
            /\ tardy = (history.tardy \/ got \in late)
            /\ \/ boxes' = boxes \ {item} /\ history' = [history EXCEPT !.tardy = tardy]
               \/ boxes' = boxes \union {item} /\ history' = [history EXCEPT !.tardy = TRUE]
      BY <2>1 DEF Uncheck
    <3>2. QED
      BY <1>1, <3>1, UncheckLeaves
  <2>3. got \subseteq 1..Rows /\ late' \subseteq SUBSET (1..Rows)
    BY <1>2, <2>1 DEF TableTypes
  <2>4. ~history'.tardy => got = {item}
    BY <2>1, <2>2 DEF RowsInv
  <2>5. DEFINE entry == [row |-> item, status |-> "success", got |-> got]
  <2>6. entry \in SavedRows /\ entry.got = got /\ entry.row = item
    BY <1>1, <2>3 DEF SavedRows
  <2>7. saved' \in Seq(SavedRows) /\ FilesAreOwn'
    BY <1>1, <1>2, <2>1, <2>2, <2>4, <2>6, RowAppends
  <2>8. QED
    BY <1>1, <2>2, <2>3, <2>7 DEF TableTypes, RowsInv
<1>4. CASE RowFails /\ (\/ late' = late \union {asked} /\ Uncheck(1, FALSE)
                        \/ UNCHANGED <<boxes, late, history>>)
  <2>1. /\ boxes' \subseteq 1..Rows /\ late' \subseteq SUBSET (1..Rows)
        /\ ~history'.tardy => ~history.tardy /\ boxes' = {}
    <3>1. CASE late' = late \union {asked} /\ Uncheck(1, FALSE)
      <4>1. PICK tardy \in BOOLEAN :
              /\ tardy = history.tardy
              /\ \/ boxes' = boxes \ {item} /\ history' = [history EXCEPT !.tardy = tardy]
                 \/ boxes' = boxes \union {item} /\ history' = [history EXCEPT !.tardy = TRUE]
        BY <3>1 DEF Uncheck, Histories
      <4>2. QED
        BY <1>1, <1>2, <3>1, <4>1, UncheckLeaves DEF TableTypes
    <3>2. CASE UNCHANGED <<boxes, late, history>>
      BY <3>2 DEF TableTypes, RowsInv
    <3>3. QED
      BY <1>4, <3>1, <3>2
  <2>2. DEFINE entry == [row |-> item, status |-> "failed", got |-> {}]
  <2>3. entry \in SavedRows /\ entry.status # "success" /\ saved' = Append(saved, entry)
    BY <1>1, <1>4 DEF SavedRows, RowFails
  <2>4. saved' \in Seq(SavedRows) /\ FilesAreOwn'
    BY <1>1, <1>2, <2>1, <2>3, RowAppends
  <2>5. QED
    BY <1>1, <2>1, <2>4 DEF TableTypes, RowsInv
<1>5. QED
  BY <1>1, <1>3, <1>4

LEMMA RowsSteps ==
    ASSUME TypeOK, RowsInv, [Next]_vars
    PROVE  TableTypes' /\ RowsInv'
<1> USE DEF TypeOK
<1>1. CASE Row
  BY <1>1, RowKeepsOwn
<1>2. CASE ~Row
  <2>1. history'.tardy = history.tardy
    BY <1>2, HistorySteps
  <2>2. CASE BeginFiles
    BY <2>1, <2>2, BoundAssumption DEF BeginFiles, TableTypes, RowsInv, FilesAreOwn
  <2>3. CASE EndFiles
    BY <2>1, <2>3, BoundAssumption DEF EndFiles, TableTypes, RowsInv, FilesAreOwn
  <2>4. CASE LateLost
    BY <2>1, <2>4 DEF LateLost, TableTypes, RowsInv, FilesAreOwn
  <2>5. CASE ~Tabling
    <3>1. UNCHANGED <<item, saved>> /\ boxes' \in {boxes, {}} /\ late' \in {late, {}}
      BY <2>5, OthersKeepRows
    <3>2. QED
      BY <2>1, <3>1 DEF TableTypes, RowsInv, FilesAreOwn
  <2>6. QED
    BY <1>2, <2>2, <2>3, <2>4, <2>5 DEF Tabling
<1>3. QED
  BY <1>1, <1>2

------------------------------------------------------------------------------
\* The inductive invariant holds: the control of the run, its tabs and its rows keep
\* their types and fit together, through every retry and trouble.
THEOREM InvariantHolds == Spec => []IInv
<1>1. Init => IInv
  BY InitIInv
<1>2. IInv /\ [Next]_vars => IInv'
  <2> SUFFICES ASSUME IInv, [Next]_vars PROVE IInv'
    OBVIOUS
  <2>1. ControlTypes' /\ GivesUpInTime'
    BY NextSteers DEF IInv, TypeOK
  <2>2. BrowserTypes' /\ TabsInv'
    BY TabsSteps DEF IInv
  <2>3. TableTypes' /\ RowsInv'
    BY RowsSteps DEF IInv
  <2>4. (history \in Histories)'
    BY HistorySteps DEF IInv, TypeOK
  <2>5. QED
    BY <2>1, <2>2, <2>3, <2>4 DEF IInv, TypeOK
<1>3. QED
  BY <1>1, <1>2, PTL DEF Spec

\* Every variable that steers a run keeps its type (interaction.py:92).
THEOREM TypeCorrect == Spec => []TypeOK
<1>1. IInv => TypeOK
  BY DEF IInv
<1>2. QED
  BY <1>1, InvariantHolds, PTL

\* close_popup goes back to the page that the popup was opened from (action.py:700).
THEOREM ParentAlwaysOpener == Spec => []ParentIsOpener
<1>1. IInv => ParentIsOpener
  BY DEF IInv, TabsInv
<1>2. QED
  BY <1>1, InvariantHolds, PTL

\* A file reported as saved is the row's own, unless a download came late or a box
\* could not be unchecked (action.py:346).
THEOREM FilesAlwaysOwn == Spec => []FilesAreOwn
<1>1. IInv => FilesAreOwn
  BY DEF IInv, RowsInv
<1>2. QED
  BY <1>1, InvariantHolds, PTL

\* The run is given up by the max_failures-th failure, and not before
\* (interaction.py:135).
THEOREM AlwaysGivesUpInTime == Spec => []GivesUpInTime
<1>1. IInv => GivesUpInTime
  BY DEF IInv
<1>2. QED
  BY <1>1, InvariantHolds, PTL

------------------------------------------------------------------------------
\* A jump waits in site_config for the end of the actions that set it.  Beyond that it
\* is there only while failures are counted, or when the run has ended.
JumpInv ==
    jump # None => \/ pc = "ended"
                   \/ pc = "acting" /\ (failures > 0 \/ SetHere)
                   \/ pc \in {"loop", "others"} /\ failures > 0

\* What a step does to a run that has a jump in site_config and keeps it.
Kept ==
    \/ pc' = "ended"
    \/ pc \in {"loop", "others"} /\ pc' \in {"loop", "others", "acting"} /\ failures' = failures
    \/ pc' = "loop" /\ failures' = failures + 1
    \/ at' \in {at, at + 1} /\ UNCHANGED <<conf, pc, running, failures>>

\* A jump is not kept by the step that follows it, and no expectation is checked and
\* no next step looked for while there is one.
LEMMA JumpWaits ==
    ASSUME ControlTypes, JumpInv, jump # None, jump' # None, ~SetJump,
           Control \/ Quiet \/ Tabbing \/ Tabling
    PROVE  Kept /\ jump' = jump
<1> USE DEF Kept, StepFails, CountFailure, Succeeds, End, GoTo, still, given
<1>1. pc \in {"acting", "loop", "others", "ended"} /\ jump # None
  BY DEF JumpInv
<1>2. CASE Control
  BY <1>1, <1>2 DEF Control, Refuse, OutOfIterations, StopAtUntil, CheckCondition, CheckOther,
     NoOther, Jump, Settle, CheckExpect, Resolve, NoNextStep, ActionRaises, Raise, quiet
<1>3. CASE Quiet
  BY <1>1, <1>3 DEF Quiet, ActionTimesOut, Click, Wait, Download, Harmless, ReadText,
     ReadTitle, ReadTable, Lookup, DownloadComments, Doing
<1>4. CASE Tabbing
  BY <1>1, <1>4 DEF Tabbing, Open, Login, Goto, ClickPopup, ClosePopup, SiteMoves, SiteCloses,
     Doing, control
<1>5. CASE Tabling
  BY <1>1, <1>5 DEF Tabling, BeginFiles, Row, EndFiles, LateLost, Doing, control
<1>6. QED
  BY <1>2, <1>3, <1>4, <1>5

LEMMA OnlySetJump ==
    ASSUME ~SetJump, Control \/ Quiet \/ Tabbing \/ Tabling
    PROVE  jump' \in {jump, None}
<1>1. CASE Control
  BY <1>1 DEF Control, Refuse, OutOfIterations, StopAtUntil, CheckCondition, CheckOther,
     NoOther, Jump, Settle, CheckExpect, Resolve, NoNextStep, ActionRaises, Raise
<1>2. CASE Quiet
  BY <1>2 DEF Quiet, ActionTimesOut, Click, Wait, Download, Harmless, ReadText,
     ReadTitle, ReadTable, Lookup, DownloadComments
<1>3. CASE Tabbing
  BY <1>3 DEF Tabbing, Open, Login, Goto, ClickPopup, ClosePopup, SiteMoves, SiteCloses
<1>4. CASE Tabling
  BY <1>4 DEF Tabling, BeginFiles, Row, EndFiles, LateLost
<1>5. QED
  BY <1>1, <1>2, <1>3, <1>4

LEMMA JumpSteps ==
    ASSUME TypeOK, JumpInv, [Next]_vars
    PROVE  JumpInv'
<1> USE DEF TypeOK
<1> SUFFICES ASSUME jump' # None
             PROVE  JumpInv'
  BY DEF JumpInv
<1>1. CASE SetJump
  <2>1. /\ pc' = "acting" /\ at <= Len(Step.actions) /\ at' = at + 1
        /\ Action.kind = "jump" /\ jump' = Action.step
        /\ UNCHANGED <<running, conf>>
    BY <1>1 DEF SetJump, Doing, Succeeds, GoTo, still, given
  <2>2. Len(Step.actions) \in Nat /\ Step' = Step
    BY <2>1, StepShape DEF ControlTypes, Step, Site
  <2>3. at \in 1..Len(Step.actions) /\ at < at'
    BY <2>1, <2>2 DEF ControlTypes
  <2>4. SetHere'
    BY <2>1, <2>2, <2>3 DEF SetHere, Action
  <2>5. QED
    BY <2>1, <2>4 DEF JumpInv
<1>2. CASE ~SetJump /\ jump # None /\ (Control \/ Quiet \/ Tabbing \/ Tabling)
  <2>1. Kept /\ jump' = jump
    BY <1>2, JumpWaits
  <2>2. CASE at' \in {at, at + 1} /\ UNCHANGED <<conf, pc, running, failures>>
    <3>1. Step' = Step /\ Len(Step.actions) \in Nat /\ at' >= at
      BY <2>2, StepShape DEF ControlTypes, Step, Site
    <3>2. SetHere => SetHere'
      BY <2>1, <2>2, <3>1 DEF SetHere, ControlTypes
    <3>3. QED
      BY <1>2, <2>2, <3>2 DEF JumpInv
  <2>3. CASE ~(at' \in {at, at + 1} /\ UNCHANGED <<conf, pc, running, failures>>)
    <3>1. failures \in Nat
      BY DEF ControlTypes
    <3>2. QED
      BY <1>2, <2>1, <2>3, <3>1 DEF JumpInv, Kept
  <2>4. QED
    BY <2>2, <2>3
<1>3. CASE ~SetJump /\ jump = None /\ (Control \/ Quiet \/ Tabbing \/ Tabling)
  BY <1>3, OnlySetJump
<1>4. CASE Collect
  BY <1>4 DEF Collect
<1>5. CASE UNCHANGED vars
  BY <1>5 DEF vars, given, control, JumpInv, SetHere, Step, Site
<1>6. QED
  BY <1>1, <1>2, <1>3, <1>4, <1>5, StepSplit

\* A jump is followed by the execution that set it; one that finds the jump of another
\* execution runs while failures are counted (interaction.py:144), in any
\* configuration.
THEOREM JumpsAlwaysOwn == Spec => []JumpsAreOwn
<1>1. Init => JumpInv
  BY DEF Init, JumpInv
<1>2. TypeOK /\ JumpInv /\ [Next]_vars => JumpInv'
  BY JumpSteps
<1>3. TypeOK /\ JumpInv => JumpsAreOwn
  BY DEF TypeOK, ControlTypes, JumpInv, JumpsAreOwn
<1>4. QED
  BY <1>1, <1>2, <1>3, TypeCorrect, PTL DEF Spec

-----------------------------------------------------------------------------
(* The fetch of a defect.                                                  *)

\* The job of a fetch is not running any more.
Past == {"listing", "copying", "extracting", "attachments", "attaching", "saving", "writing",
         "done"}

\* Before there is anything to copy.
Early == {"new", "polling", "waiting", "listing"}

\* An undisturbed fetch is alone with its job, from its start to its end; the job
\* is over when the fetch goes on.
AloneInv ==
    /\ \A f \in Fetches \ disturbed : stage[f] # "new" => Active \union RunningJobs \subseteq {f}
    /\ \A f \in Fetches : stage[f] \in Past => pjob[f] # "running"

\* A file is half saved while a job copies it, or because one stopped doing so.
PartialInv ==
    \A n \in Files : pdir[n] = "partial" =>
        n \in torn \/ \E f \in RunningJobs : copying[f] = n

\* What a fetch has still to copy: only where it copies, and no file that the
\* puller does not hold.
TodoInv ==
    \A f \in Fetches :
        /\ downloaded[f] \subseteq Files
        /\ stage[f] \in Early => downloaded[f] = {} /\ items[f] = {} /\ offset[f] = 0
        /\ stage[f] = "copying"   => todo[f] \subseteq {n \in Files : pdir[n] # "absent"}
        /\ stage[f] = "attaching" => todo[f] \subseteq Attachments
        /\ stage[f] \in {"extracting", "attachments", "saving", "writing", "done"} => todo[f] = {}
        /\ offset[f] # 0 => stage[f] \in {"copying", "attaching"} /\ todo[f] # {}

\* How much of the file that is being copied has arrived.
Arrived(f, n) ==
    /\ offset[f] = 1 => disk[n] = Empty
    /\ offset[f] \in 2..Chunks => disk[n] = 1..(offset[f] - 1)
    /\ offset[f] = Chunks + 1 => disk[n] = Whole \/ n \in Unspeakable \union torn

CopyInv == \A f \in Fetches \ disturbed : \A n \in First(todo[f]) : Arrived(f, n)

\* A file is as the fetch says, or it is one that nothing is claimed of.
Good(f, n) == disk[n] = Whole \/ n \in Unspeakable \union torn \union DOMAIN origins[f]

\* What a fetch has copied is good.
Vouched(f) == (downloaded[f] \union items[f]) \ todo[f]

\* It is, from the first copy to meta.json, unless the fetch fails.
VouchInv ==
    \A f \in Fetches \ disturbed :
        stage[f] \in Past \ {"listing"} => \A n \in Vouched(f) : Good(f, n)

\* What the puller holds was copied, or is still to be.
HeldInv ==
    \A f \in Fetches \ disturbed :
        stage[f] \in Past \ {"listing"} =>
            {n \in Files : pdir[n] # "absent"} \subseteq downloaded[f] \union todo[f]

\* meta.json holds what the locals of its fetch held when it was done.
MetaInv ==
    meta.state = "written" =>
        /\ meta.by \in Fetches
        /\ stage[meta.by] = "done"
        /\ meta.files = downloaded[meta.by]
        /\ meta.items = items[meta.by]
        /\ meta.archive_origins = origins[meta.by]

\* The event loop is held by one fetch, and what it unpacks is nobody else's.
LoopInv ==
    /\ \A f, g \in Fetches :
         stage[f] \in {"extracting", "writing"} /\ stage[g] \in {"extracting", "writing"} => f = g
    /\ (\A f \in Fetches : stage[f] # "extracting") => unpack = Packed

\* What a user can find on the defect.
Top == Files \union UserFiles

\* While the first fetch unpacks, an archive is a file of the site or of the user, or
\* it came from one; and so did everything that was unpacked.
LabelInv ==
    \A f \in Fetches \ refetches :
        /\ \A n \in DOMAIN origins[f] : origins[f][n] \in Top
        /\ stage[f] = "extracting" =>
             unpack.round \union (Archives \cap Present) \subseteq Top \union DOMAIN origins[f]

------------------------------------------------------------------------------
\* Maps of files to archives.
LEMMA OriginsOf ==
    ASSUME NEW S \in SUBSET Names, NEW o \in [S -> Archives]
    PROVE  o \in Origins
BY DEF Origins

\* Where such a map is defined, and what it gives.
LEMMA OriginsAre ==
    ASSUME NEW o \in Origins
    PROVE  /\ DOMAIN o \subseteq Names
           /\ o \in [DOMAIN o -> Archives]
<1> PICK S \in SUBSET Names : o \in [S -> Archives]
  BY DEF Origins
<1> QED
  OBVIOUS

\* There is one first file.
LEMMA FirstIs ==
    ASSUME NEW S \in SUBSET Names, NEW n \in First(S)
    PROVE  n \in S /\ First(S) = {n}
BY NamesAssumption DEF First

------------------------------------------------------------------------------
\* The types.
LEMMA InitTypeOK == FetchInit => FetchTypeOK
<1> SUFFICES ASSUME FetchInit PROVE FetchTypeOK
  OBVIOUS
<1>1. <<>> \in [{} -> Archives]
  OBVIOUS
<1>2. <<>> \in Origins
  BY <1>1, OriginsOf
<1> QED
  BY <1>2, FetchBoundAssumption DEF FetchInit, FetchTypeOK, Packed, Absent, Names

\* A step of a job of the puller keeps the types.
LEMMA PullerTypes ==
    ASSUME FetchTypeOK, NEW f \in Fetches, PullerJob(f) PROVE FetchTypeOK'
<1> USE DEF FetchTypeOK, local, marks
<1>1. CASE \E n \in Files : SaveFile(f, n)
  BY <1>1 DEF SaveFile
<1>2. CASE FileSaved(f)
  BY <1>2 DEF FileSaved
<1>3. CASE \E n \in Files : FileFails(f, n)
  BY <1>3 DEF FileFails
<1>4. CASE \E how \in Outcomes : JobEnds(f, how)
  BY <1>4 DEF JobEnds, Outcomes
<1> QED
  BY <1>1, <1>2, <1>3, <1>4 DEF PullerJob

\* So does a restart.
LEMMA RestartTypes == ASSUME FetchTypeOK, PullerRestart \/ BackendRestart PROVE FetchTypeOK'
<1> USE FetchBoundAssumption DEF FetchTypeOK, local, marks, puller, Packed
<1>1. CASE PullerRestart
  BY <1>1 DEF PullerRestart
<1>2. CASE BackendRestart
  BY <1>2 DEF BackendRestart
<1> QED
  BY <1>1, <1>2

\* So does a change of the user.
LEMMA UserTypes ==
    ASSUME FetchTypeOK, NEW n \in UserFiles, AddUserLog(n) \/ DeleteUserLog(n) PROVE FetchTypeOK'
<1>1. Whole \in SUBSET (0..Chunks + 1) /\ Absent \in SUBSET (0..Chunks + 1)
  BY FetchBoundAssumption DEF Whole, Absent
<1> QED
  BY <1>1 DEF FetchTypeOK, local, marks, puller, AddUserLog, DeleteUserLog

\* What a file can hold.
LEMMA Contents ==
    /\ \A x \in {Absent, Empty, Whole, Other} : x \in SUBSET (0..Chunks + 1)
    /\ Whole \subseteq 0..Chunks + 1
BY FetchBoundAssumption DEF Whole, Absent, Empty, Other

\* The steps of a fetch that write no file.
LEMMA StepTypes ==
    ASSUME FetchTypeOK, NEW f \in Fetches,
           Start(f) \/ StartSync(f) \/ Poll(f) \/ Answer(f) \/ ListFiles(f) \/ ListAttachments(f)
           \/ Extract(f) \/ Attached(f) \/ OpenMeta(f) \/ WriteMeta(f)
           \/ Drop(f) \/ CutShort(f) \/ NextRound(f) \/ ArchiveGone(f)
    PROVE  FetchTypeOK'
<1> USE DEF FetchTypeOK, local, marks, puller
<1>1. CASE Start(f) \/ StartSync(f)
  BY <1>1 DEF Start, StartSync, StartJob
<1>2. CASE Poll(f) \/ Answer(f)
  BY <1>2 DEF Poll, Answer
<1>3. CASE ListFiles(f)
  BY <1>3, NamesAssumption DEF ListFiles
<1>4. CASE ListAttachments(f)
  BY <1>4, NamesAssumption DEF ListAttachments
<1>5. CASE Extract(f)
  BY <1>5 DEF Extract
<1>6. CASE Attached(f) \/ OpenMeta(f) \/ WriteMeta(f)
  BY <1>6 DEF Attached, OpenMeta, WriteMeta
<1>7. CASE RequestFails(f)
  <2>1. pjob' \in [Fetches -> {Nothing, "running", "gone"} \union Outcomes]
    BY <1>7 DEF RequestFails
  <2>2. offset' \in [Fetches -> 0..Chunks + 1]
    BY <1>7, FetchBoundAssumption DEF RequestFails
  <2>3. todo' \in [Fetches -> SUBSET Names] /\ items' \in [Fetches -> SUBSET Attachments]
    BY <1>7 DEF RequestFails
  <2> QED
    BY <1>7, <2>1, <2>2, <2>3 DEF RequestFails
<1>8. CASE NextRound(f)
  <2>1. Pending \subseteq Archives
    BY DEF Pending
  <2>2. unpack' \in [round : SUBSET Archives, processed : SUBSET Archives,
                     total : Nat, stopped : BOOLEAN]
    <3>1. unpack' \in {Packed, [unpack EXCEPT !.round = Pending]}
      BY <1>8 DEF NextRound
    <3>2. Packed \in [round : SUBSET Archives, processed : SUBSET Archives,
                      total : Nat, stopped : BOOLEAN]
      BY DEF Packed
    <3>3. CASE unpack' = Packed
      BY <3>2, <3>3
    <3>4. CASE unpack' = [unpack EXCEPT !.round = Pending]
      BY <2>1, <3>4
    <3> QED
      BY <3>1, <3>3, <3>4
  <2> QED
    BY <1>8, <2>2 DEF NextRound
<1>9. CASE ArchiveGone(f)
  BY <1>9 DEF ArchiveGone, Packed
<1> QED
  BY <1>1, <1>2, <1>3, <1>4, <1>5, <1>6, <1>7, <1>8, <1>9 DEF Drop, CutShort

\* The steps that write a file.
LEMMA CopyTypes ==
    ASSUME FetchTypeOK, NEW f \in Fetches, OpenFile(f) \/ WriteChunk(f) \/ CloseFile(f)
    PROVE  FetchTypeOK'
<1>1. CASE OpenFile(f)
  <2>1. disk' \in [Names -> SUBSET (0..Chunks + 1)]
    BY <1>1, Contents DEF FetchTypeOK, OpenFile, Names
  <2>2. offset' \in [Fetches -> 0..Chunks + 1]
    BY <1>1, FetchBoundAssumption DEF FetchTypeOK, OpenFile
  <2> QED
    BY <1>1, <2>1, <2>2 DEF FetchTypeOK, puller, marks, OpenFile
<1>2. CASE WriteChunk(f)
  <2>1. offset[f] \in 0..Chunks + 1 /\ offset[f] + 1 \in 0..Chunks + 1
    BY <1>2, FetchBoundAssumption DEF WriteChunk, Whole
  <2>2. disk' \in [Names -> SUBSET (0..Chunks + 1)]
    <3>1. PICK n \in First(todo[f]) :
             disk' = [disk EXCEPT ![n] = (@ \ Empty) \union {offset[f]}]
      BY <1>2 DEF WriteChunk
    <3>2. disk \in [Names -> SUBSET (0..Chunks + 1)]
      BY DEF FetchTypeOK
    <3> QED
      BY ONLY <2>1, <3>1, <3>2
  <2>3. offset' \in [Fetches -> 0..Chunks + 1]
    BY <1>2, <2>1 DEF FetchTypeOK, WriteChunk
  <2> QED
    BY <1>2, <2>2, <2>3 DEF FetchTypeOK, puller, marks, WriteChunk
<1>3. CASE CloseFile(f)
  <2>1. 0 \in 0..Chunks + 1
    BY FetchBoundAssumption
  <2>2. offset' \in [Fetches -> 0..Chunks + 1] /\ todo' \in [Fetches -> SUBSET Names]
    BY <1>3, <2>1 DEF FetchTypeOK, CloseFile
  <2>3. downloaded' \in [Fetches -> SUBSET Names]
    BY <1>3, FirstIs DEF FetchTypeOK, CloseFile
  <2> QED
    BY <1>3, <2>2, <2>3 DEF FetchTypeOK, puller, marks, CloseFile
<1> QED
  BY <1>1, <1>2, <1>3

\* What an archive unpacks to.
LEMMA EntriesAre ==
    ASSUME NEW a \in Archives, NEW S
    PROVE  {Inside[a][i] : i \in S \cap DOMAIN Inside[a]} \subseteq Names
<1>1. Inside[a] \in Seq(Names)
  BY NamesAssumption
<1>2. \A i \in DOMAIN Inside[a] : Inside[a][i] \in Names
  BY <1>1
<1> QED
  BY <1>2

\* What one archive changes, spelled out.
Unpacks(f, a, taken, entries, room) ==
    /\ a \in unpack.round
    /\ disk[a] # Absent
    /\ taken \subseteq Names
    /\ disk' = [n \in Names |-> IF n \notin taken THEN disk[n]
                                 ELSE IF n \in Files \union Attachments THEN Other ELSE Whole]
    /\ origins' = [origins EXCEPT ![f] =
            [n \in taken \union DOMAIN @ |-> IF n \in taken THEN Source(f, a) ELSE @[n]]]
    /\ unpack' = [round     |-> IF Len(entries) > room THEN {} ELSE unpack.round \ {a},
                  processed |-> unpack.processed \union {a},
                  total     |-> unpack.total + Len(entries),
                  stopped   |-> Len(entries) > room]
    /\ Len(entries) \in Nat

\* Some archive is unpacked.
LEMMA UnpackIs ==
    ASSUME FetchTypeOK, NEW f \in Fetches, UnpackArchive(f)
    PROVE  \E a, taken, entries, room :
               a \in Archives /\ Unpacks(f, a, taken, entries, room)
<1>1. PICK a \in First(unpack.round) :
         LET entries == IF disk[a] = Whole THEN Inside[a] ELSE <<>>
             room    == MaxExtract - unpack.total
             taken   == {entries[i] : i \in (1..room) \cap DOMAIN entries}
             full    == Len(entries) > room
         IN  /\ disk[a] # Absent
             /\ disk' = [n \in Names |-> IF n \notin taken THEN disk[n]
                                          ELSE IF n \in Files \union Attachments
                                          THEN Other ELSE Whole]
             /\ origins' = [origins EXCEPT ![f] =
                  [n \in taken \union DOMAIN @ |-> IF n \in taken THEN Source(f, a) ELSE @[n]]]
             /\ unpack' = [round     |-> IF full THEN {} ELSE unpack.round \ {a},
                           processed |-> unpack.processed \union {a},
                           total     |-> unpack.total + Len(entries),
                           stopped   |-> full]
  BY Zenon DEF UnpackArchive
<1> DEFINE entries == IF disk[a] = Whole THEN Inside[a] ELSE <<>>
           room    == MaxExtract - unpack.total
           taken   == {entries[i] : i \in (1..room) \cap DOMAIN entries}
<1>2. a \in unpack.round
  BY <1>1 DEF First
<1>3. a \in Archives
  BY <1>2 DEF FetchTypeOK
<1>4. entries \in Seq(Names)
  BY <1>3, NamesAssumption
<1>5. Len(entries) \in Nat /\ \A i \in DOMAIN entries : entries[i] \in Names
  BY <1>4
<1>6. taken \subseteq Names
  BY <1>5
<1>7. Unpacks(f, a, taken, entries, room)
  BY <1>1, <1>2, <1>5, <1>6, Zenon DEF Unpacks
<1> QED
  BY <1>3, <1>7, Zenon

\* An archive unpacked: the labels are archives.
LEMMA UnpackTypes ==
    ASSUME FetchTypeOK, NEW f \in Fetches, UnpackArchive(f)
    PROVE  FetchTypeOK'
<1>1. PICK a, taken, entries, room : a \in Archives /\ Unpacks(f, a, taken, entries, room)
  BY UnpackIs
<1>2. disk' \in [Names -> SUBSET (0..Chunks + 1)]
  BY <1>1, Contents DEF FetchTypeOK, Unpacks
<1>3. unpack' \in [round : SUBSET Archives, processed : SUBSET Archives,
                   total : Nat, stopped : BOOLEAN]
  BY <1>1 DEF FetchTypeOK, Unpacks
<1>4. origins' \in [Fetches -> Origins]
  <2>1. origins[f] \in [DOMAIN origins[f] -> Archives] /\ DOMAIN origins[f] \subseteq Names
    BY OriginsAre DEF FetchTypeOK
  <2>2. Source(f, a) \in Archives
    BY <1>1, <2>1 DEF Source
  <2> DEFINE S == taken \union DOMAIN origins[f]
             o == [n \in S |-> IF n \in taken THEN Source(f, a) ELSE origins[f][n]]
  <2>3. S \in SUBSET Names
    BY <1>1, <2>1 DEF Unpacks
  <2>4. o \in [S -> Archives]
    BY <2>1, <2>2
  <2>5. o \in Origins
    BY <2>3, <2>4, OriginsOf
  <2>6. origins' = [origins EXCEPT ![f] = o]
    BY <1>1 DEF Unpacks
  <2> QED
    BY <2>5, <2>6 DEF FetchTypeOK
<1> QED
  BY <1>2, <1>3, <1>4 DEF FetchTypeOK, UnpackArchive, puller, marks

\* Every step keeps the types.
LEMMA NextTypeOK == FetchTypeOK /\ [FetchNext]_fetchVars => FetchTypeOK'
<1> SUFFICES ASSUME FetchTypeOK, [FetchNext]_fetchVars PROVE FetchTypeOK'
  OBVIOUS
<1>1. CASE UNCHANGED fetchVars
  BY <1>1 DEF FetchTypeOK, fetchVars, local, marks, puller
<1>2. CASE FetchNext
  BY <1>2, PullerTypes, RestartTypes, UserTypes, StepTypes, CopyTypes, UnpackTypes
  DEF FetchNext, Fetch
<1> QED
  BY <1>1, <1>2

\* Every variable keeps its type.
THEOREM FetchTypeCorrect == FetchSpec => []FetchTypeOK
<1> QED
  BY InitTypeOK, NextTypeOK, PTL DEF FetchSpec

------------------------------------------------------------------------------
\* What the steps of the puller and of the user leave alone.
JobStep  == PullerRestart \/ \E f \in Fetches : PullerJob(f)
UserStep == \E n \in UserFiles : AddUserLog(n) \/ DeleteUserLog(n)

\* The puller leaves the workspace alone, and forgets no file it has.
LEMMA JobFrame ==
    ASSUME FetchTypeOK, JobStep
    PROVE  /\ UNCHANGED <<stage, local, disk, meta, disturbed, refetches>>
           /\ torn \subseteq torn' /\ RunningJobs' \subseteq RunningJobs
           /\ \A n \in Files : pdir[n] # "absent" => pdir'[n] # "absent"
<1> USE DEF FetchTypeOK, local, marks, RunningJobs
<1>1. CASE PullerRestart
  BY <1>1 DEF PullerRestart, Nothing
<1>2. ASSUME NEW f \in Fetches, PullerJob(f)
      PROVE  /\ UNCHANGED <<stage, local, disk, meta, disturbed, refetches>>
             /\ torn \subseteq torn' /\ RunningJobs' \subseteq RunningJobs
             /\ \A n \in Files : pdir[n] # "absent" => pdir'[n] # "absent"
  <2>1. CASE \E n \in Files : SaveFile(f, n) \/ FileFails(f, n)
    BY <2>1 DEF SaveFile, FileFails
  <2>2. CASE FileSaved(f)
    BY <2>2 DEF FileSaved
  <2>3. CASE \E how \in Outcomes : JobEnds(f, how)
    BY <2>3 DEF JobEnds, Outcomes
  <2> QED
    BY <1>2, <2>1, <2>2, <2>3 DEF PullerJob
<1> QED
  BY <1>1, <1>2 DEF JobStep

\* The user changes the files below user_added_log, and nothing else.
LEMMA UserFrame ==
    ASSUME FetchTypeOK, UserStep
    PROVE  /\ UNCHANGED <<stage, puller, local, meta, marks>>
           /\ \A n \in Names \ UserFiles : disk'[n] = disk[n]
           /\ \A n \in Names : n \in Present' => n \in Present \/ n \in UserFiles
BY DEF FetchTypeOK, UserStep, AddUserLog, DeleteUserLog, Present

\* The chunks of a file.
LEMMA WholeIs == \A k \in Whole : k \in Nat /\ k # 0 /\ k # Chunks + 1 /\ k <= Chunks
BY FetchBoundAssumption DEF Whole

\* Only a start makes a fetch or a job that was not there.
LEMMA NoNewActor ==
    ASSUME FetchTypeOK, TodoInv, [FetchNext]_fetchVars,
           ~ \E f \in Fetches : Start(f) \/ StartSync(f)
    PROVE  /\ Active' \subseteq Active /\ RunningJobs' \subseteq RunningJobs
           /\ disturbed' = disturbed
           /\ \A f \in Fetches : stage[f] = "new" => stage'[f] = "new"
           /\ \A f \in Fetches : stage[f] # "new" => stage'[f] # "new"
<1> DEFINE Goal ==
      /\ Active' \subseteq Active /\ RunningJobs' \subseteq RunningJobs
      /\ disturbed' = disturbed
      /\ \A f \in Fetches : stage[f] = "new" => stage'[f] = "new"
      /\ \A f \in Fetches : stage[f] # "new" => stage'[f] # "new"
<1>1. CASE UNCHANGED fetchVars
  BY <1>1 DEF fetchVars, puller, marks, Active, RunningJobs
<1>2. CASE JobStep
  BY <1>2, JobFrame DEF Active
<1>3. CASE UserStep
  BY <1>3, UserFrame DEF puller, marks, Active, RunningJobs
<1>4. CASE BackendRestart
  BY <1>4 DEF BackendRestart, FetchTypeOK, puller, marks, Active, RunningJobs
<1>5. ASSUME NEW f \in Fetches, Fetch(f) \/ Drop(f)
      PROVE  Goal
  <2> USE DEF FetchTypeOK, puller, marks, Active, RunningJobs
  <2>1. CASE Poll(f)
    BY <2>1 DEF Poll
  <2>2. CASE Answer(f) \/ ListFiles(f) \/ ListAttachments(f) \/ Extract(f) \/ Attached(f)
             \/ OpenMeta(f) \/ WriteMeta(f)
    BY <2>2 DEF Answer, ListFiles, ListAttachments, Extract, Attached, OpenMeta, WriteMeta
  <2>3. CASE OpenFile(f) \/ WriteChunk(f) \/ CloseFile(f) \/ UnpackArchive(f)
    BY <2>3 DEF OpenFile, WriteChunk, CloseFile, UnpackArchive
  <2>4. CASE NextRound(f) \/ ArchiveGone(f)
    BY <2>4 DEF NextRound, ArchiveGone
  <2>5. CASE Drop(f) \/ CutShort(f)
    <3>1. stage[f] \notin {"new", "done", "failed", "dead"}
      BY <2>5, WholeIs DEF Drop, CutShort, TodoInv
    <3> QED
      BY <2>5, <3>1 DEF Drop, CutShort, RequestFails
  <2> QED
    BY <1>5, <2>1, <2>2, <2>3, <2>4, <2>5 DEF Fetch
<1> QED
  BY <1>1, <1>2, <1>3, <1>4, <1>5 DEF FetchNext, JobStep, UserStep

------------------------------------------------------------------------------
\* An undisturbed fetch stays alone.
LEMMA AloneStep ==
    ASSUME FetchTypeOK, TodoInv, AloneInv, [FetchNext]_fetchVars PROVE AloneInv'
<1>1. ASSUME NEW f \in Fetches, Start(f) \/ StartSync(f) PROVE AloneInv'
  <2>1. PICK next \in {"polling", "waiting"} : StartJob(f, next)
    BY <1>1 DEF Start, StartSync
  <2>2. ASSUME NEW g \in Fetches \ disturbed', stage'[g] # "new"
        PROVE  Active' \union RunningJobs' \subseteq {g}
    <3>1. g = f /\ Active \union RunningJobs = {}
      BY <2>1, <2>2 DEF StartJob, FetchTypeOK
    <3> QED
      BY <2>1, <3>1 DEF StartJob, FetchTypeOK, Active, RunningJobs
  <2>3. ASSUME NEW g \in Fetches, stage'[g] \in Past PROVE pjob'[g] # "running"
    BY <2>1, <2>3 DEF StartJob, FetchTypeOK, AloneInv, Past
  <2> QED
    BY <2>2, <2>3 DEF AloneInv
<1>2. CASE ~ \E f \in Fetches : Start(f) \/ StartSync(f)
  <2>1. \A f \in Fetches \ disturbed' :
           stage'[f] # "new" => Active' \union RunningJobs' \subseteq {f}
    BY <1>2, NoNewActor DEF AloneInv
  <2>2. ASSUME NEW f \in Fetches, stage'[f] \in Past PROVE pjob'[f] # "running"
    <3>1. CASE stage[f] \in Past
      BY <1>2, <3>1, NoNewActor DEF AloneInv, RunningJobs
    <3>2. CASE stage[f] \notin Past
      <4>1. pjob[f] # "running"
        <5>1. CASE UNCHANGED fetchVars \/ JobStep \/ UserStep
          BY <2>2, <3>2, <5>1, JobFrame, UserFrame DEF fetchVars
        <5>2. CASE BackendRestart
          BY <2>2, <3>2, <5>2 DEF BackendRestart, FetchTypeOK, Past
        <5>3. ASSUME NEW g \in Fetches, Fetch(g) \/ Drop(g) PROVE pjob[f] # "running"
          <6> USE <2>2, <3>2 DEF FetchTypeOK, Past
          <6>1. CASE Poll(g) \/ Answer(g)
            BY <6>1 DEF Poll, Answer
          <6>2. CASE ListFiles(g) \/ ListAttachments(g) \/ Extract(g) \/ Attached(g)
                     \/ OpenMeta(g) \/ WriteMeta(g) \/ NextRound(g) \/ ArchiveGone(g)
            BY <6>2 DEF ListFiles, ListAttachments, Extract, Attached, OpenMeta, WriteMeta,
               NextRound, ArchiveGone
          <6>3. CASE OpenFile(g) \/ WriteChunk(g) \/ CloseFile(g) \/ UnpackArchive(g)
            BY <6>3 DEF OpenFile, WriteChunk, CloseFile, UnpackArchive
          <6>4. CASE Drop(g) \/ CutShort(g)
            BY <6>4 DEF Drop, CutShort, RequestFails
          <6> QED
            BY <5>3, <6>1, <6>2, <6>3, <6>4 DEF Fetch
        <5> QED
          BY <1>2, <5>1, <5>2, <5>3 DEF FetchNext, JobStep, UserStep
      <4> QED
        BY <1>2, <4>1, NoNewActor DEF RunningJobs
    <3> QED
      BY <3>1, <3>2
  <2> QED
    BY <2>1, <2>2 DEF AloneInv
<1> QED
  BY <1>1, <1>2

\* A half saved file has a job that copies it.
LEMMA PartialStep ==
    ASSUME FetchTypeOK, PartialInv, [FetchNext]_fetchVars PROVE PartialInv'
<1> USE DEF PartialInv, FetchTypeOK, RunningJobs
<1>1. CASE UNCHANGED <<puller, torn>>
  BY <1>1 DEF puller
<1>2. CASE PullerRestart
  BY <1>2 DEF PullerRestart
<1>3. ASSUME NEW f \in Fetches, PullerJob(f) PROVE PartialInv'
  <2>1. ASSUME NEW n \in Files, SaveFile(f, n) PROVE PartialInv'
    <3>1. ASSUME NEW m \in Files, pdir'[m] = "partial", m \notin torn'
          PROVE  \E g \in RunningJobs' : copying'[g] = m
      <4>1. CASE m = n
        BY <2>1, <4>1 DEF SaveFile, marks
      <4>2. CASE m # n
        <5>1. pdir[m] = "partial" /\ m \notin torn
          BY <2>1, <3>1, <4>2 DEF SaveFile, marks
        <5>2. PICK g \in RunningJobs : copying[g] = m
          BY <5>1
        <5>3. m # Nothing
          BY NamesAssumption
        <5> QED
          BY <2>1, <5>2, <5>3 DEF SaveFile, marks
      <4> QED
        BY <4>1, <4>2
    <3> QED
      BY <3>1
  <2>2. CASE \E n \in Files : FileFails(f, n)
    BY <2>2 DEF FileFails, marks
  <2>3. CASE FileSaved(f)
    BY <2>3 DEF FileSaved, marks
  <2>4. ASSUME NEW how \in Outcomes, JobEnds(f, how) PROVE PartialInv'
    <3>1. \A n \in Files : n # Nothing
      BY NamesAssumption
    <3> QED
      BY <2>4, <3>1 DEF JobEnds, Outcomes
  <2> QED
    BY <1>3, <2>1, <2>2, <2>3, <2>4 DEF PullerJob
<1>4. ASSUME NEW f \in Fetches, Start(f) \/ StartSync(f) PROVE PartialInv'
  BY <1>4 DEF Start, StartSync, StartJob
<1>5. ASSUME NEW f \in Fetches, Poll(f) PROVE PartialInv'
  BY <1>5 DEF Poll, marks
<1>6. ASSUME NEW f \in Fetches, RequestFails(f) PROVE PartialInv'
  BY <1>6 DEF RequestFails, marks
<1>7. CASE BackendRestart \/ UserStep
  BY <1>1, <1>7, UserFrame DEF BackendRestart, marks
<1>8. ASSUME NEW f \in Fetches,
             Answer(f) \/ ListFiles(f) \/ ListAttachments(f) \/ Extract(f) \/ Attached(f)
             \/ OpenMeta(f) \/ WriteMeta(f) \/ NextRound(f) \/ ArchiveGone(f)
      PROVE  PartialInv'
  BY <1>1, <1>8 DEF Answer, ListFiles, ListAttachments, Extract, Attached, OpenMeta, WriteMeta,
     NextRound, ArchiveGone, marks
<1>9. ASSUME NEW f \in Fetches,
             OpenFile(f) \/ WriteChunk(f) \/ CloseFile(f) \/ UnpackArchive(f)
      PROVE  PartialInv'
  BY <1>1, <1>9 DEF OpenFile, WriteChunk, CloseFile, UnpackArchive, marks
<1> QED
  BY <1>1, <1>2, <1>3, <1>4, <1>5, <1>6, <1>7, <1>8, <1>9
  DEF FetchNext, Fetch, Drop, CutShort, fetchVars, marks, UserStep

------------------------------------------------------------------------------
\* What a fetch has still to copy.
LEMMA TodoStep ==
    ASSUME FetchTypeOK, TodoInv, [FetchNext]_fetchVars PROVE TodoInv'
<1> USE DEF FetchTypeOK
<1>1. CASE UNCHANGED <<stage, pdir, todo, downloaded, items, offset>>
  BY <1>1 DEF TodoInv
<1>2. CASE JobStep
  BY <1>2, JobFrame DEF TodoInv, local
<1>3. CASE UserStep \/ UNCHANGED fetchVars
  BY <1>1, <1>3, UserFrame DEF puller, local, fetchVars
<1>4. CASE BackendRestart
  BY <1>4 DEF TodoInv, BackendRestart, puller, marks, Early, Active
<1>5. ASSUME NEW f \in Fetches,
             Start(f) \/ StartSync(f) \/ Poll(f) \/ Answer(f)
      PROVE  TodoInv'
  BY <1>5 DEF TodoInv, Early, Start, StartSync, StartJob, Poll, Answer, puller, local, marks
<1>6. ASSUME NEW f \in Fetches, ListFiles(f) PROVE TodoInv'
  BY <1>6 DEF TodoInv, Early, ListFiles, puller, marks
<1>7. ASSUME NEW f \in Fetches, ListAttachments(f) PROVE TodoInv'
  BY <1>7 DEF TodoInv, Early, ListAttachments, puller, marks
<1>8. ASSUME NEW f \in Fetches, OpenFile(f) PROVE TodoInv'
  <2>1. todo[f] # {}
    BY <1>8, FirstIs DEF OpenFile
  <2> QED
    BY <1>8, <2>1, FetchBoundAssumption DEF TodoInv, Early, OpenFile, puller, marks
<1>9. ASSUME NEW f \in Fetches, WriteChunk(f) PROVE TodoInv'
  <2>1. offset[f] # 0 /\ offset[f] + 1 # 0
    BY <1>9, WholeIs DEF WriteChunk
  <2> QED
    BY <1>9, <2>1 DEF TodoInv, Early, WriteChunk, puller, marks
<1>10. ASSUME NEW f \in Fetches, CloseFile(f) PROVE TodoInv'
  <2>1. stage[f] \in {"copying", "attaching"}
    BY <1>10, FetchBoundAssumption DEF CloseFile, TodoInv
  <2>2. First(todo[f]) \subseteq todo[f]
    BY DEF First
  <2>3. stage[f] = "copying" => First(todo[f]) \subseteq Files
    BY <2>2 DEF TodoInv
  <2> QED
    BY <1>10, <2>1, <2>2, <2>3 DEF TodoInv, Early, CloseFile, puller, marks
<1>11. ASSUME NEW f \in Fetches, Extract(f) \/ Attached(f) PROVE TodoInv'
  BY <1>11, FetchBoundAssumption DEF TodoInv, Early, Extract, Attached, puller, local, marks
<1>12. ASSUME NEW f \in Fetches, OpenMeta(f) \/ WriteMeta(f) PROVE TodoInv'
  BY <1>12 DEF TodoInv, Early, OpenMeta, WriteMeta, puller, local, marks
<1>13. ASSUME NEW f \in Fetches, NextRound(f) \/ UnpackArchive(f) \/ ArchiveGone(f)
       PROVE TodoInv'
  BY <1>13 DEF TodoInv, Early, NextRound, UnpackArchive, ArchiveGone, puller, marks
<1>14. ASSUME NEW f \in Fetches, RequestFails(f) PROVE TodoInv'
  BY <1>14 DEF TodoInv, Early, RequestFails, marks
<1> QED
  BY <1>2, <1>3, <1>4, <1>5, <1>6, <1>7, <1>8, <1>9, <1>10, <1>11, <1>12, <1>13, <1>14
  DEF FetchNext, Fetch, Drop, CutShort, JobStep, UserStep

------------------------------------------------------------------------------
\* A fetch that nothing disturbs is the only one, and no job of the puller runs
\* while it copies.
LEMMA OnlyOne ==
    ASSUME AloneInv, NEW f \in Fetches \ disturbed, stage[f] # "new", NEW g \in Active
    PROVE  g = f
BY DEF AloneInv

\* So none writes into the workspace beside it.
LEMMA CopiesAlone ==
    ASSUME FetchTypeOK, TodoInv, AloneInv, NEW f \in Fetches \ disturbed, NEW g \in Fetches,
           OpenFile(g) \/ WriteChunk(g) \/ UnpackArchive(g), stage[f] # "new"
    PROVE  g = f
<1>1. stage[g] \in {"copying", "attaching", "extracting"}
  BY WholeIs DEF OpenFile, WriteChunk, UnpackArchive, TodoInv
<1> QED
  BY <1>1, OnlyOne DEF Active

\* No job of the puller rewrites what it copies.
LEMMA NoJobRuns ==
    ASSUME AloneInv, NEW f \in Fetches \ disturbed, stage[f] \in Past
    PROVE  RunningJobs = {}
BY DEF AloneInv, RunningJobs, Past

\* A chunk more.
LEMMA OneMore ==
    ASSUME NEW k \in Whole, NEW d, k = 1 => d = Empty, k \in 2..Chunks => d = 1..(k - 1)
    PROVE  /\ k + 1 \in 2..Chunks => (d \ Empty) \union {k} = 1..k
           /\ k + 1 = Chunks + 1 => (d \ Empty) \union {k} = Whole
<1>1. k \in Nat /\ k >= 1 /\ k <= Chunks /\ Chunks \in Nat
  BY FetchBoundAssumption DEF Whole
<1>2. (d \ Empty) \union {k} = 1..k
  <2>1. CASE k = 1
    BY <2>1
  <2>2. CASE k # 1
    <3>1. d = 1..(k - 1)
      BY <1>1, <2>2
    <3> QED
      BY <1>1, <2>2, <3>1 DEF Empty
  <2> QED
    BY <2>1, <2>2
<1> QED
  BY <1>1, <1>2 DEF Whole

\* Of the file that is being copied, the chunks before the next one have arrived.
LEMMA OpenArrives ==
    ASSUME FetchTypeOK, TodoInv, AloneInv, PartialInv, NEW f \in Fetches \ disturbed, OpenFile(f),
           NEW n \in First(todo'[f])
    PROVE  Arrived(f, n)'
<1> USE DEF FetchTypeOK
<1>1. todo' = todo /\ torn' = torn
  BY DEF OpenFile, marks
<1>2. n \in First(todo[f])
  BY <1>1 DEF First
<1>3. n \in todo[f] /\ First(todo[f]) = {n} /\ n \in Names
  BY <1>2, FirstIs
<1>4. \/ Served(n) = "whole" /\ disk' = [disk EXCEPT ![n] = Empty]
         /\ offset' = [offset EXCEPT ![f] = 1]
      \/ Served(n) \in {"absent", "partial"} /\ offset' = [offset EXCEPT ![f] = Chunks + 1]
  BY <1>3 DEF OpenFile
<1>5. CASE Served(n) = "whole" /\ disk' = [disk EXCEPT ![n] = Empty]
           /\ offset' = [offset EXCEPT ![f] = 1]
  BY <1>3, <1>5, FetchBoundAssumption DEF Arrived
<1>6. CASE Served(n) \in {"absent", "partial"} /\ offset' = [offset EXCEPT ![f] = Chunks + 1]
  <2>1. n \in Unspeakable \union torn
    <3>1. stage[f] \in {"copying", "attaching"}
      BY DEF OpenFile
    <3>2. RunningJobs = {}
      BY <3>1, NoJobRuns DEF Past
    <3>3. n \in Files => pdir[n] # "absent"
      BY <1>3, <3>1, NamesAssumption DEF TodoInv
    <3> QED
      BY <1>6, <3>2, <3>3 DEF Served, PartialInv
  <2>2. offset'[f] = Chunks + 1
    BY <1>6
  <2>3. Chunks + 1 # 1 /\ Chunks + 1 \notin 2..Chunks
    BY FetchBoundAssumption
  <2> QED
    BY <1>1, <2>1, <2>2, <2>3 DEF Arrived
<1> QED
  BY <1>4, <1>5, <1>6

\* The next chunk arrives.
LEMMA WriteArrives ==
    ASSUME FetchTypeOK, CopyInv, NEW f \in Fetches \ disturbed, WriteChunk(f),
           NEW n \in First(todo'[f])
    PROVE  Arrived(f, n)'
<1>1. todo' = todo /\ torn' = torn
  BY DEF WriteChunk, marks
<1>2. n \in First(todo[f])
  BY <1>1 DEF First
<1>3. First(todo[f]) = {n} /\ n \in Names
  BY <1>2, FirstIs DEF FetchTypeOK
<1>4. disk' = [disk EXCEPT ![n] = (@ \ Empty) \union {offset[f]}]
  BY <1>3 DEF WriteChunk
<1>5. disk'[n] = (disk[n] \ Empty) \union {offset[f]}
  BY <1>3, <1>4 DEF FetchTypeOK
<1>6. offset[f] \in Whole /\ offset'[f] = offset[f] + 1
  BY DEF WriteChunk, FetchTypeOK
<1>7. /\ offset[f] = 1 => disk[n] = Empty
      /\ offset[f] \in 2..Chunks => disk[n] = 1..(offset[f] - 1)
  BY <1>2 DEF CopyInv, Arrived
<1> DEFINE k == offset[f]
           d == disk[n]
<1>8. /\ k + 1 \in 2..Chunks => (d \ Empty) \union {k} = 1..k
      /\ k + 1 = Chunks + 1 => (d \ Empty) \union {k} = Whole
  BY <1>6, <1>7, OneMore
<1>9. k + 1 # 1 /\ (k + 1) - 1 = k
  BY <1>6, WholeIs
<1> QED
  BY <1>5, <1>6, <1>8, <1>9 DEF Arrived

\* Whatever happens to the others, the file that is being copied stays in order.
LEMMA CopyStep ==
    ASSUME FetchTypeOK, TodoInv, AloneInv, PartialInv, CopyInv, [FetchNext]_fetchVars PROVE CopyInv'
<1> SUFFICES ASSUME NEW f \in Fetches \ disturbed', NEW n \in First(todo'[f]), offset'[f] # 0
             PROVE  Arrived(f, n)'
  BY FetchBoundAssumption DEF CopyInv, Arrived
<1> USE DEF FetchTypeOK
<1>1. CASE UNCHANGED <<disk, todo, offset>> /\ disturbed \subseteq disturbed'
           /\ torn \subseteq torn'
  BY <1>1 DEF CopyInv, Arrived, First
<1>2. CASE UNCHANGED fetchVars \/ JobStep
  BY <1>1, <1>2, JobFrame DEF fetchVars, marks, local
<1>3. CASE UserStep
  <2>1. offset[f] # 0 /\ todo' = todo /\ n \in First(todo[f]) /\ f \notin disturbed
        /\ offset' = offset /\ torn' = torn
    BY <1>3, UserFrame DEF puller, local, marks, First
  <2>2. n \in Files \union Attachments
    BY <2>1, FirstIs DEF TodoInv
  <2>3. disk'[n] = disk[n]
    BY <1>3, <2>2, UserFrame, NamesAssumption
  <2> QED
    BY <2>1, <2>3 DEF CopyInv, Arrived
<1>4. CASE BackendRestart
  BY <1>4 DEF BackendRestart
<1>5. ASSUME NEW g \in Fetches,
             Start(g) \/ StartSync(g) \/ Poll(g) \/ Answer(g) \/ Extract(g) \/ Attached(g)
             \/ OpenMeta(g) \/ WriteMeta(g) \/ NextRound(g) \/ ArchiveGone(g)
      PROVE  Arrived(f, n)'
  BY <1>1, <1>5 DEF Start, StartSync, StartJob, Poll, Answer, Extract, Attached, OpenMeta,
     WriteMeta, NextRound, ArchiveGone, marks, local
<1>6. ASSUME NEW g \in Fetches, ListFiles(g) \/ ListAttachments(g) PROVE Arrived(f, n)'
  <2>1. offset[g] = 0 /\ g # f
    BY <1>6 DEF ListFiles, ListAttachments, TodoInv, Early
  <2>2. UNCHANGED <<disk, offset, disturbed, torn>> /\ todo'[f] = todo[f]
    BY <1>6, <2>1 DEF ListFiles, ListAttachments, marks
  <2>3. n \in First(todo[f])
    BY <2>2 DEF First
  <2> QED
    BY <2>2, <2>3 DEF CopyInv, Arrived
<1>7. ASSUME NEW g \in Fetches, CloseFile(g) \/ RequestFails(g) PROVE Arrived(f, n)'
  <2>1. g # f
    BY <1>7 DEF CloseFile, RequestFails
  <2>2. UNCHANGED <<disk, disturbed, torn>> /\ todo'[f] = todo[f] /\ offset'[f] = offset[f]
    BY <1>7, <2>1 DEF CloseFile, RequestFails, marks
  <2>3. n \in First(todo[f])
    BY <2>2 DEF First
  <2> QED
    BY <2>2, <2>3 DEF CopyInv, Arrived
<1>8. ASSUME NEW g \in Fetches, OpenFile(g) \/ WriteChunk(g) \/ UnpackArchive(g)
      PROVE  Arrived(f, n)'
  <2>1. f \in Fetches \ disturbed /\ stage' = stage
    BY <1>8 DEF OpenFile, WriteChunk, UnpackArchive, marks
  <2>2. CASE f = g
    <3>1. ~UnpackArchive(g)
      BY <2>2 DEF UnpackArchive, TodoInv
    <3> QED
      BY <1>8, <2>1, <2>2, <3>1, OpenArrives, WriteArrives
  <2>3. CASE f # g
    <3>1. offset'[f] = offset[f]
      BY <1>8, <2>3 DEF OpenFile, WriteChunk, UnpackArchive
    <3>2. stage[f] # "new"
      BY <3>1 DEF TodoInv
    <3> QED
      BY <1>8, <2>1, <2>3, <3>2, CopiesAlone
  <2> QED
    BY <2>2, <2>3
<1> QED
  BY <1>2, <1>3, <1>4, <1>5, <1>6, <1>7, <1>8
  DEF FetchNext, Fetch, Drop, CutShort, JobStep, UserStep

------------------------------------------------------------------------------
\* What a fetch has copied stays good.
LEMMA GoodStays ==
    ASSUME NEW f, NEW n, Good(f, n), disk'[n] = disk[n], torn \subseteq torn',
           DOMAIN origins[f] \subseteq DOMAIN origins'[f]
    PROVE  Good(f, n)'
BY DEF Good

\* What a fetch vouches for stays good: a file joins when it is complete, and none
\* is written to after that, except by an archive.
LEMMA VouchStep ==
    ASSUME FetchTypeOK, TodoInv, AloneInv, CopyInv, VouchInv, [FetchNext]_fetchVars PROVE VouchInv'
<1> SUFFICES ASSUME NEW f \in Fetches \ disturbed', stage'[f] \in Past \ {"listing"},
                    NEW n \in Vouched(f)'
             PROVE  Good(f, n)'
  BY DEF VouchInv
<1> USE DEF FetchTypeOK
<1>1. CASE UNCHANGED <<stage, disk, todo, downloaded, items, origins>>
           /\ disturbed \subseteq disturbed' /\ torn \subseteq torn'
  <2>1. f \notin disturbed /\ stage[f] \in Past \ {"listing"} /\ n \in Vouched(f)
    BY <1>1 DEF Vouched
  <2> QED
    BY <1>1, <2>1, GoodStays DEF VouchInv
<1>2. CASE UNCHANGED fetchVars \/ JobStep
  BY <1>1, <1>2, JobFrame DEF fetchVars, marks, local
<1>3. CASE UserStep
  <2>1. f \notin disturbed /\ UNCHANGED <<stage, todo, downloaded, items, origins, torn>>
    BY <1>3, UserFrame DEF marks, local
  <2>2. n \in Vouched(f) /\ Good(f, n)
    BY <2>1 DEF Vouched, VouchInv
  <2>3. n \in Files \union Attachments
    BY <2>2 DEF Vouched, TodoInv
  <2>4. disk'[n] = disk[n]
    BY <1>3, <2>3, UserFrame, NamesAssumption
  <2> QED
    BY <2>1, <2>2, <2>4, GoodStays
<1>4. CASE BackendRestart
  <2>1. stage[f] = "done" /\ stage'[f] = "done"
    BY <1>4 DEF BackendRestart, Active, Past
  <2>2. f \notin disturbed /\ UNCHANGED <<todo, downloaded, items, origins, disk, torn>>
    BY <1>4 DEF BackendRestart, marks
  <2>3. n \in Vouched(f)
    BY <2>2 DEF Vouched
  <2> QED
    BY <2>1, <2>2, <2>3, GoodStays DEF VouchInv, Past
<1>5. ASSUME NEW g \in Fetches, Start(g) \/ StartSync(g) \/ Poll(g) \/ Answer(g)
      PROVE  Good(f, n)'
  <2>1. /\ UNCHANGED <<todo, downloaded, items, origins, disk, torn>>
        /\ disturbed \subseteq disturbed' /\ stage[f] \in Past \ {"listing"}
    BY <1>5 DEF Start, StartSync, StartJob, Poll, Answer, marks, local, Past
  <2>2. n \in Vouched(f)
    BY <2>1 DEF Vouched
  <2> QED
    BY <2>1, <2>2, GoodStays DEF VouchInv
<1>6. ASSUME NEW g \in Fetches,
             Extract(g) \/ Attached(g) \/ OpenMeta(g) \/ WriteMeta(g) \/ NextRound(g)
             \/ ArchiveGone(g)
      PROVE  Good(f, n)'
  <2>1. /\ UNCHANGED <<todo, downloaded, items, origins, disk, disturbed, torn>>
        /\ stage[f] \in Past \ {"listing"}
    BY <1>6 DEF Extract, Attached, OpenMeta, WriteMeta, NextRound, ArchiveGone, marks, local,
       Past
  <2>2. n \in Vouched(f)
    BY <2>1 DEF Vouched
  <2> QED
    BY <2>1, <2>2, GoodStays DEF VouchInv
<1>7. ASSUME NEW g \in Fetches, ListFiles(g) PROVE Good(f, n)'
  <2>1. UNCHANGED <<downloaded, items, origins, disk, disturbed, torn>>
    BY <1>7 DEF ListFiles, marks
  <2>2. downloaded[g] = {} /\ items[g] = {}
    BY <1>7 DEF ListFiles, TodoInv, Early
  <2>3. f # g
    BY <2>1, <2>2 DEF Vouched
  <2>4. stage[f] = stage'[f] /\ todo'[f] = todo[f]
    BY <1>7, <2>3 DEF ListFiles
  <2>5. n \in Vouched(f)
    BY <2>1, <2>4 DEF Vouched
  <2> QED
    BY <2>1, <2>4, <2>5, GoodStays DEF VouchInv
<1>8. ASSUME NEW g \in Fetches, ListAttachments(g) PROVE Good(f, n)'
  <2>1. UNCHANGED <<downloaded, origins, disk, disturbed, torn>>
    BY <1>8 DEF ListAttachments, marks
  <2>2. stage[f] \in Past \ {"listing"}
    BY <1>8 DEF ListAttachments, Past
  <2>3. n \in Vouched(f)
    <3>1. CASE f = g
      <4>1. n \in downloaded[f] /\ todo[f] = {}
        BY <1>8, <2>1, <3>1 DEF Vouched, ListAttachments, TodoInv
      <4> QED
        BY <4>1 DEF Vouched
    <3>2. CASE f # g
      BY <1>8, <2>1, <3>2 DEF Vouched, ListAttachments
    <3> QED
      BY <3>1, <3>2
  <2> QED
    BY <2>1, <2>2, <2>3, GoodStays DEF VouchInv
<1>9. ASSUME NEW g \in Fetches, CloseFile(g) PROVE Good(f, n)'
  <2>1. UNCHANGED <<stage, items, origins, disk, disturbed, torn>>
    BY <1>9 DEF CloseFile, marks
  <2>2. CASE n \in Vouched(f)
    BY <2>1, <2>2, GoodStays DEF VouchInv
  <2>3. CASE n \notin Vouched(f)
    <3>1. f = g /\ n \in First(todo[f])
      BY <1>9, <2>1, <2>3 DEF Vouched, CloseFile
    <3>2. Arrived(f, n) /\ offset[f] = Chunks + 1
      BY <1>9, <2>1, <3>1 DEF CopyInv, CloseFile
    <3>3. Good(f, n)
      BY <3>2 DEF Good, Arrived
    <3> QED
      BY <2>1, <3>3, GoodStays
  <2> QED
    BY <2>2, <2>3
<1>10. ASSUME NEW g \in Fetches, RequestFails(g), g \in Active PROVE Good(f, n)'
  <2>1. UNCHANGED <<downloaded, origins, disk, disturbed, torn>>
    BY <1>10 DEF RequestFails, marks
  <2>2. CASE f = g
    <3>1. stage[f] \in {"attachments", "attaching"}
      BY <1>10, <2>2 DEF RequestFails, Past
    <3>2. n \in downloaded[f] /\ n \notin todo[f]
      <4>1. n \in downloaded[f]
        BY <1>10, <2>1, <2>2 DEF RequestFails, Vouched
      <4> QED
        BY <3>1, <4>1, NamesAssumption DEF TodoInv
    <3> QED
      BY <2>1, <3>1, <3>2, GoodStays DEF VouchInv, Vouched, Past
  <2>3. CASE f # g
    <3>1. stage'[f] = stage[f] /\ todo'[f] = todo[f] /\ items'[f] = items[f]
      BY <1>10, <2>3 DEF RequestFails
    <3> QED
      BY <2>1, <3>1, GoodStays DEF VouchInv, Vouched
  <2> QED
    BY <2>2, <2>3
<1>11. ASSUME NEW g \in Fetches, OpenFile(g) \/ WriteChunk(g) PROVE Good(f, n)'
  <2>1. UNCHANGED <<stage, todo, downloaded, items, origins, disturbed, torn>>
    BY <1>11 DEF OpenFile, WriteChunk, marks
  <2>2. f = g
    BY <1>11, <2>1, CopiesAlone DEF Past
  <2>3. n \in Vouched(f) /\ n \in Names
    BY <2>1, NamesAssumption DEF Vouched
  <2>4. disk'[n] = disk[n]
    <3>1. \E m \in First(todo[f]) : \E x : disk' = [disk EXCEPT ![m] = x]
      BY <1>11, <2>2 DEF OpenFile, WriteChunk
    <3>2. PICK m, x : m # n /\ disk' = [disk EXCEPT ![m] = x]
      BY <2>3, <3>1 DEF Vouched, First
    <3> QED
      BY <2>3, <3>2
  <2> QED
    BY <2>1, <2>3, <2>4, GoodStays DEF VouchInv
<1>12. ASSUME NEW g \in Fetches, UnpackArchive(g) PROVE Good(f, n)'
  <2>1. UNCHANGED <<stage, todo, downloaded, items, disturbed, torn>>
    BY <1>12 DEF UnpackArchive, marks
  <2>2. f = g
    BY <1>12, <2>1, CopiesAlone DEF Past
  <2>3. PICK a, taken, entries, room : a \in Archives /\ Unpacks(f, a, taken, entries, room)
    BY <1>12, <2>2, UnpackIs
  <2>4. DOMAIN origins'[f] = taken \union DOMAIN origins[f]
    BY <2>3 DEF Unpacks
  <2>5. n \in Vouched(f) /\ n \in Names
    BY <2>1, NamesAssumption DEF Vouched
  <2>6. CASE n \in taken
    BY <2>4, <2>6 DEF Good
  <2>7. CASE n \notin taken
    <3>1. disk'[n] = disk[n]
      BY <2>3, <2>5, <2>7 DEF Unpacks
    <3> QED
      BY <2>1, <2>4, <2>5, <3>1, GoodStays DEF VouchInv
  <2> QED
    BY <2>6, <2>7
<1>13. ASSUME NEW g \in Fetches, Drop(g) \/ CutShort(g) PROVE g \in Active
  BY <1>13, WholeIs DEF Drop, CutShort, TodoInv, Active
<1> QED
  BY <1>2, <1>3, <1>4, <1>5, <1>6, <1>7, <1>8, <1>9, <1>10, <1>11, <1>12, <1>13
  DEF FetchNext, Fetch, Drop, CutShort, JobStep, UserStep

------------------------------------------------------------------------------
\* What the puller holds is not passed over.
LEMMA HeldStep ==
    ASSUME FetchTypeOK, TodoInv, AloneInv, HeldInv, [FetchNext]_fetchVars PROVE HeldInv'
<1> SUFFICES ASSUME NEW f \in Fetches \ disturbed', stage'[f] \in Past \ {"listing"},
                    NEW n \in Files, pdir'[n] # "absent"
             PROVE  n \in downloaded'[f] \union todo'[f]
  BY DEF HeldInv
<1> USE DEF FetchTypeOK
<1>1. CASE f \notin disturbed /\ stage[f] \in Past \ {"listing"} /\ pdir' = pdir
           /\ downloaded[f] \subseteq downloaded'[f] /\ todo[f] \cap Files \subseteq todo'[f]
  BY <1>1 DEF HeldInv
<1>2. CASE UNCHANGED fetchVars \/ UserStep
  BY <1>1, <1>2, UserFrame DEF fetchVars, marks, local, puller
<1>3. CASE JobStep
  <2>1. f \notin disturbed /\ stage[f] \in Past \ {"listing"} /\ UNCHANGED <<downloaded, todo>>
    BY <1>3, JobFrame DEF local
  <2>2. RunningJobs = {}
    BY <2>1, NoJobRuns
  <2>3. pdir' = pdir
    BY <1>3, <2>2 DEF JobStep, PullerRestart, PullerJob, RunningJobs, SaveFile, FileSaved,
       FileFails, JobEnds
  <2> QED
    BY <1>1, <2>1, <2>3
<1>4. CASE BackendRestart
  BY <1>1, <1>4 DEF BackendRestart, Active, Past, puller, marks
<1>5. ASSUME NEW g \in Fetches, Start(g) \/ StartSync(g) \/ Poll(g) \/ Answer(g)
      PROVE  n \in downloaded'[f] \union todo'[f]
  BY <1>1, <1>5 DEF Start, StartSync, StartJob, Poll, Answer, Past, puller, marks, local
<1>6. ASSUME NEW g \in Fetches, ListFiles(g) PROVE n \in downloaded'[f] \union todo'[f]
  BY <1>1, <1>6 DEF ListFiles, Past, puller, marks
<1>7. ASSUME NEW g \in Fetches, ListAttachments(g) PROVE n \in downloaded'[f] \union todo'[f]
  BY <1>1, <1>7 DEF ListAttachments, TodoInv, Past, puller, marks
<1>8. ASSUME NEW g \in Fetches,
             OpenFile(g) \/ WriteChunk(g) \/ Extract(g) \/ Attached(g) \/ OpenMeta(g)
             \/ WriteMeta(g)
      PROVE  n \in downloaded'[f] \union todo'[f]
  BY <1>1, <1>8 DEF OpenFile, WriteChunk, Extract, Attached, OpenMeta, WriteMeta, Past, puller,
     marks, local
<1>9. ASSUME NEW g \in Fetches, NextRound(g) \/ UnpackArchive(g) \/ ArchiveGone(g)
      PROVE  n \in downloaded'[f] \union todo'[f]
  BY <1>1, <1>9 DEF NextRound, UnpackArchive, ArchiveGone, Past, puller, marks
<1>10. ASSUME NEW g \in Fetches, CloseFile(g) PROVE n \in downloaded'[f] \union todo'[f]
  <2>1. UNCHANGED <<stage, pdir, disturbed>>
    BY <1>10 DEF CloseFile, puller, marks
  <2>2. n \in downloaded[f] \union todo[f]
    BY <2>1 DEF HeldInv
  <2>3. stage[g] = "attaching" => n \notin todo[g]
    BY NamesAssumption DEF TodoInv
  <2>4. stage[g] \in {"copying", "attaching"}
    BY <1>10, FetchBoundAssumption DEF CloseFile, TodoInv
  <2> QED
    BY <1>10, <2>2, <2>3, <2>4 DEF CloseFile
<1>11. ASSUME NEW g \in Fetches, RequestFails(g), Drop(g) \/ CutShort(g)
       PROVE  n \in downloaded'[f] \union todo'[f]
  <2>1. UNCHANGED <<pdir, downloaded, disturbed>>
    BY <1>11 DEF RequestFails, marks
  <2>2. stage[g] \notin {"saving", "writing", "done", "extracting"}
    BY <1>11, WholeIs DEF Drop, CutShort, TodoInv
  <2>3. CASE f = g
    <3>1. stage[f] \in {"attachments", "attaching"}
      BY <1>11, <2>3 DEF RequestFails, Past
    <3>2. n \notin todo[f]
      BY <3>1, NamesAssumption DEF TodoInv
    <3> QED
      BY <2>1, <3>1, <3>2 DEF HeldInv, Past
  <2>4. CASE f # g
    BY <1>11, <2>1, <2>4 DEF RequestFails, HeldInv
  <2> QED
    BY <2>3, <2>4
<1> QED
  BY <1>2, <1>3, <1>4, <1>5, <1>6, <1>7, <1>8, <1>9, <1>10, <1>11
  DEF FetchNext, Fetch, Drop, CutShort, JobStep, UserStep

------------------------------------------------------------------------------
\* meta.json and the locals of the fetch that wrote it.
LEMMA MetaStep ==
    ASSUME FetchTypeOK, TodoInv, MetaInv, [FetchNext]_fetchVars PROVE MetaInv'
<1> USE DEF FetchTypeOK
<1>1. ASSUME UNCHANGED meta,
             meta.state = "written" =>
                 /\ stage'[meta.by] = stage[meta.by]
                 /\ downloaded'[meta.by] = downloaded[meta.by]
                 /\ items'[meta.by] = items[meta.by]
                 /\ origins'[meta.by] = origins[meta.by]
      PROVE  MetaInv'
  BY <1>1 DEF MetaInv
<1>2. CASE UNCHANGED fetchVars \/ JobStep \/ UserStep \/ BackendRestart
  BY <1>1, <1>2, JobFrame, UserFrame DEF fetchVars, local, MetaInv, BackendRestart, Active
<1>3. ASSUME NEW f \in Fetches,
             Start(f) \/ StartSync(f) \/ Poll(f) \/ Answer(f) \/ ListFiles(f)
             \/ ListAttachments(f) \/ OpenFile(f) \/ Extract(f) \/ Attached(f)
      PROVE  MetaInv'
  BY <1>1, <1>3 DEF Start, StartSync, StartJob, Poll, Answer, ListFiles, ListAttachments,
     OpenFile, Extract, Attached, local, MetaInv
<1>4. ASSUME NEW f \in Fetches, NextRound(f) \/ ArchiveGone(f) \/ UnpackArchive(f)
      PROVE  MetaInv'
  BY <1>1, <1>4 DEF NextRound, ArchiveGone, UnpackArchive, MetaInv
<1>5. ASSUME NEW f \in Fetches, WriteChunk(f) \/ CloseFile(f) PROVE MetaInv'
  <2>1. stage[f] \in {"copying", "attaching"}
    BY <1>5, WholeIs, FetchBoundAssumption DEF WriteChunk, CloseFile, TodoInv
  <2> QED
    BY <1>1, <1>5, <2>1 DEF WriteChunk, CloseFile, MetaInv
<1>6. ASSUME NEW f \in Fetches, Drop(f) \/ CutShort(f) PROVE MetaInv'
  <2>1. stage[f] # "done"
    BY <1>6, WholeIs DEF Drop, CutShort, TodoInv
  <2> QED
    BY <1>1, <1>6, <2>1 DEF Drop, CutShort, RequestFails, MetaInv
<1>7. ASSUME NEW f \in Fetches, OpenMeta(f) PROVE MetaInv'
  BY <1>7 DEF OpenMeta, MetaInv
<1>8. ASSUME NEW f \in Fetches, WriteMeta(f) PROVE MetaInv'
  BY <1>8 DEF WriteMeta, MetaInv, local
<1> QED
  BY <1>2, <1>3, <1>4, <1>5, <1>6, <1>7, <1>8 DEF FetchNext, Fetch, JobStep, UserStep

\* The event loop is held by one fetch.
LEMMA LoopStep ==
    ASSUME FetchTypeOK, TodoInv, LoopInv, [FetchNext]_fetchVars PROVE LoopInv'
<1> DEFINE Holding == {"extracting", "writing"}
<1> USE DEF FetchTypeOK
<1>1. ASSUME \A f \in Fetches : stage'[f] \in Holding => stage[f] \in Holding,
             \A f \in Fetches : stage[f] = "extracting" => stage'[f] = "extracting",
             UNCHANGED unpack
      PROVE  LoopInv'
  BY <1>1 DEF LoopInv
<1>2. CASE UNCHANGED fetchVars \/ JobStep \/ UserStep
  BY <1>1, <1>2, JobFrame, UserFrame DEF fetchVars, local
<1>3. CASE BackendRestart
  BY <1>3 DEF BackendRestart, LoopInv, Active
<1>4. ASSUME NEW f \in Fetches,
             Start(f) \/ StartSync(f) \/ Poll(f) \/ Answer(f) \/ ListFiles(f)
             \/ ListAttachments(f) \/ Attached(f) \/ OpenFile(f) \/ WriteChunk(f) \/ CloseFile(f)
      PROVE  LoopInv'
  BY <1>1, <1>4 DEF Start, StartSync, StartJob, Poll, Answer, ListFiles, ListAttachments,
     Attached, OpenFile, WriteChunk, CloseFile, local
<1>5. ASSUME NEW f \in Fetches, UnpackArchive(f) PROVE LoopInv'
  BY <1>5 DEF UnpackArchive, LoopInv
<1>6. ASSUME NEW f \in Fetches, NextRound(f) \/ ArchiveGone(f) PROVE LoopInv'
  <2>1. \/ stage' = stage
        \/ unpack' = Packed /\ \E x \in {"attachments", "failed"} : stage' = [stage EXCEPT ![f] = x]
    BY <1>6 DEF NextRound, ArchiveGone
  <2>2. stage[f] = "extracting"
    BY <1>6 DEF NextRound, ArchiveGone
  <2> QED
    BY <2>1, <2>2 DEF LoopInv
<1>7. ASSUME NEW f \in Fetches, WriteMeta(f) PROVE LoopInv'
  BY <1>1, <1>7 DEF WriteMeta, local
<1>8. ASSUME NEW f \in Fetches, RequestFails(f) PROVE LoopInv'
  <2>1. stage'[f] \notin Holding /\ \A g \in Fetches : stage[g] \notin Holding
    BY <1>8 DEF RequestFails, LoopFree
  <2> QED
    BY <1>1, <1>8, <2>1 DEF RequestFails
<1>9. ASSUME NEW f \in Fetches, Extract(f) \/ OpenMeta(f) PROVE LoopInv'
  <2>1. \A g \in Fetches : stage[g] \notin Holding
    BY <1>9 DEF Extract, OpenMeta, LoopFree
  <2>2. UNCHANGED unpack /\ \A g \in Fetches : g # f => stage'[g] = stage[g]
    BY <1>9 DEF Extract, OpenMeta, local
  <2> QED
    BY <2>1, <2>2 DEF LoopInv
<1> QED
  BY <1>2, <1>3, <1>4, <1>5, <1>6, <1>7, <1>8, <1>9
  DEF FetchNext, Fetch, Drop, CutShort, JobStep, UserStep

------------------------------------------------------------------------------
\* What labels name, while the first fetch unpacks.
LEMMA LabelStep ==
    ASSUME FetchTypeOK, TodoInv, LoopInv, LabelInv, [FetchNext]_fetchVars PROVE LabelInv'
<1> USE DEF FetchTypeOK
<1> DEFINE Found(f) == unpack.round \union (Archives \cap Present)
<1>1. ASSUME UNCHANGED <<origins, refetches>>,
             \A f \in Fetches : stage'[f] = "extracting" =>
                 stage[f] = "extracting" /\ Found(f)' \subseteq Found(f) \union Top
      PROVE  LabelInv'
  BY <1>1 DEF LabelInv
<1>2. CASE UNCHANGED fetchVars \/ JobStep
  BY <1>1, <1>2, JobFrame DEF fetchVars, local, marks, Present
<1>3. CASE UserStep
  BY <1>1, <1>3, UserFrame, NamesAssumption DEF local, marks, Top
<1>4. CASE BackendRestart
  BY <1>1, <1>4 DEF BackendRestart, Active, marks
<1>5. ASSUME NEW f \in Fetches,
             Start(f) \/ StartSync(f) \/ Poll(f) \/ Answer(f) \/ ListFiles(f)
             \/ ListAttachments(f) \/ Attached(f) \/ CloseFile(f) \/ OpenMeta(f) \/ WriteMeta(f)
      PROVE  LabelInv'
  <2>1. UNCHANGED <<origins, refetches, disk, unpack>>
        /\ \A g \in Fetches : stage'[g] = "extracting" => stage[g] = "extracting"
    BY <1>5 DEF Start, StartSync, StartJob, Poll, Answer, ListFiles, ListAttachments, Attached,
       CloseFile, OpenMeta, WriteMeta, local, marks
  <2> QED
    BY <1>1, <2>1 DEF Present
<1>6. ASSUME NEW f \in Fetches, OpenFile(f) \/ WriteChunk(f) PROVE LabelInv'
  <2>1. \A g \in Fetches : stage'[g] # "extracting"
    BY <1>6 DEF OpenFile, WriteChunk, LoopFree
  <2> QED
    BY <1>6, <2>1 DEF OpenFile, WriteChunk, marks, LabelInv
<1>7. ASSUME NEW f \in Fetches, RequestFails(f) PROVE LabelInv'
  <2>1. \A g \in Fetches : stage'[g] # "extracting"
    BY <1>7 DEF RequestFails, LoopFree
  <2> QED
    BY <1>7, <2>1 DEF RequestFails, marks, LabelInv
<1>8. ASSUME NEW f \in Fetches, Extract(f) PROVE LabelInv'
  <2>1. unpack.round = {} /\ \A g \in Fetches : stage[g] # "extracting"
    BY <1>8 DEF Extract, LoopFree, LoopInv, Packed
  <2>2. UNCHANGED <<origins, unpack, disk>> /\ refetches \subseteq refetches'
    BY <1>8 DEF Extract, local
  <2>3. f \notin refetches' => Archives \cap Present \subseteq Top
    BY <1>8 DEF Extract, Top
  <2>4. \A g \in Fetches : stage'[g] = "extracting" => g = f
    BY <1>8, <2>1 DEF Extract
  <2> QED
    BY <2>1, <2>2, <2>3, <2>4 DEF LabelInv, Present
<1>9. ASSUME NEW f \in Fetches, NextRound(f) PROVE LabelInv'
  <2>1. Pending \subseteq Archives \cap Present
    <3>1. 1 \in Whole
      BY FetchBoundAssumption DEF Whole
    <3>2. Whole # Absent
      BY <3>1 DEF Absent
    <3>3. Archives \subseteq Names
      BY NamesAssumption
    <3> QED
      BY <3>2, <3>3 DEF Pending, Present
  <2>2. unpack'.round \subseteq Pending /\ UNCHANGED <<disk, origins, refetches>>
    BY <1>9 DEF NextRound, Packed, marks
  <2>3. \A g \in Fetches : stage'[g] = "extracting" => stage[g] = "extracting"
    BY <1>9 DEF NextRound
  <2> QED
    BY <1>1, <2>1, <2>2, <2>3 DEF Present
<1>10. ASSUME NEW f \in Fetches, ArchiveGone(f) PROVE LabelInv'
  BY <1>1, <1>10 DEF ArchiveGone, Packed, Present, marks
<1>11. ASSUME NEW f \in Fetches, UnpackArchive(f) PROVE LabelInv'
  <2>1. PICK a, taken, entries, room : a \in Archives /\ Unpacks(f, a, taken, entries, room)
    BY <1>11, UnpackIs
  <2>2. UNCHANGED <<stage, refetches>> /\ stage[f] = "extracting"
    BY <1>11 DEF UnpackArchive, marks
  <2>3. \A g \in Fetches : stage[g] = "extracting" => g = f
    BY <2>2 DEF LoopInv
  <2>4. DOMAIN origins'[f] = taken \union DOMAIN origins[f]
        /\ \A n \in taken \union DOMAIN origins[f] :
             origins'[f][n] = IF n \in taken THEN Source(f, a) ELSE origins[f][n]
    BY <2>1 DEF Unpacks
  <2>5. \A g \in Fetches : g # f => origins'[g] = origins[g]
    BY <2>1 DEF Unpacks
  <2>6. Found(f)' \subseteq Found(f) \union taken
    BY <2>1 DEF Unpacks, Present
  <2>7. ASSUME f \notin refetches
        PROVE  /\ \A n \in DOMAIN origins'[f] : origins'[f][n] \in Top
               /\ Found(f)' \subseteq Top \union DOMAIN origins'[f]
    <3>1. /\ \A n \in DOMAIN origins[f] : origins[f][n] \in Top
          /\ Found(f) \subseteq Top \union DOMAIN origins[f]
      BY <2>2, <2>7 DEF LabelInv
    <3>2. a \in unpack.round
      BY <2>1 DEF Unpacks
    <3>3. Source(f, a) \in Top
      BY <3>1, <3>2 DEF Source
    <3> QED
      BY <2>4, <2>6, <3>1, <3>3
  <2>8. ASSUME NEW g \in Fetches \ refetches', g # f
        PROVE  /\ \A n \in DOMAIN origins'[g] : origins'[g][n] \in Top
               /\ stage'[g] # "extracting"
    BY <2>2, <2>3, <2>5, <2>8 DEF LabelInv
  <2> QED
    BY <2>2, <2>7, <2>8 DEF LabelInv
<1> QED
  BY <1>2, <1>3, <1>4, <1>5, <1>6, <1>7, <1>8, <1>9, <1>10, <1>11
  DEF FetchNext, Fetch, Drop, CutShort, JobStep, UserStep

------------------------------------------------------------------------------
\* The inductive invariant.
FetchIInv ==
    /\ FetchTypeOK /\ AloneInv /\ PartialInv /\ TodoInv /\ CopyInv /\ VouchInv /\ HeldInv
    /\ MetaInv /\ LoopInv /\ LabelInv

\* The initial states.
LEMMA InitFetchIInv == FetchInit => FetchIInv
<1> SUFFICES ASSUME FetchInit PROVE FetchIInv
  OBVIOUS
<1>1. FetchTypeOK
  BY InitTypeOK
<1>2. AloneInv /\ PartialInv
  BY DEF FetchInit, AloneInv, PartialInv, Past
<1>3. TodoInv /\ CopyInv /\ VouchInv /\ HeldInv
  BY FetchBoundAssumption DEF FetchInit, TodoInv, CopyInv, VouchInv, HeldInv, First, Past
<1>4. MetaInv /\ LoopInv
  BY DEF FetchInit, MetaInv, LoopInv
<1>5. LabelInv
  BY DEF FetchInit, LabelInv
<1> QED
  BY <1>1, <1>2, <1>3, <1>4, <1>5 DEF FetchIInv

\* Every step keeps the invariant.
LEMMA NextIInv == FetchIInv /\ [FetchNext]_fetchVars => FetchIInv'
BY NextTypeOK, AloneStep, PartialStep, TodoStep, CopyStep, VouchStep, HeldStep, MetaStep,
   LoopStep, LabelStep DEF FetchIInv

\* The inductive invariant: who is alone, what has arrived, what a fetch vouches
\* for and where its labels come from fit together, in every interleaving of the
\* fetches with the puller, its jobs and the user.
THEOREM FetchInvariantHolds == FetchSpec => []FetchIInv
<1> QED
  BY InitFetchIInv, NextIInv, PTL DEF FetchSpec

\* What meta.json lists is on the disk, chunk for chunk.
THEOREM FetchedAlwaysWhole == FetchSpec => []FetchedIsWhole
<1>1. ASSUME FetchIInv PROVE FetchedIsWhole
  <2> SUFFICES ASSUME NEW n \in Fetched \ (Unspeakable \union torn), meta.by \notin disturbed,
                      n \notin DOMAIN meta.archive_origins
               PROVE  disk[n] = Whole
    BY DEF FetchedIsWhole
  <2>1. meta.state = "written" /\ n \in meta.files \union meta.items
    BY DEF Fetched
  <2>2. /\ meta.by \in Fetches \ disturbed /\ stage[meta.by] = "done"
        /\ n \in downloaded[meta.by] \union items[meta.by]
        /\ n \notin DOMAIN origins[meta.by]
    BY <1>1, <2>1 DEF FetchIInv, MetaInv
  <2>3. n \in Vouched(meta.by)
    BY <1>1, <2>2 DEF FetchIInv, TodoInv, Vouched
  <2>4. Good(meta.by, n)
    BY <1>1, <2>2, <2>3 DEF FetchIInv, VouchInv, Past
  <2> QED
    BY <2>2, <2>4 DEF Good
<1> QED
  BY <1>1, FetchInvariantHolds, PTL

\* No file that the puller holds is missing in meta.json.
THEOREM FetchedAlwaysEverything == FetchSpec => []FetchedIsEverything
<1>1. ASSUME FetchIInv PROVE FetchedIsEverything
  BY <1>1 DEF FetchIInv, FetchedIsEverything, MetaInv, HeldInv, TodoInv, Past
<1> QED
  BY <1>1, FetchInvariantHolds, PTL

\* A label of a fetch into a fresh directory names a file of the site or of the user.
THEOREM FirstLabelsAlwaysTop == FetchSpec => []FirstLabelsAreTop
<1>1. ASSUME FetchIInv PROVE FirstLabelsAreTop
  BY <1>1 DEF FetchIInv, FirstLabelsAreTop, MetaInv, LabelInv, Label, Top
<1> QED
  BY <1>1, FetchInvariantHolds, PTL
=============================================================================
