----------------------------- MODULE Interaction -----------------------------
(***************************************************************************)
(* The interaction engine of the puller: Interaction.run                   *)
(* (puller/core/interaction.py) goes through the steps of a site's         *)
(* configuration (step.py), each a condition, a list of actions            *)
(* (action.py), an expectation and its next steps, in the tabs of a        *)
(* browser.  WebDownloader (downloader.py) opens the first tab, and each   *)
(* of its modes collects its part of what the actions left in site_config. *)
(* The site is the environment: it moves tabs, closes popups, is slow and  *)
(* delivers downloads late.                                                *)
(***************************************************************************)
EXTENDS Naturals, SequencesExt

CONSTANTS
    Sites,        \* configuration -> its record, see SiteAssumption
    Places,       \* what a tab can show, as far as conditions tell
    LoginPlace,   \* the login page of the site
    Moves,        \* bound: what a tab may turn into by itself
    Untils,       \* bound: until_step_name of the requests that have one
    Modes,        \* the methods of WebDownloader
    Rows,         \* the files of the download table
    Tabs,         \* bound: the tabs a run may open
    MaxTroubles   \* bound: what the site does wrong in a run

None  == "none"
NoTab == 0

\* where: the places in which a condition holds; dom: it looks into the page.
Conditions == [where : SUBSET Places, dom : BOOLEAN]

IsSequence(s) == s \in Seq(Range(s))

ASSUME SiteAssumption ==
    /\ None \notin Places /\ LoginPlace \in Places /\ Moves \subseteq Places \X Places
    /\ \A c \in DOMAIN Sites :
          LET site  == Sites[c]
              names == Range(site.sequence) \union Range(site.others)
          IN  /\ site.entry \in Range(site.sequence)
              /\ Range(site.sequence) \intersect Range(site.others) = {}
              /\ IsSequence(site.sequence) /\ IsSequence(site.others)
              /\ IsInjective(site.sequence) /\ IsInjective(site.others)
              /\ site.targets \subseteq Places \ {LoginPlace}
              /\ DOMAIN site.step = names
              /\ \A s \in names :
                    /\ site.step[s].condition \in Conditions
                    /\ site.step[s].expect \in Conditions
                    /\ IsSequence(site.step[s].actions) /\ IsSequence(site.step[s].next)
                    /\ \A a \in Range(site.step[s].actions) :
                          a.kind = "popup" => a.opens \in Places
                    /\ \A n \in Range(site.step[s].next) : n.condition \in Conditions
ASSUME BoundAssumption ==
    /\ Tabs \in Nat \ {0} /\ Rows \in Nat /\ MaxTroubles \in Nat
    /\ \A c \in DOMAIN Sites : Sites[c].iterations \in Nat /\ Sites[c].failures \in Nat

VARIABLES
    conf,       \* the configuration of the run
    target,     \* what the url of the site shows to who is logged in
    mode,       \* the method of WebDownloader
    until,      \* until_step_name, None for the whole way
    password,   \* TRUE: the credentials are right
    pc,         \* where run() is
    current,    \* current_step
    running,    \* the step whose actions are executed
    at,         \* the next action, next step or non-sequence step to look at
    failures,   \* failure_count
    iteration,  \* bounded by max_iterations
    outcome,    \* "open", then "success", "failed" or "raised"
    place,      \* of every tab: what it shows, None before it is opened
    open,       \* the tabs that are open
    page,       \* current_page
    parent,     \* _parent_page of site_config
    jump,       \* _jump_to of site_config
    session,    \* TRUE: the site knows the user
    item,       \* the row individual_download is at, 0 outside of it
    boxes,      \* the rows whose box is checked
    late,       \* downloads asked for and not delivered, each a set of rows
    saved,      \* file_results of individual_download
    readings,   \* what the actions left in site_config, by key
    result,     \* what the mode reports
    troubles,   \* bounded by MaxTroubles
    history     \* history variable: opener, walked, tardy

control == <<pc, current, running, at, failures, iteration, outcome>>
browser == <<place, open, page, parent, session>>
table   == <<item, boxes, late, saved>>
given   == <<conf, target, mode, until, password>>
quiet   == <<given, browser, table, readings, result, troubles>>
vars    == <<given, control, browser, jump, table, readings, result, troubles, history>>

Site      == Sites[conf]
Step      == Site.step[running]
Landing   == IF session THEN target ELSE LoginPlace
InOthers  == running \in Range(Site.others)

NoReadings == [texts |-> {}, tables |-> <<>>, files |-> <<>>, title |-> FALSE,
               comments |-> FALSE]

\* _get_final_step_name: the first final step, if there is one.
FinalSteps == SelectSeq(Site.sequence, LAMBDA s : Site.step[s].final)
FinalStep  == IF FinalSteps = <<>> THEN None ELSE Head(FinalSteps)

\* Where a run of the mode stops: inspect and scan before the actions of the final
\* step when nothing else is asked for.
Stops ==
    CASE mode \in {"final", "read_text", "read_table"} -> {None}
      [] mode \in {"inspect", "scan"}                  -> {FinalStep} \union Untils
      [] OTHER                                         -> {None} \union Untils

\* read_text and read_table refuse a site whose final steps all end in something else.
EndsIn(kind) ==
    \E s \in Range(FinalSteps) :
        Site.step[s].actions # <<>> /\ Last(Site.step[s].actions).kind = kind
Refused == \/ mode = "read_text"  /\ ~EndsIn("text")
           \/ mode = "read_table" /\ ~EndsIn("table")

Init ==
    /\ conf \in DOMAIN Sites
    /\ target \in Site.targets
    /\ mode \in Modes /\ until \in Stops
    /\ password \in BOOLEAN /\ session \in BOOLEAN
    /\ pc = "opening" /\ current = Site.entry /\ running = Site.entry /\ at = 1
    /\ failures = 0 /\ iteration = 0 /\ outcome = "open"
    /\ place = [t \in 1..Tabs |-> None] /\ open = {} /\ page = 1
    /\ parent = NoTab /\ jump = None
    /\ item = 0 /\ boxes = {} /\ late = {} /\ saved = <<>>
    /\ readings = NoReadings /\ result = [success |-> FALSE] @@ NoReadings
    /\ troubles = 0
    /\ history = [opener |-> [t \in 1..Tabs |-> NoTab], walked |-> {}, tardy |-> FALSE]

Fine    == UNCHANGED troubles
Trouble == troubles < MaxTroubles /\ troubles' = troubles + 1

------------------------------------------------------------------------------
\* Condition.check of the tab the run is at.  What looks into a closed page raises.
Holds(c)  == place[page] \in c.where
Raises(c) == c.dom /\ page \notin open

\* The run is over; what the failing step changed besides is the caller's.
End(how) == pc' = "ended" /\ outcome' = how
GoTo(p)  == pc' = p /\ UNCHANGED outcome

\* What a condition, an expectation or a resolution that raises does to the run.
Raise ==
    /\ End("raised")
    /\ UNCHANGED <<quiet, current, running, at, failures, iteration, jump, history>>

\* A failure is counted: by the max_failures-th the run is given up.
CountFailure(next) ==
    /\ failures' = failures + 1
    /\ IF failures + 1 >= Site.failures THEN End("failed") ELSE GoTo(next)

\* Step.execute returned False.
StepFails ==
    IF InOthers THEN End("failed") /\ UNCHANGED failures ELSE CountFailure("loop")

\* _open_page: the first tab shows the site, or the run ends with an exception.
Refuse ==
    /\ pc = "opening" /\ Refused
    /\ End("failed")
    /\ UNCHANGED <<quiet, current, running, at, failures, iteration, jump, history>>

Open ==
    /\ pc = "opening" /\ ~Refused
    /\ \/ Fine    /\ place' = [place EXCEPT ![page] = Landing] /\ open' = {page} /\ GoTo("loop")
       \/ Trouble /\ UNCHANGED <<place, open>> /\ End("raised")
    /\ UNCHANGED <<given, current, running, at, failures, iteration, page, parent, session, jump,
                   table, readings, result, history>>

\* Interaction.run: the head of the loop.

\* Mutant of OutOfIterations: the last iteration is not made.
OutOfIterationsEarly ==
    /\ pc = "loop" /\ iteration >= Site.iterations - 1
    /\ End("failed")
    /\ UNCHANGED <<quiet, current, running, at, failures, iteration, jump, history>>

OutOfIterations ==
    /\ pc = "loop" /\ iteration = Site.iterations
    /\ End("failed")
    /\ UNCHANGED <<quiet, current, running, at, failures, iteration, jump, history>>

StopAtUntil ==
    /\ pc = "loop" /\ iteration < Site.iterations /\ current = until
    /\ End("success")
    /\ UNCHANGED <<quiet, current, running, at, failures, iteration, jump, history>>

CheckCondition ==
    LET c == Site.step[current].condition IN
    /\ pc = "loop" /\ iteration < Site.iterations /\ current # until
    /\ IF Raises(c) THEN Raise
       ELSE /\ iteration' = iteration + 1
            /\ running'   = current
            /\ at'        = 1
            /\ GoTo(IF Holds(c) THEN "acting" ELSE "others")
            /\ UNCHANGED <<quiet, current, failures, jump, history>>

\* _run_non_sequence: the first step of the others whose condition holds.
CheckOther ==
    LET other == Site.others[at]
        c     == Site.step[other].condition
    IN  /\ pc = "others" /\ at <= Len(Site.others)
        /\ IF Raises(c) THEN Raise
           ELSE /\ IF Holds(c) THEN running' = other /\ at' = 1 /\ GoTo("acting")
                               ELSE at' = at + 1 /\ UNCHANGED running /\ GoTo("others")
                /\ UNCHANGED <<quiet, current, failures, iteration, jump, history>>

NoOther ==
    /\ pc = "others" /\ at > Len(Site.others)
    /\ End("failed")
    /\ UNCHANGED <<quiet, current, running, at, failures, iteration, jump, history>>

\* After the actions: a jump is taken out of site_config and followed, if it leads
\* to a sequence step; a step without one goes on.

\* Mutant of Jump: the jump is read and stays in site_config.
JumpKept ==
    /\ pc = "acting" /\ at > Len(Step.actions) /\ jump # None
    /\ current' = IF jump \in Range(Site.sequence) THEN jump ELSE current
    /\ GoTo("loop")
    /\ UNCHANGED <<quiet, running, at, failures, iteration, jump, history>>

\* Mutant of Jump: the loop is a while that counts only completed steps.
JumpFree ==
    /\ pc = "acting" /\ at > Len(Step.actions) /\ jump # None
    /\ current'   = IF jump \in Range(Site.sequence) THEN jump ELSE current
    /\ jump'      = None
    /\ iteration' = iteration - 1
    /\ GoTo("loop")
    /\ UNCHANGED <<quiet, running, at, failures, history>>

Jump ==
    /\ pc = "acting" /\ at > Len(Step.actions) /\ jump # None
    /\ current' = IF jump \in Range(Site.sequence) THEN jump ELSE current
    /\ jump'    = None
    /\ GoTo("loop")
    /\ UNCHANGED <<quiet, running, at, failures, iteration, history>>

Settle ==
    /\ pc = "acting" /\ at > Len(Step.actions) /\ jump = None
    /\ GoTo(IF InOthers THEN "loop" ELSE "expect")
    /\ UNCHANGED <<quiet, current, running, at, failures, iteration, jump, history>>

\* check_expect: met, the run ends or goes on; not met, a failure is counted and the
\* others have their turn.
CheckExpect ==
    LET met == Holds(Step.expect) IN
    /\ pc = "expect"
    /\ IF Raises(Step.expect) THEN Raise
       ELSE /\ at' = 1
            /\ IF met THEN /\ UNCHANGED failures
                           /\ IF Step.final THEN End("success") ELSE GoTo("resolve")
                      ELSE CountFailure("others")
            /\ history' = IF met THEN [history EXCEPT !.walked = @ \union {running}] ELSE history
            /\ UNCHANGED <<quiet, current, running, iteration, jump>>

\* resolve_next_step: the first next step whose condition holds when it is asked.
\* The page may change between two conditions.
Resolve ==
    LET next == Step.next[at] IN
    /\ pc = "resolve" /\ at <= Len(Step.next)
    /\ IF Raises(next.condition) THEN Raise
       ELSE /\ \/ /\ ~Holds(next.condition)
                  /\ at' = at + 1 /\ UNCHANGED <<current, failures>> /\ GoTo("resolve")
               \/ /\ Holds(next.condition) /\ next.step \in Range(Site.sequence)
                  /\ current' = next.step /\ failures' = 0 /\ UNCHANGED at /\ GoTo("loop")
               \/ /\ Holds(next.condition) /\ next.step \notin Range(Site.sequence)
                  /\ End("failed") /\ UNCHANGED <<current, failures, at>>
            /\ UNCHANGED <<quiet, running, iteration, jump, history>>

NoNextStep ==
    /\ pc = "resolve" /\ at > Len(Step.next)
    /\ End("failed")
    /\ UNCHANGED <<quiet, current, running, at, failures, iteration, jump, history>>

------------------------------------------------------------------------------
\* Step.execute: one action at a time.  A timeout is a False; on a page that is
\* closed, whatever asks the page raises.
Action     == Step.actions[at]
Doing(kind) == pc = "acting" /\ at <= Len(Step.actions) /\ Action.kind = kind
Here       == page \in open /\ place[page] \in Action.where
Succeeds   == at' = at + 1 /\ GoTo("acting") /\ UNCHANGED failures

\* What is left alone by an action that reads, or does not get to do anything.
still == <<given, current, running, iteration, result>>

Asks == {"login", "click", "popup", "wait", "download", "files", "text", "title", "table",
         "lookup"}

ActionRaises ==
    /\ pc = "acting" /\ at <= Len(Step.actions) /\ page \notin open /\ Action.kind \in Asks
    /\ Raise

\* The selector does not come up in time: always elsewhere, sometimes here.  The
\* rows of individual_download have timeouts of their own.
ActionTimesOut ==
    /\ pc = "acting" /\ at <= Len(Step.actions) /\ page \in open /\ Action.kind \in Asks
    /\ item = 0
    /\ IF Here THEN Trouble ELSE Fine
    /\ StepFails
    /\ UNCHANGED <<still, at, browser, jump, table, readings, history>>

\* do_login: whether the credentials were right is not looked at.  The click may have
\* logged in although the wait after it times out.
Login ==
    /\ Doing("login") /\ Here
    /\ session' = password
    /\ place' = [place EXCEPT ![page] = IF password THEN target ELSE LoginPlace]
    /\ \/ Fine /\ Succeeds
       \/ Trouble /\ StepFails /\ UNCHANGED at
    /\ UNCHANGED <<still, open, page, parent, jump, table, readings, history>>

\* GotoAction catches every exception.
Goto ==
    /\ Doing("goto")
    /\ IF page \in open
       THEN \/ Fine /\ place' = [place EXCEPT ![page] = Landing] /\ Succeeds
            \/ Trouble /\ StepFails /\ UNCHANGED <<place, at>>
       ELSE Fine /\ StepFails /\ UNCHANGED <<place, at>>
    /\ UNCHANGED <<still, open, page, parent, session, jump, table, readings, history>>

\* click, wait and download: what they do to the page is the site's, and the files of
\* download are in no result.
Harmless(kind) ==
    /\ Doing(kind) /\ Here /\ Fine /\ Succeeds
    /\ UNCHANGED <<still, browser, jump, table, readings, history>>

Click    == Harmless("click")
Wait     == Harmless("wait")
Download == Harmless("download")

\* A click with expect_popup: the tab the click opens becomes the page once it has
\* loaded, and stays open, with nobody to close it, when that takes too long.
NewTab(t) == place[t] = None /\ \A u \in 1..Tabs : place[u] = None => t <= u

ClickPopup ==
    /\ Doing("popup") /\ Here
    /\ \E t \in 1..Tabs :
          /\ NewTab(t)
          /\ place' = [place EXCEPT ![t] = IF session THEN Action.opens ELSE LoginPlace]
          /\ open' = open \union {t}
          /\ history' = [history EXCEPT !.opener[t] = page]
          /\ \/ Fine /\ Succeeds /\ page' = t /\ parent' = page /\ boxes' = {} /\ late' = {}
             \/ Trouble /\ StepFails /\ UNCHANGED <<at, page, parent, boxes, late>>
    /\ UNCHANGED <<still, session, jump, item, saved, readings>>

\* Mutant of ClosePopup: the parent page stays in site_config.
ClosePopupKept ==
    /\ Doing("close") /\ Fine
    /\ IF parent = NoTab
       THEN StepFails /\ UNCHANGED <<at, open, page>>
       ELSE /\ open' = open \ {page}
            /\ IF parent \in open THEN Succeeds /\ page' = parent
                                  ELSE StepFails /\ UNCHANGED <<at, page>>
    /\ UNCHANGED <<still, place, parent, session, jump, table, readings, history>>

ClosePopup ==
    /\ Doing("close") /\ Fine
    /\ parent' = NoTab
    /\ IF parent = NoTab
       THEN StepFails /\ UNCHANGED <<at, open, page>>
       ELSE /\ open' = open \ {page}
            /\ IF parent \in open THEN Succeeds /\ page' = parent
                                  ELSE StepFails /\ UNCHANGED <<at, page>>
    /\ UNCHANGED <<still, place, session, jump, table, readings, history>>

\* JumpAction: the actions after it are still executed, and may fail and leave the
\* jump in site_config.
SetJump ==
    /\ Doing("jump") /\ Fine /\ Succeeds
    /\ jump' = Action.step
    /\ UNCHANGED <<still, browser, table, readings, history>>

\* read_text: by key, the last reading counts.
ReadText ==
    /\ Doing("text") /\ Here /\ Fine /\ Succeeds
    /\ readings' = [readings EXCEPT !.texts = @ \union {Action.key}]
    /\ UNCHANGED <<still, browser, jump, table, history>>

ReadTitle ==
    /\ Doing("title") /\ Here /\ Fine /\ Succeeds
    /\ readings' = [readings EXCEPT !.title = TRUE]
    /\ UNCHANGED <<still, browser, jump, table, history>>

\* read_table: a table that is read again is in the results twice.
ReadTable ==
    /\ Doing("table") /\ Here /\ Fine /\ Succeeds
    /\ readings' = [readings EXCEPT !.tables = Append(@, Action.key)]
    /\ UNCHANGED <<still, browser, jump, table, history>>

\* lookup_comment_attachment and download_comment_attachments, the module
\* CommentAttachments of which this is the outside: the second goes through the
\* pages of the attachments, needs what the first wrote, and never fails otherwise.
Lookup ==
    /\ Doing("lookup") /\ Here /\ Fine /\ Succeeds
    /\ readings' = [readings EXCEPT !.comments = TRUE]
    /\ UNCHANGED <<still, browser, jump, table, history>>

DownloadComments ==
    /\ Doing("comments") /\ Fine
    /\ IF readings.comments THEN Succeeds ELSE StepFails /\ UNCHANGED at
    /\ UNCHANGED <<still, browser, jump, table, readings, history>>

------------------------------------------------------------------------------
\* individual_download: a row at a time, its box is checked, the button is clicked,
\* the next download of the page is taken for the row's, and the box is unchecked.
\* A download is the set of the rows that were checked when it was asked for.

BeginFiles ==
    /\ Doing("files") /\ Here /\ item = 0 /\ Rows > 0
    /\ item' = 1 /\ saved' = <<>>
    /\ UNCHANGED <<still, at, pc, outcome, failures, browser, jump, boxes, late, readings,
                   troubles, history>>

\* A second uncheck is tried after the first; what it raises is swallowed.  wrong: the
\* row was given a download that had come late.
Uncheck(extra, wrong) ==
    \/ boxes' = boxes \ {item} /\ troubles' = troubles + extra
       /\ history' = [history EXCEPT !.tardy = @ \/ wrong]
    \/ boxes' = boxes \union {item} /\ troubles' = troubles + extra + 1
       /\ history' = [history EXCEPT !.tardy = TRUE]

\* A download comes in time: the row's, or one that was late.
RowSaved(asked) ==
    \E got \in late \union {asked} :
        /\ late'  = (late \union {asked}) \ {got}
        /\ saved' = Append(saved, [row |-> item, status |-> "success", got |-> got])
        /\ Uncheck(0, got \in late)

RowFails == saved' = Append(saved, [row |-> item, status |-> "failed", got |-> {}])

\* Mutant of Row: the box of a row that timed out stays checked.
RowLeftChecked ==
    /\ Doing("files") /\ page \in open /\ item \in 1..Rows
    /\ LET asked == boxes \union {item} IN
       \/ RowSaved(asked)
       \/ RowFails /\ late' = late \union {asked} /\ boxes' = asked /\ Trouble
          /\ UNCHANGED history
    /\ troubles' <= MaxTroubles
    /\ item' = item + 1
    /\ UNCHANGED <<still, at, pc, outcome, failures, browser, jump, readings>>

\* None comes in time: the row is given up, its download is still on the way.  Or the
\* box cannot be checked.
Row ==
    /\ Doing("files") /\ page \in open /\ item \in 1..Rows
    /\ LET asked == boxes \union {item} IN
       \/ RowSaved(asked)
       \/ RowFails /\ late' = late \union {asked} /\ Uncheck(1, FALSE)
       \/ RowFails /\ Trouble /\ UNCHANGED <<boxes, late, history>>
    /\ troubles' <= MaxTroubles
    /\ item' = item + 1
    /\ UNCHANGED <<still, at, pc, outcome, failures, browser, jump, readings>>

\* A download nobody waits for is lost.
LateLost ==
    /\ late # {} /\ pc # "closed"
    /\ \E d \in late : late' = late \ {d}
    /\ UNCHANGED <<given, control, browser, jump, item, boxes, saved, readings, result, troubles,
                   history>>

EndFiles ==
    /\ Doing("files") /\ item > Rows
    /\ item' = 0 /\ Succeeds /\ Fine
    /\ readings' = [readings EXCEPT !.files = saved]
    /\ UNCHANGED <<still, browser, jump, boxes, late, saved, history>>

------------------------------------------------------------------------------
\* What each mode takes out of site_config.
Reported ==
    CASE mode = "final"      -> readings
      [] mode = "download"   -> [NoReadings EXCEPT !.files = readings.files,
                                                   !.comments = readings.comments]
      [] mode = "lookup"     -> [NoReadings EXCEPT !.comments = readings.comments]
      [] mode = "read_text"  -> [NoReadings EXCEPT !.texts = readings.texts]
      [] mode = "read_table" -> [NoReadings EXCEPT !.tables = readings.tables]
      [] OTHER               -> NoReadings

\* It is reported if run() succeeded, and the browser is closed.  An exception ends
\* the job with no result.
Collect ==
    /\ pc = "ended"
    /\ pc' = "closed"
    /\ result' = IF outcome = "success" THEN [success |-> TRUE] @@ Reported ELSE result
    /\ readings' = NoReadings /\ jump' = None /\ open' = {} /\ late' = {}
    /\ UNCHANGED <<given, current, running, at, failures, iteration, outcome, place, page,
                   parent, session, item, boxes, saved, troubles, history>>

Running == pc \notin {"opening", "ended", "closed"}

\* The site: a page turns into another; the one of a login that expired has no session.
SiteMoves ==
    /\ Running /\ item = 0 /\ Trouble
    /\ \E p \in Places :
          /\ <<place[page], p>> \in Moves /\ page \in open
          /\ place'   = [place EXCEPT ![page] = p]
          /\ session' = (session /\ p # LoginPlace)
    /\ UNCHANGED <<given, control, open, page, parent, jump, table, readings, result, history>>

\* The site closes a popup, the user the first tab.
SiteCloses ==
    /\ Running /\ Trouble
    /\ \E t \in open : open' = open \ {t}
    /\ UNCHANGED <<given, control, place, page, parent, session, jump, table, readings, result,
                   history>>

Engine ==
    \/ Refuse \/ Open \/ OutOfIterations \/ StopAtUntil \/ CheckCondition \/ CheckOther \/ NoOther
    \/ Jump \/ Settle \/ CheckExpect \/ Resolve \/ NoNextStep
    \/ ActionRaises \/ ActionTimesOut \/ Login \/ Goto \/ Click \/ Wait \/ Download
    \/ ClickPopup \/ ClosePopup \/ SetJump
    \/ ReadText \/ ReadTitle \/ ReadTable \/ Lookup \/ DownloadComments
    \/ BeginFiles \/ Row \/ EndFiles \/ Collect

Done == pc = "closed" /\ UNCHANGED vars

Next == Engine \/ LateLost \/ SiteMoves \/ SiteCloses \/ Done

\* The engine goes on: whatever it awaits has a timeout, but for save_as.
Spec == Init /\ [][Next]_vars /\ WF_vars(Engine)

------------------------------------------------------------------------------
\* The types of the variables that steer a run of the engine (interaction.py:92).  A
\* jump is one the configuration has, whether or not there is a step of that name.
ControlTypes ==
    /\ conf \in DOMAIN Sites /\ target \in Site.targets /\ password \in BOOLEAN
    /\ pc \in {"opening", "loop", "others", "acting", "expect", "resolve", "ended", "closed"}
    /\ current \in Range(Site.sequence) /\ running \in DOMAIN Site.step
    /\ at \in Nat \ {0} /\ failures \in Nat /\ iteration \in 0..Site.iterations
    /\ outcome \in {"open", "success", "failed", "raised"} /\ troubles \in 0..MaxTroubles
    /\ jump # None => \E s \in DOMAIN Site.step : \E a \in Range(Site.step[s].actions) :
                          a.kind = "jump" /\ jump = a.step

BrowserTypes ==
    /\ place \in [1..Tabs -> Places \union {None}] /\ open \subseteq 1..Tabs
    /\ page \in 1..Tabs /\ parent \in 0..Tabs /\ session \in BOOLEAN

SavedRows == [row : 1..Rows, status : {"success", "failed"}, got : SUBSET (1..Rows)]

TableTypes ==
    /\ item \in 0..Rows + 1 /\ boxes \subseteq 1..Rows /\ late \subseteq SUBSET (1..Rows)
    /\ saved \in Seq(SavedRows)

Histories == [opener : [1..Tabs -> 0..Tabs], walked : SUBSET DOMAIN Site.step,
              tardy : BOOLEAN]

TypeOK == ControlTypes /\ BrowserTypes /\ TableTypes /\ history \in Histories

\* The run is given up by the max_failures-th failure, and not before (interaction.py:135).
GivesUpInTime ==
    /\ failures >= Site.failures /\ failures > 0 => pc \in {"ended", "closed"}
    /\ failures > Site.failures => Site.failures = 0

\* With a site that is never slow, moves nothing and lets the user in, the run
\* succeeds: its longest way, with the login, fits into max_iterations, and no two
\* steps of the configuration stand in each other's way (interaction.py:109).
UndisturbedSucceeds ==
    troubles = 0 /\ (session \/ password) /\ ~Refused => outcome \in {"open", "success"}

\* The page close_popup goes back to is the one the popup was opened from, through
\* every retry and every popup nobody closed (action.py:700).
ParentIsOpener == parent # NoTab => parent = history.opener[page]

\* A file reported as saved is the row's own, unless a download came late or a box
\* could not be unchecked (action.py:346).
FilesAreOwn ==
    \A i \in DOMAIN saved :
        saved[i].status = "success" /\ ~history.tardy => saved[i].got = {saved[i].row}

\* The actions of this execution have set the jump.
SetHere ==
    \E i \in 1..Len(Step.actions) :
        i < at /\ Step.actions[i].kind = "jump" /\ Step.actions[i].step = jump

\* A jump is followed by the execution that set it.  Only while failures are counted
\* can an execution find the jump of another one, which failed after its jump: no
\* jump gets past a step that went through, in any configuration (interaction.py:144,
\* action.py:680).
JumpsAreOwn == jump # None /\ pc = "acting" /\ failures = 0 => SetHere

\* Every run ends, with a result or an exception (interaction.py:109).
RunEnds == <>(pc = "closed")

=============================================================================
