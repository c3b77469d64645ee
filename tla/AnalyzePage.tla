----------------------------- MODULE AnalyzePage -----------------------------
(***************************************************************************)
(* The page that analyses a defect (MainPage of frontend/src/App.jsx),     *)
(* composed with what the job API promises (JobLifecycle).  The page is    *)
(* one thread: a click, the answer to a request and an event of a stream   *)
(* each run to the end of their callback; requests and streams are open    *)
(* between them.                                                           *)
(***************************************************************************)
CONSTANTS
    Defects,   \* the entries of the sidebar
    Jobs,      \* bound: analyses ever submitted
    None

ASSUME NoneAssumption == None \notin Defects /\ None \notin Jobs

VARIABLES
    life,      \* of every job, on the server
    defectOf,  \* the defect a job was submitted for
    selected,  \* selectedCase
    status,    \* analysisState.status
    about,     \* the job whose report or error analysisState holds
    jobRef,    \* jobIdRef
    subRef,    \* sseUnsubRef, by the job whose stream it closes
    open,      \* jobs with an open EventSource of this page
    posting,   \* jobs whose submitAnalysis is awaited
    deleting,  \* jobs whose cancelAnalysis is awaited
    stray      \* history variable: see Displace and Abandon

shown    == <<status, about>>
refs     == <<jobRef, subRef>>
calls    == <<posting, deleting>>
page     == <<defectOf, selected, shown, refs, open, calls, stray>>
pageVars == <<life, page>>

Server == INSTANCE JobLifecycle WITH Jobs <- Jobs, life <- life

Submitted == {j \in Jobs : defectOf[j] # None}

PageInit ==
    /\ Server!Init
    /\ defectOf = [j \in Jobs |-> None]
    /\ selected = None
    /\ status   = "idle"
    /\ about    = None
    /\ jobRef   = None
    /\ subRef   = None
    /\ open     = {}
    /\ posting  = {}
    /\ deleting = {}
    /\ stray    = {}

Show(s, j) == status' = s /\ about' = j

\* stopSSE closes the stream its ref knows, and no other.
StopSSE ==
    /\ open'   = open \ {subRef}
    /\ subRef' = None
    /\ jobRef' = None

\* Requests that are open when the page turns to something else: their answer
\* will come too late.
Abandon == stray' = stray \union posting

\* A callback of job j takes the refs from another job, whose stream the page
\* can no longer close.
Displace(j) == stray' = stray \union ({subRef} \ {j, None})

------------------------------------------------------------------------------
\* Mutants of Select: the stream is left open; the analysis state is not reset.
SelectKeepsStream(d) ==
    /\ selected' = d
    /\ Show("idle", None)
    /\ Abandon
    /\ UNCHANGED <<life, defectOf, refs, open, calls>>

SelectKeepsState(d) ==
    /\ selected' = d
    /\ StopSSE
    /\ Abandon
    /\ UNCHANGED <<life, defectOf, shown, calls>>

\* handleSelectCase: a click in the sidebar, or a fetch that has come to its end.
Select(d) ==
    /\ selected' = d
    /\ StopSSE
    /\ Show("idle", None)
    /\ Abandon
    /\ UNCHANGED <<life, defectOf, calls>>

\* handlePullerError, also called when a fetch begins: the analysis goes on.
Unselect ==
    /\ selected' = None
    /\ UNCHANGED <<life, defectOf, shown, refs, open, calls, stray>>

\* The page is left for another one and mounted again: the selection is in the
\* session storage, and what is still open acts on a component nobody sees.
Remount ==
    /\ Show("idle", None)
    /\ jobRef'   = None
    /\ subRef'   = None
    /\ open'     = {}
    /\ posting'  = {}
    /\ deleting' = {}
    /\ UNCHANGED <<life, defectOf, selected, stray>>

\* handleAnalyze, as far as its await; the button is enabled in state idle.
Analyze(j) ==
    /\ selected # None
    /\ status = "idle"
    /\ defectOf[j] = None
    /\ StopSSE
    /\ Show("running", None)
    /\ defectOf' = [defectOf EXCEPT ![j] = selected]
    /\ posting'  = posting \union {j}
    /\ Abandon
    /\ UNCHANGED <<life, selected, deleting>>

\* handleAnalyze, after its await: the job is there, and its stream is opened.
Posted(j) ==
    /\ j \in posting
    /\ life[j] # "new"
    /\ posting' = posting \ {j}
    /\ jobRef'  = j
    /\ subRef'  = j
    /\ open'    = open \union {j}
    /\ Displace(j)
    /\ UNCHANGED <<life, defectOf, selected, shown, deleting>>

\* The request fails, whether or not the server has got it.
PostFails(j) ==
    /\ j \in posting
    /\ posting' = posting \ {j}
    /\ Show("error", j)
    /\ UNCHANGED <<life, defectOf, selected, refs, open, deleting, stray>>

\* handleCancel, as far as its await; without a job id it does nothing.
HandleCancel ==
    /\ status = "running"
    /\ jobRef # None
    /\ deleting' = deleting \union {jobRef}
    /\ StopSSE
    /\ UNCHANGED <<life, defectOf, selected, shown, posting, stray>>

\* handleCancel, after its await, whatever the answer was.
CancelAnswered(j) ==
    /\ j \in deleting
    /\ deleting' = deleting \ {j}
    /\ Show("idle", None)
    /\ UNCHANGED <<life, defectOf, selected, refs, open, posting, stray>>

\* What the callbacks of a stream do at its end: the stream is closed and the
\* refs are cleared, whoever they belong to.
CloseStream(j) ==
    /\ j \in open
    /\ open'   = open \ {j}
    /\ subRef' = None
    /\ jobRef' = None
    /\ Displace(j)
    /\ UNCHANGED <<life, defectOf, selected, calls>>

OnDone(j)      == CloseStream(j) /\ life[j] = "done" /\ Show("done", j)
OnError(j)     == CloseStream(j) /\ life[j] \in {"error", "expired"} /\ Show("error", j)
OnCancelled(j) == CloseStream(j) /\ life[j] = "cancelled" /\ Show("idle", None)

\* The connection breaks; subscribeAnalysis does not reopen it.
OnBroken(j) == CloseStream(j) /\ Show("error", j)

\* The server works on the jobs that were submitted.
Serve ==
    /\ Server!Next
    /\ \A j \in Jobs : life'[j] # "new" => j \in Submitted
    /\ UNCHANGED page

PageNext ==
    \/ \E d \in Defects : Select(d)
    \/ Unselect \/ Remount \/ HandleCancel \/ Serve
    \/ \E j \in Jobs :
          \/ Analyze(j) \/ Posted(j) \/ PostFails(j) \/ CancelAnswered(j)
          \/ OnDone(j) \/ OnError(j) \/ OnCancelled(j) \/ OnBroken(j)

PageSpec == PageInit /\ [][PageNext]_pageVars

\* A request is answered or times out; a job ends; and the stream of a job that
\* ended is closed by its end, or by the error event that follows its expiry.
Fairness ==
    \A j \in Jobs :
        /\ WF_pageVars(Posted(j) \/ PostFails(j))
        /\ WF_pageVars(CancelAnswered(j))
        /\ WF_pageVars(Serve /\ Server!Ends(j) /\ life[j] \in Server!Open)
        /\ WF_pageVars(OnDone(j) \/ OnError(j) \/ OnCancelled(j))

FairSpec == PageSpec /\ Fairness

------------------------------------------------------------------------------
PageTypeOK ==
    /\ life     \in [Jobs -> {"new", "expired"} \union Server!Open \union Server!Outcomes]
    /\ defectOf \in [Jobs -> Defects \union {None}]
    /\ selected \in Defects \union {None}
    /\ status   \in {"idle", "running", "done", "error"}
    /\ about    \in Submitted \union {None}
    /\ jobRef   \in Submitted \union {None}
    /\ subRef   \in Submitted \union {None}
    /\ open     \subseteq Submitted
    /\ posting  \subseteq Submitted
    /\ deleting \subseteq Submitted
    /\ stray    \subseteq Submitted

\* What analysisState shows belongs to the defect that is selected.
Belongs(j) == selected \in {None, defectOf[j]}

\* Every report and error on the page is of the selected defect, unless its job
\* was answered too late or lost its place in the refs to one that was
\* (App.jsx, stopSSE on every change of the selection).
OutcomeBelongsUnlessStray ==
    status \in {"done", "error"} /\ about \notin stray => Belongs(about)

\* An analysis that shows as running comes to an end on the page: no sequence of
\* clicks, answers and events loses the last callback that would end it.
RunningEnds == status = "running" ~> status # "running"

\* The design document of the frontend, line 133: the stream is closed when the
\* case changes, so the events of an earlier job do not spoil the new screen.
OutcomeBelongs == status \in {"done", "error"} => Belongs(about)

==============================================================================
