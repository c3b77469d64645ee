------------------------------ MODULE JobStream ------------------------------
(***************************************************************************)
(* The server-sent event stream of a job, composed with the job server:    *)
(* stream_analyze_result of api/main.py reads the row every half second    *)
(* and sends an event when its updated_at is not the one it saw last.      *)
(* The browser (frontend/src/api/assistant.js, subscribeAnalysis) opens    *)
(* one stream per job and never reopens it.                                *)
(***************************************************************************)
EXTENDS JobServer

VARIABLES
    stream,   \* "none", "open", or how the stream closed
    seen,     \* last_updated_at of the generator
    polled    \* open streams that have polled since the clock last ticked

streamVars == <<stream, seen, polled>>
allVars    == <<vars, streamVars>>

\* last_updated_at before the first row is read.
NoStamp == MaxTime + 1

StreamInit ==
    /\ Init
    /\ stream = [j \in Jobs |-> "none"]
    /\ seen   = [j \in Jobs |-> NoStamp]
    /\ polled = {}

OpenStream(j) ==
    /\ phase = "up"
    /\ pc[j] \notin {"none", "created"}
    /\ stream[j] = "none"
    /\ stream' = [stream EXCEPT ![j] = "open"]
    /\ UNCHANGED <<vars, seen, polled>>

\* Mutants of Closing: every end is reported as done; a cancelled row is not
\* reported at all.
ClosingDone(j) ==
    IF status[j] = "absent" THEN "notfound"
    ELSE IF stamp[j] # seen[j] /\ status[j] \in Finished THEN "done"
    ELSE "open"

ClosingDoneOrError(j) ==
    IF status[j] = "absent" THEN "notfound"
    ELSE IF stamp[j] # seen[j] /\ status[j] \in {"done", "error"} THEN status[j]
    ELSE "open"

\* The event that closes the stream, if the row that was read asks for one.
Closing(j) ==
    IF status[j] = "absent" THEN "notfound"
    ELSE IF stamp[j] # seen[j] /\ status[j] \in Finished THEN status[j]
    ELSE "open"

\* One turn of the generator's loop.
Poll(j) ==
    /\ phase = "up"
    /\ stream[j] = "open"
    /\ stream' = [stream EXCEPT ![j] = Closing(j)]
    /\ seen'   = [seen EXCEPT ![j] = IF status[j] = "absent" THEN @ ELSE stamp[j]]
    /\ polled' = IF Closing(j) = "open" THEN polled \union {j} ELSE polled \ {j}
    /\ UNCHANGED vars

\* The browser leaves: the page is closed or another defect is selected.
Leave(j) ==
    /\ stream[j] = "open"
    /\ stream' = [stream EXCEPT ![j] = "dropped"]
    /\ polled' = polled \ {j}
    /\ UNCHANGED <<vars, seen>>

\* A crash cuts every open stream; the browser does not reopen it.
CrashStreams ==
    /\ Crash
    /\ stream' = [j \in Jobs |-> IF stream[j] = "open" THEN "dropped" ELSE stream[j]]
    /\ polled' = {}
    /\ UNCHANGED seen

\* uvicorn runs shutdown() when its connections, the streams included, are closed.
ShutdownStreams ==
    /\ BeginShutdown
    /\ \A j \in Jobs : stream[j] # "open"
    /\ UNCHANGED streamVars

\* The generator sleeps half a second: it polls in every second of the clock.
TickStreams ==
    /\ Tick
    /\ \A j \in Jobs : stream[j] = "open" => j \in polled
    /\ polled' = {}
    /\ UNCHANGED <<stream, seen>>

ServerStep ==
    /\ \/ MarkZombies \/ StartServing \/ CleanUp \/ EndShutdown
       \/ \E j \in Jobs : Request(j) \/ Thread(j)
    /\ UNCHANGED streamVars

StreamNext ==
    \/ ServerStep
    \/ CrashStreams \/ ShutdownStreams \/ TickStreams
    \/ \E j \in Jobs : OpenStream(j) \/ Poll(j) \/ Leave(j)

\* The event loop keeps polling for every open stream.
StreamSpec ==
    StreamInit /\ [][StreamNext]_allVars /\ \A j \in Jobs : WF_allVars(Poll(j))

------------------------------------------------------------------------------
StreamTypeOK ==
    /\ stream \in [Jobs -> {"none", "open", "notfound", "dropped"} \union Finished]
    /\ seen   \in [Jobs -> 0 .. NoStamp]
    /\ polled \subseteq {j \in Jobs : stream[j] = "open"}

\* The event that closed a stream names the way the job really ended, however
\* the poll and the writes of the thread interleave.
StreamTellsTheTruth ==
    \A j \in Jobs : stream[j] \in Finished => status[j] \in {stream[j], "absent"}

\* The end of a job reaches a stream that is following it when its updated_at
\* is not the one the stream saw last: the row cannot expire, or the thread
\* change it again, before it is polled (main.py:93-119).
NewStampIsDelivered ==
    \A j \in Jobs :
        (stream[j] = "open" /\ status[j] \in Finished
            /\ seen[j] \notin {NoStamp, stamp[j]})
            ~> stream[j] \in Finished \union {"dropped"}

\* The docstring of the stream: it is closed after the event done or error
\* (main.py:90).
EndIsDelivered ==
    \A j \in Jobs :
        (stream[j] = "open" /\ status[j] \in {"done", "error"})
            ~> stream[j] \in Finished \union {"dropped"}

==============================================================================
