------------------------------ MODULE JobServer ------------------------------
(***************************************************************************)
(* The analysis job server: the rows of the SQLite table `jobs`            *)
(* (api/job_store.py), the thread pool that runs the pipeline and the      *)
(* cancel events (api/worker.py), the HTTP handlers that submit and cancel *)
(* (api/main.py), and the life of the process: start-up, shutdown, crash.  *)
(*                                                                         *)
(* One step is one transaction on `jobs`, or one change of the in-memory   *)
(* state of the process.  A row survives a crash, the rest does not.       *)
(***************************************************************************)
EXTENDS StageOrder, Sequences, FiniteSets

CONSTANTS
    Jobs,         \* job ids; a uuid4 is never drawn twice
    MaxWorkers,   \* server.max_workers, threads of the executor
    TTL,          \* server.job_ttl_minutes, in ticks of the clock
    MaxTime,      \* bound: the last tick of the clock
    MaxFaults,    \* bound: writes to `jobs` that SQLite refuses
    MaxRestarts   \* bound: starts of the process

ASSUME JobsAssumption    == IsFiniteSet(Jobs)
ASSUME WorkersAssumption == MaxWorkers \in Nat \ {0}
ASSUME TimeAssumption    == TTL \in Nat \ {0} /\ MaxTime \in Nat
ASSUME BoundAssumption   == MaxFaults \in Nat /\ MaxRestarts \in Nat

VARIABLES
    status,       \* the row's status, "absent" when there is no row
    progress,     \* the row's progress, in percent
    stamp,        \* the row's updated_at, in whole seconds
    phase,        \* of the process, from one start to the next
    queue,        \* the executor's work queue
    pc,           \* where the thread of a job stands in _run_job
    step,         \* the last step the pipeline announced to on_progress
    event,        \* _cancel_events: no entry, an event, a set event
    asking,       \* cancel handlers between get_job and cancel_job
    history,      \* jobs whose report is in the table `history`
    clock,        \* _now(), in whole seconds
    faults,       \* writes that failed so far
    restarts,     \* starts so far
    cancelledAt,  \* history variable: the step at which the event was set
    zombies       \* history variable: the jobs whose row a start cancelled

row     == <<status, progress, stamp>>
memory  == <<queue, pc, step, event, asking>>
process == <<phase, restarts, zombies>>
vars    == <<row, memory, process, history, clock, faults, cancelledAt>>

Statuses == {"absent", "pending", "running", "done", "error", "cancelled"}
Finished == {"done", "error", "cancelled"}
Active   == {"pending", "running"}
Threaded == {"loading", "stage", "returned", "cancelling", "failing", "ending"}
NotSet   == StageCount + 1

\* The percentage on_progress writes: 5 to 95, by integer part.
Percent(k) == ((k * 90) \div StageCount) + 5

\* Threads of the executor that run a job.
Busy == {j \in Jobs : pc[j] \in Threaded}

Alive == phase \in {"up", "stopping"}

Write(j, s, p) ==
    /\ status'   = [status EXCEPT ![j] = s]
    /\ progress' = [progress EXCEPT ![j] = p]
    /\ stamp'    = [stamp EXCEPT ![j] = clock]

Goto(j, label) == pc' = [pc EXCEPT ![j] = label]

\* SQLite refuses the write (locked past busy_timeout, full disk).
WriteFails ==
    /\ faults < MaxFaults
    /\ faults' = faults + 1
    /\ UNCHANGED row

------------------------------------------------------------------------------
Init ==
    /\ status      = [j \in Jobs |-> "absent"]
    /\ progress    = [j \in Jobs |-> 0]
    /\ stamp       = [j \in Jobs |-> 0]
    /\ phase       = "stopped"
    /\ queue       = <<>>
    /\ pc          = [j \in Jobs |-> "none"]
    /\ step        = [j \in Jobs |-> 0]
    /\ event       = [j \in Jobs |-> "none"]
    /\ asking      = {}
    /\ history     = {}
    /\ clock       = 0
    /\ faults      = 0
    /\ restarts    = 0
    /\ cancelledAt = [j \in Jobs |-> NotSet]
    /\ zombies     = {}

(***************************************************************************)
(* The process.                                                            *)
(***************************************************************************)

\* Mutant of Unfinished: a row that was running is not marked.
UnfinishedPending(j) == status[j] = "pending"

\* The WHERE clause of mark_zombies_cancelled.
Unfinished(j) == status[j] \in Active

\* startup: mark_zombies_cancelled, on the rows the last process left.
MarkZombies ==
    /\ phase \in {"stopped", "crashed"}
    /\ restarts < MaxRestarts
    /\ restarts' = restarts + 1
    /\ phase' = "marked"
    /\ status' = [j \in Jobs |-> IF Unfinished(j) THEN "cancelled" ELSE status[j]]
    /\ stamp'  = [j \in Jobs |-> IF Unfinished(j) THEN clock ELSE stamp[j]]
    /\ zombies' = zombies \union {j \in Jobs : Unfinished(j)}
    /\ UNCHANGED <<progress, memory, history, clock, faults, cancelledAt>>

\* Mutant of Expired: the age alone decides.
ExpiredByAge(age) == {j \in Jobs : status[j] # "absent" /\ stamp[j] + age <= clock}

\* purge_old_jobs: rows that ended at least `age` ago.
Expired(age) == {j \in Jobs : status[j] \in Finished /\ stamp[j] + age <= clock}

Delete(S) ==
    /\ status'   = [j \in Jobs |-> IF j \in S THEN "absent" ELSE status[j]]
    /\ progress' = [j \in Jobs |-> IF j \in S THEN 0 ELSE progress[j]]
    /\ stamp'    = [j \in Jobs |-> IF j \in S THEN 0 ELSE stamp[j]]

\* startup: purge_old_jobs(ttl_minutes=0); the server then takes requests.
StartServing ==
    /\ phase = "marked"
    /\ phase' = "up"
    /\ Delete(Expired(0))
    /\ UNCHANGED <<memory, restarts, zombies, history, clock, faults, cancelledAt>>

\* _cleanup_loop: one round of the background thread.
CleanUp ==
    /\ phase = "up"
    /\ Expired(TTL) # {}
    /\ Delete(Expired(TTL))
    /\ UNCHANGED <<memory, process, history, clock, faults, cancelledAt>>

\* A shutdown begins when no request is open; shutdown() then waits for the
\* executor, which still runs what is queued.
BeginShutdown ==
    /\ phase = "up"
    /\ asking = {}
    /\ \A j \in Jobs : pc[j] # "created"
    /\ phase' = "stopping"
    /\ UNCHANGED <<row, memory, restarts, zombies, history, clock, faults, cancelledAt>>

EndShutdown ==
    /\ phase = "stopping"
    /\ queue = <<>>
    /\ Busy = {}
    /\ phase' = "stopped"
    /\ UNCHANGED <<row, memory, restarts, zombies, history, clock, faults, cancelledAt>>

\* The process dies: its threads, queue, events and open requests with it.
\* The bound leaves a start for every crash.
Crash ==
    /\ phase \in {"marked", "up", "stopping"}
    /\ restarts < MaxRestarts
    /\ phase'  = "crashed"
    /\ queue'  = <<>>
    /\ asking' = {}
    /\ event'  = [j \in Jobs |-> "none"]
    /\ pc'     = [j \in Jobs |-> IF pc[j] = "none" THEN "none" ELSE "over"]
    /\ UNCHANGED <<row, step, restarts, zombies, history, clock, faults, cancelledAt>>

Tick ==
    /\ clock < MaxTime
    /\ clock' = clock + 1
    /\ UNCHANGED <<row, memory, process, history, faults, cancelledAt>>

(***************************************************************************)
(* The HTTP handlers.                                                      *)
(***************************************************************************)

\* submit_job, first half: create_job inserts the row.
CreateJob(j) ==
    /\ phase = "up"
    /\ pc[j] = "none"
    /\ Write(j, "pending", 0)
    /\ Goto(j, "created")
    /\ UNCHANGED <<queue, step, event, asking, process, history, clock, faults, cancelledAt>>

\* submit_job, second half: the event is registered and the job handed to the
\* executor.
Enqueue(j) ==
    /\ phase = "up"
    /\ pc[j] = "created"
    /\ event' = [event EXCEPT ![j] = "clear"]
    /\ queue' = Append(queue, j)
    /\ Goto(j, "queued")
    /\ UNCHANGED <<row, step, asking, process, history, clock, faults, cancelledAt>>

\* DELETE /analyze/{id}, first half: the row is read and is not finished.
\* The id reaches a client only once submit_job has returned it.
AskCancel(j) ==
    /\ phase = "up"
    /\ status[j] \in Active
    /\ pc[j] # "created"
    /\ asking' = asking \union {j}
    /\ UNCHANGED <<row, queue, pc, step, event, process, history, clock, faults, cancelledAt>>

\* DELETE, second half: cancel_job sets the event, if there still is one.
SetCancel(j) ==
    /\ j \in asking
    /\ asking' = asking \ {j}
    /\ event' = [event EXCEPT ![j] = IF @ = "none" THEN "none" ELSE "set"]
    /\ cancelledAt' = [cancelledAt EXCEPT ![j] =
                          IF event[j] = "clear" THEN step[j] ELSE @]
    /\ UNCHANGED <<row, queue, pc, step, process, history, clock, faults>>

(***************************************************************************)
(* A thread of the executor in _run_job.                                   *)
(***************************************************************************)

\* A free thread takes the oldest job and writes its first update_job_running.
Start(j) ==
    /\ Alive
    /\ queue # <<>>
    /\ j = Head(queue)
    /\ Cardinality(Busy) < MaxWorkers
    /\ queue' = Tail(queue)
    /\ \/ /\ Write(j, "running", 5)
          /\ Goto(j, "loading")
          /\ UNCHANGED faults
       \/ /\ WriteFails
          /\ Goto(j, "failing")
    /\ UNCHANGED <<step, event, asking, process, history, clock, cancelledAt>>

\* load_inputs and the merge of the profiles succeed, and the pipeline starts.
LoadInputs(j) ==
    /\ pc[j] = "loading"
    /\ Goto(j, "stage")
    /\ UNCHANGED <<row, queue, step, event, asking, process, history, clock, faults, cancelledAt>>

\* No log file: the row says so, and the thread is done.
LoadNothing(j) ==
    /\ pc[j] = "loading"
    /\ \/ /\ Write(j, "error", progress[j])
          /\ Goto(j, "ending")
          /\ UNCHANGED faults
       \/ /\ WriteFails
          /\ Goto(j, "failing")
    /\ UNCHANGED <<queue, step, event, asking, process, history, clock, cancelledAt>>

\* Mutant of Notify: the event is not looked at.
NotifyDeaf(j, k) ==
    /\ pc[j] = "stage"
    /\ k \in NextSteps(step[j])
    /\ \/ /\ Write(j, "running", Percent(k))
          /\ step' = [step EXCEPT ![j] = k]
          /\ UNCHANGED <<pc, faults>>
       \/ /\ WriteFails
          /\ Goto(j, "failing")
          /\ UNCHANGED step
    /\ UNCHANGED <<queue, event, asking, process, history, clock, cancelledAt>>

\* on_progress: a set event raises _JobCancelledError, otherwise the row is
\* brought up to date.
Notify(j, k) ==
    /\ pc[j] = "stage"
    /\ k \in NextSteps(step[j])
    /\ \/ /\ event[j] = "set"
          /\ Goto(j, "cancelling")
          /\ UNCHANGED <<row, step, faults>>
       \/ /\ event[j] # "set"
          /\ Write(j, "running", Percent(k))
          /\ step' = [step EXCEPT ![j] = k]
          /\ UNCHANGED <<pc, faults>>
       \/ /\ event[j] # "set"
          /\ WriteFails
          /\ Goto(j, "failing")
          /\ UNCHANGED step
    /\ UNCHANGED <<queue, event, asking, process, history, clock, cancelledAt>>

\* Mutant of Interrupt: the event is still looked at when the report is kept.
InterruptLate(j) ==
    /\ pc[j] \in {"stage", "returned"}
    /\ step[j] \in {6, 7}
    /\ event[j] = "set"
    /\ Goto(j, "cancelling")
    /\ UNCHANGED <<row, queue, step, event, asking, process, history, clock, faults, cancelledAt>>

\* The streamed calls of the report and of the reflection look at the event
\* between two chunks and raise InterruptedError.
Interrupt(j) ==
    /\ pc[j] = "stage"
    /\ step[j] \in {6, 7}
    /\ event[j] = "set"
    /\ Goto(j, "cancelling")
    /\ UNCHANGED <<row, queue, step, event, asking, process, history, clock, faults, cancelledAt>>

\* Any other exception, while loading or in a stage.
Raise(j) ==
    /\ pc[j] \in {"loading", "stage"}
    /\ Goto(j, "failing")
    /\ UNCHANGED <<row, queue, step, event, asking, process, history, clock, faults, cancelledAt>>

\* The verdict is "uncertain" or "no similar problem": no report, no history.
ReturnEarly(j) ==
    /\ pc[j] = "stage"
    /\ step[j] \in {4, 5}
    /\ Goto(j, "returned")
    /\ UNCHANGED <<row, queue, step, event, asking, process, history, clock, faults, cancelledAt>>

\* The last stage is over: _save_history inserts, or fails and says nothing.
SaveHistory(j) ==
    /\ pc[j] = "stage"
    /\ step[j] = StageCount
    /\ Goto(j, "returned")
    /\ history' \in {history, history \union {j}}
    /\ UNCHANGED <<row, queue, step, event, asking, process, clock, faults, cancelledAt>>

WriteDone(j) ==
    /\ pc[j] = "returned"
    /\ \/ /\ Write(j, "done", 100)
          /\ Goto(j, "ending")
          /\ UNCHANGED faults
       \/ /\ WriteFails
          /\ Goto(j, "failing")
    /\ UNCHANGED <<queue, step, event, asking, process, history, clock, cancelledAt>>

\* update_job_cancelled, whose WHERE clause spares a finished row.  When the
\* write fails the exception leaves _run_job and the row stays as it is.
WriteCancelled(j) ==
    /\ pc[j] = "cancelling"
    /\ \/ /\ IF status[j] \in Active THEN Write(j, "cancelled", progress[j])
                                     ELSE UNCHANGED row
          /\ UNCHANGED faults
       \/ WriteFails
    /\ Goto(j, "ending")
    /\ UNCHANGED <<queue, step, event, asking, process, history, clock, cancelledAt>>

WriteError(j) ==
    /\ pc[j] = "failing"
    /\ \/ Write(j, "error", progress[j]) /\ UNCHANGED faults
       \/ WriteFails
    /\ Goto(j, "ending")
    /\ UNCHANGED <<queue, step, event, asking, process, history, clock, cancelledAt>>

\* The finally clause.
PopEvent(j) ==
    /\ pc[j] = "ending"
    /\ event' = [event EXCEPT ![j] = "none"]
    /\ Goto(j, "over")
    /\ UNCHANGED <<row, queue, step, asking, process, history, clock, faults, cancelledAt>>

------------------------------------------------------------------------------
Process == MarkZombies \/ StartServing \/ CleanUp \/ BeginShutdown \/ EndShutdown \/ Crash

Request(j) == CreateJob(j) \/ Enqueue(j) \/ AskCancel(j) \/ SetCancel(j)

Thread(j) ==
    \/ Start(j) \/ LoadInputs(j) \/ LoadNothing(j)
    \/ \E k \in Steps : Notify(j, k)
    \/ Interrupt(j) \/ Raise(j) \/ ReturnEarly(j) \/ SaveHistory(j)
    \/ WriteDone(j) \/ WriteCancelled(j) \/ WriteError(j) \/ PopEvent(j)

Next == Process \/ Tick \/ \E j \in Jobs : Request(j) \/ Thread(j)

Spec == Init /\ [][Next]_vars

\* A thread leaves the place where it is: every call it waits on has a timeout,
\* and the loop over the experts (step 3 after step 3) is over a finite list.
Advance(j) ==
    \/ Start(j) \/ LoadInputs(j) \/ LoadNothing(j)
    \/ \E k \in Steps : k # step[j] /\ Notify(j, k)
    \/ Interrupt(j) \/ Raise(j) \/ ReturnEarly(j) \/ SaveHistory(j)
    \/ WriteDone(j) \/ WriteCancelled(j) \/ WriteError(j) \/ PopEvent(j)

\* systemd restarts a process that failed (Restart=on-failure), not one that
\* was stopped.
Fairness ==
    /\ WF_vars(phase = "crashed" /\ MarkZombies)
    /\ WF_vars(StartServing)
    /\ \A j \in Jobs : WF_vars(Enqueue(j)) /\ WF_vars(Advance(j))

FairSpec == Spec /\ Fairness

------------------------------------------------------------------------------
TypeOK ==
    /\ status      \in [Jobs -> Statuses]
    /\ progress    \in [Jobs -> 0 .. 100]
    /\ stamp       \in [Jobs -> 0 .. MaxTime]
    /\ phase       \in {"stopped", "crashed", "marked", "up", "stopping"}
    /\ queue       \in Seq(Jobs)
    /\ pc          \in [Jobs -> {"none", "created", "queued", "over"} \union Threaded]
    /\ step        \in [Jobs -> Steps]
    /\ event       \in [Jobs -> {"none", "clear", "set"}]
    /\ asking      \subseteq Jobs
    /\ history     \subseteq Jobs
    /\ clock       \in 0 .. MaxTime
    /\ faults      \in 0 .. MaxFaults
    /\ restarts    \in 0 .. MaxRestarts
    /\ cancelledAt \in [Jobs -> Steps \union {NotSet}]
    /\ zombies     \subseteq Jobs

(***************************************************************************)
(* What the rows promise to a client that polls them.                      *)
(***************************************************************************)

\* A finished job stays as it ended until its row expires: no late progress
\* write, no second outcome, no restart revives or renames it
\* (job_store.py, the UPDATE statements and their WHERE clauses).
FinishedIsFinal ==
    [][\A j \in Jobs : status[j] \in Finished => status'[j] \in {status[j], "absent"}]_vars

\* The progress a client polls never goes back, whatever the path through the
\* stages (worker.py, on_progress).
ProgressGrows ==
    [][\A j \in Jobs : status'[j] # "absent" => progress'[j] >= progress[j]]_vars

\* While the server is alive, a row that says pending or running has a thread,
\* a place in the queue or an open request that will end it; only a failed
\* write can leave one behind (worker.py, _run_job and startup).
Attended(j) == pc[j] \in Threaded \union {"created", "queued"}

ActiveIsAttended ==
    Alive /\ faults = 0 => \A j \in Jobs : status[j] \in Active => Attended(j)

\* The running count /health reports never exceeds the number of worker
\* threads it reports beside it (main.py, health).
RunningBounded ==
    Alive /\ faults = 0 =>
        Cardinality({j \in Jobs : status[j] = "running"}) <= MaxWorkers

\* A cancel that reaches a job before its pattern matching stage is announced
\* always wins: the job is never done and no report of it is kept
\* (main.py, cancel_analyze: the cancel applies when the next stage begins).
EarlyCancelWins ==
    \A j \in Jobs : cancelledAt[j] < 4 => status[j] # "done" /\ j \notin history

\* Only a client's cancel, or a restart, makes a row cancelled.
CancelHasCause ==
    \A j \in Jobs :
        status[j] = "cancelled" => cancelledAt[j] # NotSet \/ j \in zombies

\* A report in the history belongs to a job that is done, or about to be; what
\* may come between is a restart, or a failed write of "done"
\* (pipeline.py, _finalize_run before worker.py, update_job_done).
ReportMeansDone ==
    \A j \in history :
        \/ status[j] \in {"running", "done", "absent"}
        \/ j \in zombies
        \/ status[j] = "error" /\ faults > 0

\* Every job that was submitted ends, through cancels, crashes and restarts, as
\* long as SQLite takes the writes (a failed one may leave its row behind).
EveryJobEnds ==
    \A j \in Jobs : status[j] \in Active ~> (status[j] \notin Active \/ faults > 0)

\* mark_zombies_cancelled is there so that a client that polls after a restart
\* is told "cancelled" and not 404 (job_store.py:184-186).
ZombiesAreReported ==
    [][phase = "marked" /\ phase' = "up" =>
          \A j \in zombies : status[j] = "cancelled" => status'[j] = "cancelled"]_vars

(***************************************************************************)
(* The life of a job as its client sees it.                                *)
(***************************************************************************)
life == [j \in Jobs |->
            IF status[j] # "absent" THEN status[j]
            ELSE IF pc[j] = "none" THEN "new" ELSE "expired"]

Lifecycle == INSTANCE JobLifecycle WITH Jobs <- Jobs, life <- life

\* Every behaviour of the server, threads, crashes and the clean-up included, is
\* one of the life cycle that the job API promises to a client that polls
\* (main.py, get_analyze_status).
ImplementsLifecycle == Lifecycle!Spec
==============================================================================
