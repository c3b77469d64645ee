---------------------------- MODULE ServerProofs ----------------------------
(***************************************************************************)
(* Theorems about the analysis server: JobServer and JobStream, for every  *)
(* set of jobs, number of workers and bound, and CaseIndex, for every      *)
(* number of handlers, cases and contents.                                 *)
(*                                                                         *)
(* Jobs.  The inductive invariant of the job server relates the row of a   *)
(* job to the place where its thread stands, and the executor's queue to   *)
(* both.  The streams change nothing of the server, whose invariant        *)
(* therefore holds in the composition; what is needed of it is that a row  *)
(* that says how its job ended says so for good, and that the row of a job *)
(* that was submitted does not come back.                                  *)
(*                                                                         *)
(* Cases.  The inductive invariant of the index is at the end.             *)
(***************************************************************************)
EXTENDS JobStream, CaseIndex, TLAPS, FiniteSetTheorems, SequenceTheorems

-----------------------------------------------------------------------------
(* Jobs and their streams.                                                 *)

\* A thread exists only in a live process, an unqueued job only in one that
\* takes requests.
ProcessInv(j) ==
    /\ ~Alive => pc[j] \in {"none", "over"}
    /\ phase = "stopping" => pc[j] # "created"
    /\ phase = "marked" => status[j] \notin Active

\* What the row says, by the place of the thread.  A row that is still active
\* behind its thread is one whose last write failed.
RowInv(j) ==
    /\ pc[j] = "none" => status[j] = "absent"
    /\ pc[j] \in {"created", "queued"} => status[j] = "pending"
    /\ pc[j] \in {"loading", "stage", "returned", "cancelling"} => status[j] = "running"
    /\ pc[j] = "failing" => status[j] \in Active
    /\ pc[j] = "ending" /\ status[j] \in Active => faults > 0
    /\ pc[j] = "over" /\ Alive /\ status[j] \in Active => faults > 0

\* The progress a row shows, by the place of the thread.
ProgressInv(j) ==
    /\ pc[j] \in {"none", "created", "queued"} => progress[j] = 0 /\ step[j] = 0
    /\ pc[j] = "loading" => progress[j] = 5 /\ step[j] = 0
    /\ pc[j] \in {"stage", "returned"} =>
           progress[j] = (IF step[j] = 0 THEN 5 ELSE Percent(step[j]))

\* The cancel event, and when it was set.
EventInv(j) ==
    /\ event[j] = "none" <=> pc[j] \in {"none", "created", "over"}
    /\ event[j] = "set" => cancelledAt[j] # NotSet
    /\ pc[j] \in {"none", "created"} => cancelledAt[j] = NotSet
    /\ pc[j] = "cancelling" => cancelledAt[j] # NotSet

\* A cancel before step 4 keeps the job from ever getting there; a cancelled
\* row has a cause.
CancelInv(j) ==
    /\ status[j] = "done" \/ j \in history \/ pc[j] = "returned" => step[j] >= 4
    /\ cancelledAt[j] < 4 => step[j] < 4
    /\ cancelledAt[j] < 4 /\ pc[j] \in {"queued", "loading", "stage"} => event[j] = "set"
    /\ status[j] = "cancelled" => cancelledAt[j] # NotSet \/ j \in zombies

\* A report is kept just before its job is done.
HistoryInv(j) ==
    j \in history =>
        /\ pc[j] \in {"returned", "failing", "ending", "over"}
        /\ pc[j] = "failing" => faults > 0
        /\ \/ status[j] \in {"running", "done", "absent"}
           \/ j \in zombies
           \/ status[j] = "error" /\ faults > 0

JobInv(j) ==
    /\ ProcessInv(j) /\ RowInv(j) /\ ProgressInv(j)
    /\ EventInv(j) /\ CancelInv(j) /\ HistoryInv(j)

\* The queue holds the queued jobs, each once.
QueueInv ==
    /\ \A i \in 1 .. Len(queue) : pc[queue[i]] = "queued"
    /\ \A i, k \in 1 .. Len(queue) : queue[i] = queue[k] => i = k
    /\ \A j \in Jobs : pc[j] = "queued" => \E i \in 1 .. Len(queue) : queue[i] = j

IInv == TypeOK /\ QueueInv /\ \A j \in Jobs : JobInv(j)

------------------------------------------------------------------------------
\* The percentages on_progress writes lie between 5 and 95.
LEMMA PercentType ==
    ASSUME NEW k \in Steps
    PROVE  Percent(k) \in 5 .. 95
<1>1. CASE StageCount = 6
  BY <1>1 DEF Percent, Steps
<1>2. CASE StageCount = 7
  BY <1>2 DEF Percent, Steps
<1>3. QED
  BY <1>1, <1>2, StageAssumption

\* A later step never shows a lower percentage than an earlier one.
LEMMA PercentGrows ==
    ASSUME NEW s \in Steps, NEW k \in NextSteps(s)
    PROVE  /\ k \in Steps
           /\ s = 0 => Percent(k) >= 5
           /\ Percent(k) >= Percent(s)
<1>1. k \in Steps /\ k >= s
  BY StageAssumption DEF NextSteps, Steps
<1>2. CASE StageCount = 6
  BY <1>1, <1>2 DEF Percent, Steps
<1>3. CASE StageCount = 7
  BY <1>1, <1>3 DEF Percent, Steps
<1>4. QED
  BY <1>1, <1>2, <1>3, StageAssumption

\* The steps of the pipeline reach step 4 only through 3, and pass it only
\* after it was announced.
LEMMA StepOrder ==
    ASSUME NEW s \in Steps, NEW k \in NextSteps(s)
    PROVE  k \in Steps /\ (s >= 4 => k >= 4)
BY StageAssumption DEF NextSteps, Steps

------------------------------------------------------------------------------
(***************************************************************************)
(* Type correctness.                                                       *)
(***************************************************************************)
LEMMA TypeInit == Init => TypeOK
BY StageAssumption, TimeAssumption, BoundAssumption
   DEF Init, TypeOK, Statuses, Steps, NotSet

LEMMA TypeProcess == TypeOK /\ (Process \/ Tick) => TypeOK'
<1> SUFFICES ASSUME TypeOK, Process \/ Tick
             PROVE  TypeOK'
  OBVIOUS
<1> USE BoundAssumption, TimeAssumption
        DEF TypeOK, row, memory, process, Finished, Statuses
<1>1. CASE MarkZombies
  BY <1>1 DEF MarkZombies, Unfinished
<1>2. CASE StartServing
  BY <1>2 DEF StartServing, Delete
<1>3. CASE CleanUp
  BY <1>3 DEF CleanUp, Delete
<1>4. CASE BeginShutdown
  BY <1>4 DEF BeginShutdown
<1>5. CASE EndShutdown
  BY <1>5 DEF EndShutdown
<1>6. CASE Crash
  BY <1>6 DEF Crash
<1>7. CASE Tick
  BY <1>7 DEF Tick
<1>8. QED
  BY <1>1, <1>2, <1>3, <1>4, <1>5, <1>6, <1>7 DEF Process

LEMMA TypeRequest ==
    ASSUME TypeOK, NEW j \in Jobs, Request(j)
    PROVE  TypeOK'
<1> USE DEF TypeOK, row, process, Goto, Statuses
<1>1. CASE CreateJob(j)
  BY <1>1 DEF CreateJob, Write
<1>2. CASE Enqueue(j)
  BY <1>2 DEF Enqueue
<1>3. CASE AskCancel(j)
  BY <1>3 DEF AskCancel
<1>4. CASE SetCancel(j)
  BY <1>4 DEF SetCancel
<1>5. QED
  BY <1>1, <1>2, <1>3, <1>4 DEF Request

\* A write keeps the row well typed; so does a write that fails, which counts
\* one fault more.
LEMMA WriteType ==
    ASSUME TypeOK, NEW j \in Jobs, NEW s \in Statuses, NEW p \in 0 .. 100, Write(j, s, p)
    PROVE  /\ status'   \in [Jobs -> Statuses]
           /\ progress' \in [Jobs -> 0 .. 100]
           /\ stamp'    \in [Jobs -> 0 .. MaxTime]
BY DEF TypeOK, Write

LEMMA FaultType ==
    ASSUME TypeOK, WriteFails
    PROVE  /\ status'   \in [Jobs -> Statuses]
           /\ progress' \in [Jobs -> 0 .. 100]
           /\ stamp'    \in [Jobs -> 0 .. MaxTime]
           /\ faults'   \in 0 .. MaxFaults
BY BoundAssumption DEF TypeOK, WriteFails, row

LEMMA TypeThread ==
    ASSUME TypeOK, NEW j \in Jobs, Thread(j)
    PROVE  TypeOK'
<1>a. /\ {"running", "done", "error", "cancelled"} \subseteq Statuses
      /\ {5, 100, progress[j]} \subseteq 0 .. 100
  BY DEF Statuses, TypeOK
<1> USE DEF TypeOK, row, process, Goto, Threaded
<1>1. CASE Start(j)
  <2>1. queue' \in Seq(Jobs)
    BY <1>1 DEF Start
  <2>2. CASE Write(j, "running", 5) /\ Goto(j, "loading") /\ UNCHANGED faults
    BY <1>1, <1>a, <2>1, <2>2, WriteType DEF Start
  <2>3. CASE WriteFails /\ Goto(j, "failing")
    BY <1>1, <2>1, <2>3, FaultType DEF Start
  <2>4. QED
    BY <1>1, <2>2, <2>3 DEF Start
<1>2. CASE LoadInputs(j)
  BY <1>2 DEF LoadInputs
<1>3. CASE LoadNothing(j)
  <2>1. CASE Write(j, "error", progress[j]) /\ Goto(j, "ending") /\ UNCHANGED faults
    BY <1>3, <1>a, <2>1, WriteType DEF LoadNothing
  <2>2. CASE WriteFails /\ Goto(j, "failing")
    BY <1>3, <2>2, FaultType DEF LoadNothing
  <2>3. QED
    BY <1>3, <2>1, <2>2 DEF LoadNothing
<1>4. ASSUME NEW k \in Steps, Notify(j, k)
      PROVE  TypeOK'
  <2>1. CASE event[j] = "set" /\ Goto(j, "cancelling") /\ UNCHANGED <<row, step, faults>>
    BY <1>4, <2>1 DEF Notify
  <2>2. CASE /\ Write(j, "running", Percent(k))
             /\ step' = [step EXCEPT ![j] = k]
             /\ UNCHANGED <<pc, faults>>
    <3>1. Percent(k) \in 0 .. 100
      BY PercentType
    <3>2. QED
      BY <1>4, <1>a, <2>2, <3>1, WriteType DEF Notify
  <2>3. CASE WriteFails /\ Goto(j, "failing") /\ UNCHANGED step
    BY <1>4, <2>3, FaultType DEF Notify
  <2>4. QED
    BY <1>4, <2>1, <2>2, <2>3 DEF Notify
<1>5. CASE Interrupt(j) \/ Raise(j) \/ ReturnEarly(j)
  BY <1>5 DEF Interrupt, Raise, ReturnEarly
<1>6. CASE SaveHistory(j)
  BY <1>6 DEF SaveHistory
<1>7. CASE WriteDone(j)
  <2>1. CASE Write(j, "done", 100) /\ Goto(j, "ending") /\ UNCHANGED faults
    BY <1>7, <1>a, <2>1, WriteType DEF WriteDone
  <2>2. CASE WriteFails /\ Goto(j, "failing")
    BY <1>7, <2>2, FaultType DEF WriteDone
  <2>3. QED
    BY <1>7, <2>1, <2>2 DEF WriteDone
<1>8. CASE WriteCancelled(j)
  <2>1. CASE Write(j, "cancelled", progress[j]) /\ UNCHANGED faults
    BY <1>8, <1>a, <2>1, WriteType DEF WriteCancelled
  <2>2. CASE UNCHANGED row /\ UNCHANGED faults
    BY <1>8, <2>2 DEF WriteCancelled
  <2>3. CASE WriteFails
    BY <1>8, <2>3, FaultType DEF WriteCancelled
  <2>4. QED
    BY <1>8, <2>1, <2>2, <2>3 DEF WriteCancelled
<1>9. CASE WriteError(j)
  <2>1. CASE Write(j, "error", progress[j]) /\ UNCHANGED faults
    BY <1>9, <1>a, <2>1, WriteType DEF WriteError
  <2>2. CASE WriteFails
    BY <1>9, <2>2, FaultType DEF WriteError
  <2>3. QED
    BY <1>9, <2>1, <2>2 DEF WriteError
<1>10. CASE PopEvent(j)
  BY <1>10 DEF PopEvent
<1>11. QED
  BY <1>1, <1>2, <1>3, <1>4, <1>5, <1>6, <1>7, <1>8, <1>9, <1>10 DEF Thread

\* Every reachable state is well typed: in particular the progress stays a
\* percentage, whatever the number of stages.
THEOREM TypeCorrect == Spec => []TypeOK
<1>1. TypeOK /\ [Next]_vars => TypeOK'
  <2>1. TypeOK /\ UNCHANGED vars => TypeOK'
    BY DEF TypeOK, vars, row, memory, process
  <2>2. QED
    BY <2>1, TypeProcess, TypeRequest, TypeThread DEF Next
<1>2. QED
  BY TypeInit, <1>1, PTL DEF Spec

------------------------------------------------------------------------------
(***************************************************************************)
(* The inductive invariant.                                                *)
(***************************************************************************)
LEMMA InvInit == Init => IInv
<1> SUFFICES ASSUME Init
             PROVE  QueueInv /\ \A j \in Jobs : JobInv(j)
  BY TypeInit DEF IInv
<1>1. QueueInv
  BY DEF Init, QueueInv
<1>2. ASSUME NEW j \in Jobs
      PROVE  JobInv(j)
  BY <1>2, StageAssumption
     DEF Init, JobInv, ProcessInv, RowInv, ProgressInv, EventInv, CancelInv,
         HistoryInv, Alive, Active, NotSet
<1>3. QED
  BY <1>1, <1>2

\* A request or a thread touches the row, the thread and the event of its own
\* job only.
OtherJobsUnchanged(j) ==
    /\ phase' = phase /\ zombies' = zombies /\ faults' \in Nat /\ faults' >= faults
    /\ \A i \in Jobs \ {j} :
           /\ status'[i] = status[i] /\ progress'[i] = progress[i]
           /\ pc'[i] = pc[i] /\ step'[i] = step[i] /\ event'[i] = event[i]
           /\ cancelledAt'[i] = cancelledAt[i]
           /\ i \in history' <=> i \in history

LEMMA RequestFrame ==
    ASSUME TypeOK, NEW j \in Jobs, Request(j)
    PROVE  OtherJobsUnchanged(j)
<1> USE BoundAssumption DEF TypeOK, OtherJobsUnchanged, row, process
<1>1. CASE CreateJob(j)
  BY <1>1 DEF CreateJob, Write, Goto
<1>2. CASE Enqueue(j)
  BY <1>2 DEF Enqueue, Goto
<1>3. CASE AskCancel(j)
  BY <1>3 DEF AskCancel
<1>4. CASE SetCancel(j)
  BY <1>4 DEF SetCancel
<1>5. QED
  BY <1>1, <1>2, <1>3, <1>4 DEF Request

LEMMA ThreadFrame ==
    ASSUME TypeOK, NEW j \in Jobs, Thread(j)
    PROVE  OtherJobsUnchanged(j)
<1> USE BoundAssumption DEF TypeOK, OtherJobsUnchanged, row, process, Write, WriteFails, Goto
<1>1. CASE Start(j) \/ LoadInputs(j) \/ LoadNothing(j)
  BY <1>1 DEF Start, LoadInputs, LoadNothing
<1>2. CASE \E k \in Steps : Notify(j, k)
  BY <1>2 DEF Notify
<1>3. CASE Interrupt(j) \/ Raise(j) \/ ReturnEarly(j) \/ SaveHistory(j)
  BY <1>3 DEF Interrupt, Raise, ReturnEarly, SaveHistory
<1>4. CASE WriteDone(j) \/ WriteCancelled(j)
  BY <1>4 DEF WriteDone, WriteCancelled
<1>5. CASE WriteError(j) \/ PopEvent(j)
  BY <1>5 DEF WriteError, PopEvent
<1>6. QED
  BY <1>1, <1>2, <1>3, <1>4, <1>5 DEF Thread

LEMMA OtherJobs ==
    ASSUME TypeOK, NEW j \in Jobs, OtherJobsUnchanged(j),
           NEW i \in Jobs \ {j}, JobInv(i)
    PROVE  JobInv(i)'
<1> USE BoundAssumption DEF TypeOK, OtherJobsUnchanged
<1>1. ProcessInv(i)' /\ RowInv(i)' /\ ProgressInv(i)'
  BY DEF JobInv, ProcessInv, RowInv, ProgressInv, Alive, Active, Percent
<1>2. EventInv(i)' /\ CancelInv(i)'
  BY DEF JobInv, EventInv, CancelInv, NotSet
<1>3. HistoryInv(i)'
  BY DEF JobInv, HistoryInv
<1>4. QED
  BY <1>1, <1>2, <1>3 DEF JobInv

------------------------------------------------------------------------------
(***************************************************************************)
(* What a step does to the invariant of its own job.                       *)
(***************************************************************************)
LEMMA OwnRequest ==
    ASSUME TypeOK, NEW j \in Jobs, JobInv(j), Request(j)
    PROVE  JobInv(j)'
<1> USE StageAssumption
    DEF TypeOK, row, process, Goto, JobInv, ProcessInv, RowInv, ProgressInv,
        EventInv, CancelInv, HistoryInv, Alive, Active, Threaded, Percent, Steps, NotSet
<1>1. CASE CreateJob(j)
  BY <1>1 DEF CreateJob, Write
<1>2. CASE Enqueue(j)
  BY <1>2 DEF Enqueue
<1>3. CASE AskCancel(j)
  BY <1>3 DEF AskCancel
<1>4. CASE SetCancel(j)
  BY <1>4 DEF SetCancel
<1>5. QED
  BY <1>1, <1>2, <1>3, <1>4 DEF Request

\* The first write of a thread, and the end of the loading.
LEMMA OwnLoading ==
    ASSUME TypeOK, QueueInv, NEW j \in Jobs, JobInv(j),
           Start(j) \/ LoadInputs(j) \/ LoadNothing(j)
    PROVE  JobInv(j)'
<1> USE StageAssumption, BoundAssumption
    DEF TypeOK, row, process, Goto, JobInv, ProcessInv, RowInv, ProgressInv, EventInv,
        CancelInv, HistoryInv, Alive, Active, Threaded, Percent, Steps, NotSet, Write, WriteFails
<1>1. CASE Start(j)
  <2>1. pc[j] = "queued"
    BY <1>1 DEF Start, QueueInv
  <2>2. CASE Write(j, "running", 5) /\ Goto(j, "loading") /\ UNCHANGED faults
    BY <1>1, <2>1, <2>2 DEF Start
  <2>3. CASE WriteFails /\ Goto(j, "failing")
    BY <1>1, <2>1, <2>3 DEF Start
  <2>4. QED
    BY <1>1, <2>2, <2>3 DEF Start
<1>2. CASE LoadInputs(j)
  BY <1>2 DEF LoadInputs
<1>3. CASE LoadNothing(j)
  <2>1. CASE Write(j, "error", progress[j]) /\ Goto(j, "ending") /\ UNCHANGED faults
    BY <1>3, <2>1 DEF LoadNothing
  <2>2. CASE WriteFails /\ Goto(j, "failing")
    BY <1>3, <2>2 DEF LoadNothing
  <2>3. QED
    BY <1>3, <2>1, <2>2 DEF LoadNothing
<1>4. QED
  BY <1>1, <1>2, <1>3

\* An announcement: a set event stops the thread before step 4, because a
\* cancel that came earlier is still set.
LEMMA OwnNotify ==
    ASSUME TypeOK, NEW j \in Jobs, JobInv(j), NEW k \in Steps, Notify(j, k)
    PROVE  JobInv(j)'
<1> USE StageAssumption, BoundAssumption
    DEF TypeOK, row, process, Goto, JobInv, ProcessInv, RowInv, ProgressInv, EventInv,
        CancelInv, HistoryInv, Alive, Active, Threaded, NotSet, Write, WriteFails
<1>a. pc[j] = "stage" /\ k \in NextSteps(step[j])
  BY DEF Notify
<1>b. k # 0 /\ k \in Nat /\ (step[j] >= 4 => k >= 4)
  BY <1>a, StepOrder DEF NextSteps, Steps
<1>1. CASE event[j] = "set" /\ Goto(j, "cancelling") /\ UNCHANGED <<row, step, faults>>
  BY <1>1, <1>a DEF Notify
<1>2. CASE /\ event[j] # "set"
           /\ Write(j, "running", Percent(k))
           /\ step' = [step EXCEPT ![j] = k]
           /\ UNCHANGED <<pc, faults>>
  <2>1. ProcessInv(j)' /\ RowInv(j)' /\ EventInv(j)' /\ HistoryInv(j)'
    BY <1>2, <1>a DEF Notify
  <2>2. ProgressInv(j)'
    BY <1>2, <1>a, <1>b DEF Notify, Percent
  <2>3. CancelInv(j)'
    BY <1>2, <1>a, <1>b DEF Notify, Steps
  <2>4. QED
    BY <2>1, <2>2, <2>3
<1>3. CASE event[j] # "set" /\ WriteFails /\ Goto(j, "failing") /\ UNCHANGED step
  BY <1>3, <1>a DEF Notify
<1>4. QED
  BY <1>1, <1>2, <1>3 DEF Notify

\* The end of the pipeline.
LEMMA OwnPipeline ==
    ASSUME TypeOK, NEW j \in Jobs, JobInv(j),
           Interrupt(j) \/ Raise(j) \/ ReturnEarly(j) \/ SaveHistory(j)
    PROVE  JobInv(j)'
<1> USE StageAssumption, BoundAssumption
    DEF TypeOK, row, process, Goto, JobInv, ProcessInv, RowInv, ProgressInv, EventInv,
        CancelInv, HistoryInv, Alive, Active, Threaded, Percent, Steps, NotSet
<1>1. CASE Interrupt(j)
  BY <1>1 DEF Interrupt
<1>2. CASE Raise(j)
  BY <1>2 DEF Raise
<1>3. CASE ReturnEarly(j)
  BY <1>3 DEF ReturnEarly
<1>4. CASE SaveHistory(j)
  BY <1>4 DEF SaveHistory
<1>5. QED
  BY <1>1, <1>2, <1>3, <1>4

\* The last write of a thread, and its finally clause.
LEMMA OwnEnding ==
    ASSUME TypeOK, NEW j \in Jobs, JobInv(j),
           WriteDone(j) \/ WriteCancelled(j) \/ WriteError(j) \/ PopEvent(j)
    PROVE  JobInv(j)'
<1> USE StageAssumption, BoundAssumption
    DEF TypeOK, row, process, Goto, JobInv, ProcessInv, RowInv, ProgressInv, EventInv,
        CancelInv, HistoryInv, Alive, Active, Threaded, Percent, Steps, NotSet, Write, WriteFails
<1>1. CASE WriteDone(j)
  BY <1>1 DEF WriteDone
<1>2. CASE WriteCancelled(j)
  BY <1>2 DEF WriteCancelled
<1>3. CASE WriteError(j)
  BY <1>3 DEF WriteError
<1>4. CASE PopEvent(j)
  BY <1>4 DEF PopEvent
<1>5. QED
  BY <1>1, <1>2, <1>3, <1>4

------------------------------------------------------------------------------
(***************************************************************************)
(* The steps of the process, which disturb every job, and the queue.       *)
(***************************************************************************)

\* An empty queue and no busy thread leave nothing behind a shutdown.
LEMMA NothingLeft ==
    ASSUME TypeOK, QueueInv, queue = <<>>, Busy = {}, NEW j \in Jobs
    PROVE  pc[j] \in {"none", "created", "over"}
<1>1. pc[j] # "queued"
  BY DEF QueueInv
<1>2. pc[j] \notin Threaded
  BY DEF Busy
<1>3. QED
  BY <1>1, <1>2 DEF TypeOK

LEMMA ProcessStep ==
    ASSUME TypeOK, QueueInv, NEW j \in Jobs, JobInv(j), Process \/ Tick
    PROVE  JobInv(j)'
<1> USE StageAssumption, BoundAssumption
    DEF TypeOK, row, memory, process, JobInv, ProcessInv, RowInv, ProgressInv, EventInv,
        CancelInv, HistoryInv, Alive, Active, Percent, Steps, NotSet, Finished
<1>1. CASE MarkZombies
  BY <1>1 DEF MarkZombies, Unfinished, Threaded
<1>2. CASE StartServing
  BY <1>2 DEF StartServing, Delete, Expired, Threaded
<1>3. CASE CleanUp
  BY <1>3 DEF CleanUp, Delete, Expired, Threaded
<1>4. CASE BeginShutdown
  BY <1>4 DEF BeginShutdown
<1>5. CASE EndShutdown
  BY <1>5, NothingLeft DEF EndShutdown
<1>6. CASE Crash
  BY <1>6 DEF Crash
<1>7. CASE Tick
  BY <1>7 DEF Tick
<1>8. QED
  BY <1>1, <1>2, <1>3, <1>4, <1>5, <1>6, <1>7 DEF Process

\* Steps that leave the queue and the set of queued jobs alone.
LEMMA QueueFrame ==
    ASSUME TypeOK, QueueInv, queue' = queue,
           \A j \in Jobs : pc'[j] = "queued" <=> pc[j] = "queued"
    PROVE  QueueInv'
<1>1. Len(queue) \in Nat /\ \A i \in 1 .. Len(queue) : queue[i] \in Jobs
  BY LenProperties, ElementOfSeq DEF TypeOK
<1>2. QED
  BY <1>1 DEF QueueInv

LEMMA QueueStep == TypeOK /\ QueueInv /\ Next => QueueInv'
<1> SUFFICES ASSUME TypeOK, QueueInv, Next
             PROVE  QueueInv'
  OBVIOUS
<1>1. CASE Process \/ Tick
  <2>1. CASE Crash
    BY <2>1 DEF Crash, QueueInv, TypeOK
  <2>2. CASE UNCHANGED <<queue, pc>>
    BY <2>2, QueueFrame
  <2>3. QED
    BY <1>1, <2>1, <2>2 DEF Process, MarkZombies, StartServing, CleanUp, BeginShutdown,
                            EndShutdown, Tick, memory
<1>2. ASSUME NEW j \in Jobs, Request(j)
      PROVE  QueueInv'
  <2>1. CASE Enqueue(j)
    <3>1. /\ queue' = Append(queue, j)
          /\ pc' = [pc EXCEPT ![j] = "queued"]
          /\ pc[j] = "created"
      BY <2>1 DEF Enqueue, Goto
    <3>2. /\ Len(queue') = Len(queue) + 1
          /\ \A i \in 1 .. Len(queue) : queue'[i] = queue[i] /\ queue'[i] # j
          /\ queue'[Len(queue) + 1] = j
      BY <3>1 DEF TypeOK, QueueInv
    <3>3. Len(queue) \in Nat /\ \A i \in 1 .. Len(queue) : queue[i] \in Jobs
      BY LenProperties, ElementOfSeq DEF TypeOK
    <3>4. \A i \in 1 .. Len(queue') : pc'[queue'[i]] = "queued"
      BY <3>1, <3>2, <3>3 DEF QueueInv, TypeOK
    <3>5. \A i, k \in 1 .. Len(queue') : queue'[i] = queue'[k] => i = k
      BY <3>2, <3>3 DEF QueueInv
    <3>6. ASSUME NEW i \in Jobs, pc'[i] = "queued"
          PROVE  \E k \in 1 .. Len(queue') : queue'[k] = i
      <4>1. CASE i = j
        BY <3>2, <3>3, <4>1
      <4>2. CASE i # j
        BY <3>1, <3>2, <3>3, <3>6, <4>2 DEF TypeOK, QueueInv
      <4>3. QED
        BY <4>1, <4>2
    <3>7. QED
      BY <3>4, <3>5, <3>6 DEF QueueInv
  <2>2. CASE CreateJob(j) \/ AskCancel(j) \/ SetCancel(j)
    BY <2>2, QueueFrame DEF CreateJob, AskCancel, SetCancel, Goto, TypeOK
  <2>3. QED
    BY <1>2, <2>1, <2>2 DEF Request
<1>3. ASSUME NEW j \in Jobs, Thread(j)
      PROVE  QueueInv'
  <2>1. CASE Start(j)
    <3>1. /\ queue # <<>> /\ j = Head(queue) /\ queue' = Tail(queue)
          /\ \E l \in {"loading", "failing"} : pc' = [pc EXCEPT ![j] = l]
      BY <2>1 DEF Start, Goto
    <3>2. /\ Len(queue) \in Nat \ {0} /\ Len(queue') = Len(queue) - 1
          /\ \A i \in 1 .. Len(queue') : queue'[i] = queue[i + 1]
          /\ queue[1] = j
      BY <3>1 DEF TypeOK
    <3>3. \A i \in 2 .. Len(queue) : queue[i] # j /\ queue[i] \in Jobs
      <4>1. \A i \in 1 .. Len(queue) : queue[i] \in Jobs
        BY ElementOfSeq DEF TypeOK
      <4>2. QED
        BY <3>2, <4>1 DEF QueueInv
    <3>4. \A i \in 1 .. Len(queue') : pc'[queue'[i]] = "queued"
      BY <3>1, <3>2, <3>3 DEF QueueInv, TypeOK
    <3>5. \A i, k \in 1 .. Len(queue') : queue'[i] = queue'[k] => i = k
      BY <3>2 DEF QueueInv
    <3>6. ASSUME NEW i \in Jobs, pc'[i] = "queued"
          PROVE  \E k \in 1 .. Len(queue') : queue'[k] = i
      <4>1. i # j /\ pc[i] = "queued"
        BY <3>1, <3>6 DEF TypeOK
      <4>2. PICK k \in 1 .. Len(queue) : queue[k] = i
        BY <4>1 DEF QueueInv
      <4>3. k - 1 \in 1 .. Len(queue') /\ queue'[k - 1] = i
        BY <3>2, <4>1, <4>2
      <4>4. QED
        BY <4>3
    <3>7. QED
      BY <3>4, <3>5, <3>6 DEF QueueInv
  <2>2. CASE LoadInputs(j) \/ LoadNothing(j) \/ (\E k \in Steps : Notify(j, k))
    BY <2>2, QueueFrame DEF LoadInputs, LoadNothing, Notify, Goto, TypeOK
  <2>3. CASE Interrupt(j) \/ Raise(j) \/ ReturnEarly(j) \/ SaveHistory(j)
    BY <2>3, QueueFrame DEF Interrupt, Raise, ReturnEarly, SaveHistory, Goto, TypeOK
  <2>4. CASE WriteDone(j) \/ WriteCancelled(j) \/ WriteError(j) \/ PopEvent(j)
    BY <2>4, QueueFrame DEF WriteDone, WriteCancelled, WriteError, PopEvent, Goto, TypeOK
  <2>5. QED
    BY <1>3, <2>1, <2>2, <2>3, <2>4 DEF Thread
<1>4. QED
  BY <1>1, <1>2, <1>3 DEF Next

LEMMA InvStep == IInv /\ [Next]_vars => IInv'
<1> SUFFICES ASSUME IInv, [Next]_vars
             PROVE  IInv'
  OBVIOUS
<1>1. CASE UNCHANGED vars
  <2>1. TypeOK'
    BY <1>1 DEF IInv, TypeOK, vars, row, memory, process
  <2>2. QueueInv'
    BY <1>1, QueueFrame DEF IInv, vars, memory
  <2>3. ASSUME NEW j \in Jobs
        PROVE  JobInv(j)'
    BY <1>1, <2>3
       DEF IInv, vars, row, memory, process, JobInv, ProcessInv, RowInv, ProgressInv,
           EventInv, CancelInv, HistoryInv, Alive, Percent
  <2>4. QED
    BY <2>1, <2>2, <2>3 DEF IInv
<1>2. CASE Next
  <2>1. TypeOK'
    BY <1>2, TypeProcess, TypeRequest, TypeThread DEF IInv, Next
  <2>2. QueueInv'
    BY <1>2, QueueStep DEF IInv
  <2>3. CASE Process \/ Tick
    BY <2>1, <2>2, <2>3, ProcessStep DEF IInv
  <2>4. ASSUME NEW j \in Jobs, Request(j) \/ Thread(j)
        PROVE  IInv'
    <3>1. OtherJobsUnchanged(j)
      BY <2>4, RequestFrame, ThreadFrame DEF IInv
    <3>2. \A i \in Jobs \ {j} : JobInv(i)'
      BY <3>1, OtherJobs DEF IInv
    <3>3. JobInv(j)'
      BY <2>4, OwnRequest, OwnLoading, OwnNotify, OwnPipeline, OwnEnding DEF IInv, Thread
    <3>4. QED
      BY <2>1, <2>2, <3>2, <3>3 DEF IInv
  <2>5. QED
    BY <1>2, <2>3, <2>4 DEF Next
<1>3. QED
  BY <1>1, <1>2

\* The row of every job, its thread, its event, its report and the queue fit
\* together in every reachable state.
THEOREM InvariantHolds == Spec => []IInv
BY InvInit, InvStep, PTL DEF Spec

------------------------------------------------------------------------------
(***************************************************************************)
(* The safety properties.                                                  *)
(***************************************************************************)

\* As long as SQLite takes the writes, every active row of a live server has a
\* thread, a place in the queue or an open request that will end it.
THEOREM ActiveAlwaysAttended == Spec => []ActiveIsAttended
<1>1. IInv => ActiveIsAttended
  BY DEF IInv, JobInv, RowInv, ActiveIsAttended, Attended, TypeOK, Threaded, Active
<1>2. QED
  BY <1>1, InvariantHolds, PTL

\* A cancel set before the pattern matching stage wins over everything the
\* pipeline may still do.
THEOREM EarlyCancelAlwaysWins == Spec => []EarlyCancelWins
<1>1. IInv => EarlyCancelWins
  BY DEF IInv, JobInv, CancelInv, EarlyCancelWins, TypeOK, Steps
<1>2. QED
  BY <1>1, InvariantHolds, PTL

\* A row says cancelled only when a client or a restart cancelled the job.
THEOREM CancelAlwaysHasCause == Spec => []CancelHasCause
<1>1. IInv => CancelHasCause
  BY DEF IInv, JobInv, CancelInv, CancelHasCause
<1>2. QED
  BY <1>1, InvariantHolds, PTL

\* A kept report belongs to a job that is done or about to be, unless a
\* restart or a failed write came between.
THEOREM ReportAlwaysMeansDone == Spec => []ReportMeansDone
<1>1. IInv => ReportMeansDone
  BY DEF IInv, JobInv, HistoryInv, ReportMeansDone, TypeOK
<1>2. QED
  BY <1>1, InvariantHolds, PTL

\* A row that says how its job ended is not written again.
LEMMA FinalStep ==
    ASSUME IInv, Next, NEW k \in Jobs, status[k] \in Finished
    PROVE  status'[k] \in {status[k], "absent"}
<1> USE DEF IInv, TypeOK, row, Finished, Active
<1>1. CASE Process \/ Tick
  BY <1>1 DEF Process, MarkZombies, StartServing, CleanUp, BeginShutdown, EndShutdown,
              Crash, Tick, Unfinished, Delete
<1>2. ASSUME NEW i \in Jobs \ {k}, Request(i) \/ Thread(i)
      PROVE  status'[k] = status[k]
  BY <1>2, RequestFrame, ThreadFrame DEF OtherJobsUnchanged
<1>3. CASE Request(k)
  BY <1>3 DEF Request, CreateJob, Enqueue, AskCancel, SetCancel, Write, JobInv, RowInv
<1>4. CASE Thread(k)
  <2>1. pc[k] \in {"ending", "over"}
    BY <1>4 DEF JobInv, RowInv, Threaded
  <2>2. ~ Start(k)
    BY <2>1 DEF Start, QueueInv
  <2>3. QED
    BY <1>4, <2>1, <2>2
       DEF Thread, LoadInputs, LoadNothing, Notify, Interrupt, Raise, ReturnEarly,
           SaveHistory, WriteDone, WriteCancelled, WriteError, PopEvent
<1>5. QED
  BY <1>1, <1>2, <1>3, <1>4 DEF Next

\* No thread, no request and no restart changes the outcome of a job that has
\* ended; only the expiry removes its row.
THEOREM FinishedStaysFinal == Spec => FinishedIsFinal
<1> DEFINE Final == \A j \in Jobs : status[j] \in Finished => status'[j] \in {status[j], "absent"}
<1>1. IInv /\ Next => Final
  BY FinalStep
<1>2. UNCHANGED vars => Final
  BY DEF vars, row
<1>3. IInv /\ [Next]_vars => [Final]_vars
  BY <1>1, <1>2
<1>4. QED
  BY <1>3, InvariantHolds, PTL DEF Spec, FinishedIsFinal

\* The progress a client polls never goes back.
THEOREM ProgressAlwaysGrows == Spec => ProgressGrows
<1> DEFINE Grows == \A j \in Jobs : status'[j] # "absent" => progress'[j] >= progress[j]
<1>1. ASSUME IInv, Next
      PROVE  Grows
  <2>a. /\ progress \in [Jobs -> Int]
        /\ \A j \in Jobs : progress[j] >= 0 /\ JobInv(j)
    <3>1. progress \in [Jobs -> 0 .. 100]
      BY <1>1 DEF IInv, TypeOK
    <3>2. QED
      BY <1>1, <3>1 DEF IInv
  <2> USE <2>a DEF row
  <2>1. CASE Process \/ Tick
    BY <2>1 DEF Process, MarkZombies, StartServing, CleanUp, BeginShutdown, EndShutdown,
                Crash, Tick, Delete
  <2>2. ASSUME NEW i \in Jobs, Request(i) \/ Thread(i), NEW j \in Jobs \ {i}
        PROVE  progress'[j] = progress[j]
    BY <1>1, <2>2, RequestFrame, ThreadFrame DEF OtherJobsUnchanged, IInv
  <2>3. ASSUME NEW j \in Jobs, Request(j)
        PROVE  progress'[j] >= progress[j]
    BY <2>3 DEF Request, CreateJob, Enqueue, AskCancel, SetCancel, Write, JobInv, ProgressInv
  <2>4. ASSUME NEW j \in Jobs, NEW k \in Steps, Notify(j, k)
        PROVE  progress'[j] >= progress[j]
    <3>1. CASE Write(j, "running", Percent(k))
      <4>1. pc[j] = "stage" /\ k \in NextSteps(step[j])
        BY <2>4 DEF Notify
      <4>2. progress[j] = IF step[j] = 0 THEN 5 ELSE Percent(step[j])
        BY <4>1 DEF JobInv, ProgressInv
      <4>3. QED
        <5>1. step[j] \in Steps
          BY <1>1 DEF IInv, TypeOK
        <5>2. Percent(k) \in 5 .. 95
          BY PercentType
        <5>3. progress'[j] = Percent(k)
          BY <3>1 DEF Write
        <5>4. QED
          BY <4>1, <4>2, <5>1, <5>2, <5>3, PercentGrows
    <3>2. CASE UNCHANGED row
      BY <3>2
    <3>3. QED
      BY <2>4, <3>1, <3>2 DEF Notify, WriteFails
  <2>5. ASSUME NEW j \in Jobs, Start(j)
        PROVE  progress'[j] >= progress[j]
    <3>1. pc[j] = "queued"
      BY <1>1, <2>5 DEF Start, QueueInv, IInv, TypeOK
    <3>2. QED
      BY <2>5, <3>1 DEF Start, Write, WriteFails, JobInv, ProgressInv
  <2>6. ASSUME NEW j \in Jobs, Thread(j)
        PROVE  progress'[j] >= progress[j]
    <3>1. progress[j] \in 0 .. 100
      BY <1>1 DEF IInv, TypeOK
    <3>2. CASE Start(j) \/ \E k \in Steps : Notify(j, k)
      BY <2>4, <2>5, <3>2
    <3>3. CASE progress' = progress
      BY <3>1, <3>3
    <3>4. CASE \E s \in Statuses : Write(j, s, progress[j]) \/ Write(j, s, 100)
      BY <3>1, <3>4 DEF Write
    <3>5. QED
      BY <2>6, <3>2, <3>3, <3>4
         DEF Thread, LoadInputs, LoadNothing, Interrupt, Raise, ReturnEarly, SaveHistory,
             WriteDone, WriteCancelled, WriteError, PopEvent, WriteFails, Statuses
  <2>7. QED
    BY <1>1, <2>1, <2>2, <2>3, <2>6 DEF Next
<1>2. IInv /\ UNCHANGED vars => Grows
  <2>1. IInv => progress \in [Jobs -> 0 .. 100]
    BY DEF IInv, TypeOK
  <2>2. QED
    BY <2>1 DEF vars, row
<1>3. IInv /\ [Next]_vars => [Grows]_vars
  BY <1>1, <1>2
<1>4. QED
  BY <1>3, InvariantHolds, PTL DEF Spec, ProgressGrows

------------------------------------------------------------------------------
(***************************************************************************)
(* The pool.                                                               *)
(***************************************************************************)

\* No more threads run jobs than the executor has.
PoolInv == Cardinality(Busy) <= MaxWorkers

LEMMA PoolStep ==
    ASSUME IInv, PoolInv, Next
    PROVE  PoolInv'
<1>1. /\ IsFiniteSet(Busy) /\ Cardinality(Busy) \in Nat
      /\ \A S \in SUBSET Busy : Cardinality(S) <= Cardinality(Busy)
  BY JobsAssumption, FS_Subset, FS_CardinalityType DEF Busy
<1>2. CASE \E j \in Jobs : Start(j)
  <2>1. PICK j \in Jobs : Start(j)
    BY <1>2
  <2>2. Busy' \subseteq Busy \union {j}
    BY <2>1 DEF Start, Goto, Busy, IInv, TypeOK
  <2>3. Cardinality(Busy) < MaxWorkers
    BY <2>1 DEF Start
  <2>4. /\ IsFiniteSet(Busy \union {j})
        /\ Cardinality(Busy \union {j}) \in Nat
        /\ Cardinality(Busy \union {j}) <= Cardinality(Busy) + 1
    <3>1. /\ IsFiniteSet(Busy \union {j})
          /\ Cardinality(Busy \union {j}) =
                 IF j \in Busy THEN Cardinality(Busy) ELSE Cardinality(Busy) + 1
      BY <1>1, FS_AddElement
    <3>2. QED
      BY <1>1, <3>1
  <2>5. Cardinality(Busy') <= Cardinality(Busy \union {j}) /\ Cardinality(Busy') \in Nat
    BY <2>2, <2>4, FS_Subset, FS_CardinalityType
  <2>6. QED
    BY <1>1, <2>3, <2>4, <2>5, WorkersAssumption DEF PoolInv
<1>3. CASE Busy' \subseteq Busy
  <2>1. Cardinality(Busy') <= Cardinality(Busy) /\ Cardinality(Busy') \in Nat
    BY <1>1, <1>3, FS_Subset, FS_CardinalityType
  <2>2. QED
    BY <1>1, <2>1, WorkersAssumption DEF PoolInv
<1>4. ASSUME ~ \E j \in Jobs : Start(j)
      PROVE  Busy' \subseteq Busy
  <2> USE DEF IInv, TypeOK, Busy, Goto
  <2>1. CASE Process \/ Tick
    BY <2>1 DEF Process, MarkZombies, StartServing, CleanUp, BeginShutdown, EndShutdown,
                Crash, Tick, memory, Threaded
  <2>2. ASSUME NEW j \in Jobs, Request(j)
        PROVE  Busy' \subseteq Busy
    BY <2>2 DEF Request, CreateJob, Enqueue, AskCancel, SetCancel, Threaded
  <2>3. ASSUME NEW j \in Jobs, NEW k \in Steps, Notify(j, k)
        PROVE  Busy' \subseteq Busy
    BY <2>3 DEF Notify, Threaded
  <2>4. ASSUME NEW j \in Jobs, Thread(j)
        PROVE  Busy' \subseteq Busy
    BY <1>4, <2>3, <2>4
       DEF Thread, LoadInputs, LoadNothing, Interrupt, Raise, ReturnEarly, SaveHistory,
           WriteDone, WriteCancelled, WriteError, PopEvent, Threaded
  <2>5. QED
    BY <2>1, <2>2, <2>4 DEF Next
<1>5. QED
  BY <1>2, <1>3, <1>4

\* The number of running rows never exceeds the number of worker threads.
THEOREM RunningAlwaysBounded == Spec => []RunningBounded
<1>1. Init => PoolInv
  <2>1. Init => Busy = {}
    BY DEF Init, Busy, Threaded
  <2>2. QED
    BY <2>1, FS_EmptySet, WorkersAssumption DEF PoolInv
<1>2. IInv /\ PoolInv /\ [Next]_vars => PoolInv'
  <2>1. UNCHANGED vars => Busy' = Busy
    BY DEF vars, memory, Busy
  <2>2. QED
    BY <2>1, PoolStep DEF PoolInv
<1>3. ASSUME IInv, PoolInv, Alive, faults = 0
      PROVE  Cardinality({j \in Jobs : status[j] = "running"}) <= MaxWorkers
  <2> DEFINE Running == {j \in Jobs : status[j] = "running"}
  <2>1. ASSUME NEW j \in Running
        PROVE  j \in Busy
    <3>1. TypeOK /\ RowInv(j) /\ status[j] \in Active /\ status[j] = "running"
      BY <1>3 DEF IInv, JobInv, Active
    <3>2. pc[j] \in Threaded
      BY <1>3, <3>1 DEF TypeOK, RowInv
    <3>3. QED
      BY <3>2 DEF Busy
  <2>2. IsFiniteSet(Busy)
    BY JobsAssumption, FS_Subset DEF Busy
  <2>3. /\ Cardinality(Running) <= Cardinality(Busy)
        /\ Cardinality(Running) \in Nat /\ Cardinality(Busy) \in Nat
    BY <2>1, <2>2, FS_Subset, FS_CardinalityType
  <2>4. QED
    BY <1>3, <2>3, WorkersAssumption DEF PoolInv
<1>4. IInv /\ PoolInv => RunningBounded
  BY <1>3 DEF RunningBounded
<1>5. QED
  BY <1>1, <1>2, <1>4, InvariantHolds, PTL DEF Spec

------------------------------------------------------------------------------
(***************************************************************************)
(* The server implements the life cycle.                                   *)
(***************************************************************************)

\* What one job's client sees, by its row and its thread.
LEMMA LifeOf ==
    ASSUME TypeOK, NEW j \in Jobs
    PROVE  /\ status[j] # "absent" => life[j] = status[j]
           /\ status[j] = "absent" /\ pc[j] = "none" => life[j] = "new"
           /\ status[j] = "absent" /\ pc[j] # "none" => life[j] = "expired"
BY DEF life, TypeOK

\* A restart cancels every open job and tells nothing to the others.
LEMMA MarkRefines ==
    ASSUME IInv, MarkZombies
    PROVE  Lifecycle!CancelAll
<1>1. life' = [j \in Jobs |-> IF life[j] \in {"pending", "running"}
                              THEN "cancelled" ELSE life[j]]
  <2>1. ASSUME NEW j \in Jobs
        PROVE  (IF status'[j] # "absent" THEN status'[j]
                ELSE IF pc'[j] = "none" THEN "new" ELSE "expired")
             = (IF life[j] \in {"pending", "running"} THEN "cancelled" ELSE life[j])
    BY LifeOf, <2>1 DEF IInv, TypeOK, MarkZombies, Unfinished, Active, memory, Statuses
  <2>2. QED
    BY <2>1 DEF life
<1>2. QED
  BY <1>1 DEF Lifecycle!CancelAll, Lifecycle!Open

\* The expiry takes finished jobs only.
LEMMA DeleteRefines ==
    ASSUME IInv, NEW age, Delete(Expired(age)), UNCHANGED pc
    PROVE  \E S \in SUBSET Jobs : Lifecycle!Expire(S)
<1>1. /\ Expired(age) \in SUBSET Jobs
      /\ \A j \in Expired(age) : life[j] \in {"done", "error", "cancelled"} /\ pc[j] # "none"
  BY DEF Expired, Finished, IInv, TypeOK, JobInv, RowInv, life
<1>2. life' = [j \in Jobs |-> IF j \in Expired(age) THEN "expired" ELSE life[j]]
  BY <1>1 DEF Delete, life, IInv, TypeOK
<1>3. QED
  BY <1>1, <1>2 DEF Lifecycle!Expire, Lifecycle!Outcomes

\* A request or a thread moves the life of its own job only.
LEMMA OwnLife ==
    ASSUME IInv, NEW j \in Jobs, OtherJobsUnchanged(j)
    PROVE  life' = [life EXCEPT ![j] = life'[j]]
BY DEF life, OtherJobsUnchanged, IInv, TypeOK

LEMMA StepRefines == IInv /\ [Next]_vars => [Lifecycle!Next]_life
<1> SUFFICES ASSUME IInv, [Next]_vars
             PROVE  [Lifecycle!Next]_life
  OBVIOUS
<1> USE DEF Lifecycle!Next, Lifecycle!Submit, Lifecycle!Start, Lifecycle!End,
            Lifecycle!Open, Lifecycle!Outcomes
<1>1. CASE UNCHANGED <<status, pc>>
  BY <1>1 DEF life
<1>2. CASE Process \/ Tick
  <2>1. CASE MarkZombies
    BY <2>1, MarkRefines
  <2>2. CASE StartServing \/ CleanUp
    BY <2>2, DeleteRefines DEF StartServing, CleanUp, memory
  <2>3. CASE Crash
    BY <2>3 DEF Crash, life, row, IInv, TypeOK
  <2>4. QED
    BY <1>1, <1>2, <2>1, <2>2, <2>3
       DEF Process, BeginShutdown, EndShutdown, Tick, row, memory
<1>3. ASSUME NEW j \in Jobs, Request(j) \/ Thread(j),
             \/ life'[j] = life[j]
             \/ life[j] = "new" /\ life'[j] = "pending"
             \/ life[j] = "pending" /\ life'[j] = "running"
             \/ /\ life[j] \in {"pending", "running"}
                /\ life'[j] \in {"done", "error", "cancelled"}
                /\ life'[j] = "done" => life[j] = "running"
      PROVE  [Lifecycle!Next]_life
  <2>1. life' = [life EXCEPT ![j] = life'[j]]
    BY <1>3, OwnLife, RequestFrame, ThreadFrame DEF IInv
  <2>2. CASE life'[j] = life[j]
    BY <2>1, <2>2 DEF life
  <2>3. QED
    BY <1>3, <2>1, <2>2
<1>4. ASSUME NEW j \in Jobs, Request(j)
      PROVE  [Lifecycle!Next]_life
  <2>1. CASE CreateJob(j)
    <3>1. life[j] = "new" /\ life'[j] = "pending"
      BY <2>1 DEF CreateJob, Write, life, IInv, TypeOK, JobInv, RowInv
    <3>2. QED
      BY <1>3, <1>4, <3>1
  <2>2. CASE Enqueue(j) \/ AskCancel(j) \/ SetCancel(j)
    <3>1. life'[j] = life[j]
      BY <2>2 DEF Enqueue, AskCancel, SetCancel, Goto, row, life, IInv, TypeOK
    <3>2. QED
      BY <1>3, <1>4, <3>1
  <2>3. QED
    BY <1>4, <2>1, <2>2 DEF Request
<1>5. ASSUME NEW j \in Jobs, Thread(j)
      PROVE  [Lifecycle!Next]_life
  <2>1. pc[j] \in Threaded \union {"queued"} /\ pc'[j] # "none"
    BY <1>5 DEF IInv, TypeOK, QueueInv, Goto, Threaded, Thread, Start, LoadInputs, LoadNothing,
                Notify, Interrupt, Raise, ReturnEarly, SaveHistory, WriteDone, WriteCancelled,
                WriteError, PopEvent
  <2>2. /\ status[j] # "absent" => life[j] = status[j]
        /\ status'[j] # "absent" => life'[j] = status'[j]
        /\ status'[j] = status[j] => life'[j] = life[j]
    BY <2>1 DEF life, Threaded
  <2>3. CASE status'[j] = status[j]
    BY <1>3, <1>5, <2>2, <2>3
  <2>4. CASE Start(j) /\ status'[j] # status[j]
    <3>1. pc[j] = "queued"
      BY <2>4 DEF Start, QueueInv, IInv, TypeOK
    <3>2. status[j] = "pending" /\ status'[j] = "running"
      BY <2>4, <3>1 DEF Start, Write, WriteFails, row, IInv, TypeOK, JobInv, RowInv
    <3>3. QED
      BY <1>3, <1>5, <2>2, <3>2
  <2>5. CASE (\E k \in Steps : Notify(j, k)) /\ status'[j] # status[j]
    BY <2>5 DEF Notify, Write, WriteFails, row, IInv, TypeOK, JobInv, RowInv
  <2>6. CASE /\ LoadNothing(j) \/ WriteDone(j) \/ WriteCancelled(j) \/ WriteError(j)
             /\ status'[j] # status[j]
    <3>1. /\ status[j] \in {"pending", "running"}
          /\ status'[j] \in {"done", "error", "cancelled"}
          /\ status'[j] = "done" => status[j] = "running"
      BY <2>6 DEF LoadNothing, WriteDone, WriteCancelled, WriteError, Write, WriteFails, row,
                  IInv, TypeOK, JobInv, RowInv, Active
    <3>2. QED
      BY <1>3, <1>5, <2>2, <3>1
  <2>7. QED
    BY <1>5, <2>3, <2>4, <2>5, <2>6
       DEF Thread, LoadInputs, Interrupt, Raise, ReturnEarly, SaveHistory, PopEvent, row
<1>6. QED
  BY <1>1, <1>2, <1>4, <1>5 DEF Next, vars, row, memory

\* Every behaviour of the server is one the life cycle allows: for a client
\* that polls, a job is pending, then running, ends once, and expires.
THEOREM ServerImplementsLifecycle == Spec => ImplementsLifecycle
<1>1. Init => Lifecycle!Init
  BY DEF Init, Lifecycle!Init, life
<1>2. QED
  BY <1>1, StepRefines, InvariantHolds, PTL DEF Spec, Lifecycle!Spec, ImplementsLifecycle

------------------------------------------------------------------------------
(* The streams.                                                            *)

\* A stream is opened for a job that was submitted; what a closed one said is
\* what the row says, as long as there is one.
StreamInv ==
    \A j \in Jobs :
        /\ stream[j] # "none" => pc[j] # "none"
        /\ stream[j] \in Finished => status[j] \in {stream[j], "absent"}

IStream == IInv /\ StreamTypeOK /\ StreamInv

------------------------------------------------------------------------------
\* Every step of the composition is one of the server or a stutter of it.
LEMMA ServerSteps == StreamNext => [Next]_vars
BY DEF StreamNext, ServerStep, CrashStreams, ShutdownStreams, TickStreams, OpenStream, Poll,
       Leave, Next, Process

LEMMA StreamStart == StreamInit => IStream
<1> SUFFICES ASSUME StreamInit PROVE IStream
  OBVIOUS
<1>1. IInv
  BY InvInit DEF StreamInit
<1>2. StreamTypeOK
  <2>1. NoStamp \in 0 .. NoStamp
    BY TimeAssumption DEF NoStamp
  <2>2. QED
    BY <2>1 DEF StreamInit, StreamTypeOK
<1>3. StreamInv
  BY DEF StreamInit, StreamInv, Finished
<1>4. QED
  BY <1>1, <1>2, <1>3 DEF IStream

\* What the streams know keeps its type.
LEMMA StreamType == TypeOK /\ StreamTypeOK /\ StreamNext => StreamTypeOK'
<1> SUFFICES ASSUME TypeOK, StreamTypeOK, StreamNext PROVE StreamTypeOK'
  OBVIOUS
<1> USE DEF StreamTypeOK, streamVars, Finished
<1>1. CASE ServerStep \/ ShutdownStreams
  BY <1>1 DEF ServerStep, ShutdownStreams
<1>2. CASE CrashStreams
  BY <1>2 DEF CrashStreams
<1>3. CASE TickStreams
  BY <1>3 DEF TickStreams
<1>4. ASSUME NEW j \in Jobs, OpenStream(j) \/ Leave(j)
      PROVE  StreamTypeOK'
  BY <1>4 DEF OpenStream, Leave
<1>5. ASSUME NEW j \in Jobs, Poll(j)
      PROVE  StreamTypeOK'
  <2>1. Closing(j) \in {"open", "notfound"} \union Finished
    BY DEF Closing
  <2>2. stamp[j] \in 0 .. NoStamp
    <3>1. stamp[j] \in 0 .. MaxTime
      BY DEF TypeOK
    <3>2. QED
      BY <3>1, TimeAssumption DEF NoStamp
  <2>3. QED
    BY <1>5, <2>1, <2>2 DEF Poll
<1>6. QED
  BY <1>1, <1>2, <1>3, <1>4, <1>5 DEF StreamNext

\* A job that was submitted stays one, and its row, once gone, is gone for good.
LEMMA GoneStays ==
    ASSUME IInv, [Next]_vars, NEW j \in Jobs, pc[j] # "none"
    PROVE  pc'[j] # "none" /\ (status[j] = "absent" => status'[j] = "absent")
<1> USE DEF IInv, TypeOK
<1>1. CASE UNCHANGED vars
  BY <1>1 DEF vars, row, memory
<1>2. CASE Process \/ Tick
  BY <1>2 DEF Process, MarkZombies, StartServing, CleanUp, BeginShutdown, EndShutdown,
              Crash, Tick, Unfinished, Delete, Active, row, memory
<1>3. ASSUME NEW i \in Jobs \ {j}, Request(i) \/ Thread(i)
      PROVE  status'[j] = status[j] /\ pc'[j] = pc[j]
  BY <1>3, RequestFrame, ThreadFrame DEF OtherJobsUnchanged
<1>4. CASE Request(j)
  BY <1>4 DEF Request, CreateJob, Enqueue, AskCancel, SetCancel, Goto, row
<1>5. CASE Thread(j)
  <2>1. pc'[j] # "none"
    BY <1>5 DEF Goto, Thread, Start, LoadInputs, LoadNothing, Notify, Interrupt, Raise,
                ReturnEarly, SaveHistory, WriteDone, WriteCancelled, WriteError, PopEvent
  <2>2. CASE status[j] = "absent"
    <3>1. pc[j] \in {"ending", "over"}
      BY <2>2 DEF JobInv, RowInv, Threaded, Active
    <3>2. ~ Start(j)
      BY <3>1 DEF Start, QueueInv
    <3>3. QED
      BY <1>5, <2>1, <3>1, <3>2
         DEF Thread, LoadInputs, LoadNothing, Notify, Interrupt, Raise, ReturnEarly,
             SaveHistory, WriteDone, WriteCancelled, WriteError, PopEvent, row
  <2>3. QED
    BY <2>1, <2>2
<1>6. QED
  BY <1>1, <1>2, <1>3, <1>4, <1>5 DEF Next

\* What a stream may become in a step.
LEMMA StreamMoves ==
    ASSUME StreamTypeOK, StreamNext, NEW j \in Jobs
    PROVE  \/ stream'[j] = stream[j]
           \/ stream'[j] = "dropped" /\ stream[j] # "none"
           \/ stream'[j] = "open" /\ pc[j] # "none"
           \/ /\ stream[j] = "open"
              /\ stream'[j] \in {"open", "notfound", status[j]}
              /\ status'[j] = status[j]
<1> USE DEF StreamTypeOK, streamVars
<1>1. CASE ServerStep \/ CrashStreams \/ ShutdownStreams \/ TickStreams
  BY <1>1 DEF ServerStep, CrashStreams, ShutdownStreams, TickStreams
<1>2. ASSUME NEW i \in Jobs, OpenStream(i) \/ Leave(i)
      PROVE  \/ stream'[j] = stream[j]
             \/ stream'[j] = "dropped" /\ stream[j] # "none"
             \/ stream'[j] = "open" /\ pc[j] # "none"
  BY <1>2 DEF OpenStream, Leave
<1>3. ASSUME NEW i \in Jobs, Poll(i)
      PROVE  \/ stream'[j] = stream[j]
             \/ /\ stream[j] = "open"
                /\ stream'[j] \in {"open", "notfound", status[j]}
                /\ status'[j] = status[j]
  BY <1>3 DEF Poll, Closing, vars, row
<1>4. QED
  BY <1>1, <1>2, <1>3 DEF StreamNext

LEMMA StreamStep == IStream /\ [StreamNext]_allVars => IStream'
<1> SUFFICES ASSUME IStream, [StreamNext]_allVars PROVE IStream'
  OBVIOUS
<1>1. [Next]_vars
  BY ServerSteps DEF allVars
<1>2. IInv'
  BY <1>1, InvStep DEF IStream
<1>3. StreamTypeOK'
  BY StreamType DEF IStream, IInv, allVars, vars, row, streamVars, StreamTypeOK
<1>4. ASSUME NEW j \in Jobs
      PROVE  /\ stream'[j] # "none" => pc'[j] # "none"
             /\ stream'[j] \in Finished => status'[j] \in {stream'[j], "absent"}
  <2> USE DEF IStream, StreamInv
  <2>1. pc[j] # "none" => /\ pc'[j] # "none"
                          /\ status[j] = "absent" => status'[j] = "absent"
    BY <1>1, GoneStays
  <2>2. status[j] \in Finished => status'[j] \in {status[j], "absent"}
    BY <1>1, FinalStep DEF vars, row
  <2>3. CASE stream'[j] = stream[j]
    BY <2>1, <2>2, <2>3 DEF Finished
  <2>4. CASE StreamNext /\ stream'[j] # stream[j]
    BY <2>1, <2>4, StreamMoves DEF Finished
  <2>5. QED
    BY <2>3, <2>4 DEF allVars, streamVars
<1>5. QED
  BY <1>2, <1>3, <1>4 DEF IStream, StreamInv

------------------------------------------------------------------------------
\* The invariant holds in every state of the server with its streams.
THEOREM StreamInvariantHolds == StreamSpec => []IStream
BY StreamStart, StreamStep, PTL DEF StreamSpec

\* The server with its streams does what the server does: the streams only read, and
\* the crash, the shutdown and the clock, which both have, are the server's own.  So
\* all that is proved of the server holds in the composition.
THEOREM StreamsImplementServer == StreamSpec => Spec
<1>1. StreamInit => Init
  BY DEF StreamInit
<1>2. [StreamNext]_allVars => [Next]_vars
  BY ServerSteps DEF allVars
<1>3. QED
  BY <1>1, <1>2, PTL DEF StreamSpec, Spec

\* The type of what the streams know.
THEOREM StreamTypeCorrect == StreamSpec => []StreamTypeOK
<1>1. IStream => StreamTypeOK
  BY DEF IStream
<1>2. QED
  BY <1>1, StreamInvariantHolds, PTL

\* The event that closes a stream names how the job ended, in every order of the
\* polls, the writes of the threads, clean-ups, crashes and restarts.
THEOREM StreamAlwaysTellsTheTruth == StreamSpec => []StreamTellsTheTruth
<1>1. IStream => StreamTellsTheTruth
  BY DEF IStream, StreamInv, StreamTellsTheTruth
<1>2. QED
  BY <1>1, StreamInvariantHolds, PTL

-----------------------------------------------------------------------------
(* The index of the cases.                                                 *)

\* A handler holds contents to embed only while it embeds, and the target of a
\* PUT or DELETE is a case.
HandlerInv ==
    \A h \in Handlers :
        /\ at[h] \notin Embedding => pending[h] = Nothing
        /\ at[h] \in {"update", "delete"} \union Removing => target[h] \in Cases

Disturbed == overlapped \union failed

\* A case that is not disturbed has at most one writer.
OneWriter(c) ==
    \A g, h \in Handlers : Holds(g, c) /\ Holds(h, c) => g = h

\* The writer carries the content of the row, and what it has written is right.
WriterInv(h, c) ==
    /\ at[h] \in Embedding => pending[h][c] = table[c]
    /\ at[h] = "analysis" /\ FirstPending(h, c) => desc[c] = table[c]
    /\ at[h] \in Removing => table[c] = None
    /\ at[h] = "removeAnalysis" => desc[c] = None

CaseInv(c) ==
    c \notin Disturbed =>
        /\ OneWriter(c)
        /\ \A h \in Handlers : Holds(h, c) => WriterInv(h, c)
        /\ Quiet(c) => Agrees(c)

IndexIInv == IndexTypeOK /\ HandlerInv /\ \A c \in Cases : CaseInv(c)

------------------------------------------------------------------------------
LEMMA TypeStep == IndexTypeOK /\ HandlerInv /\ [IndexNext]_indexVars => IndexTypeOK'
<1> SUFFICES ASSUME IndexTypeOK, HandlerInv, [IndexNext]_indexVars
             PROVE  IndexTypeOK'
  OBVIOUS
<1>a. Nothing \in [Cases -> Saves \union {None}]
  BY DEF Nothing
<1>b. \A c \in Cases : c + 1 \in 1 .. MaxCases + 1
  BY CasesAssumption DEF Cases
<1>c. \A S \in SUBSET Cases, gone \in SUBSET Cases :
          Begin(S, gone) => overlapped' \subseteq Cases /\ failed' \subseteq Cases
  BY DEF IndexTypeOK, Begin
<1>d. \A h \in Handlers : at[h] = "delete" => target[h] \in Cases
  BY DEF HandlerInv
<1> USE <1>a DEF IndexTypeOK, store, index, handler, Idle, Embedding, Removing
<1>1. CASE UNCHANGED indexVars
  BY <1>1 DEF indexVars
<1>2. CASE ServerCrash
  BY <1>2 DEF ServerCrash
<1>3. ASSUME NEW h \in Handlers, NEW s \in Saves, Create(h, s) \/ Update(h, s)
      PROVE  IndexTypeOK'
  <2>1. CASE Create(h, s)
    BY <1>b, <1>c, <2>1 DEF Create
  <2>2. CASE Update(h, s)
    BY <1>c, <2>2 DEF Update, HandlerInv
  <2>3. QED
    BY <1>3, <2>1, <2>2
<1>4. ASSUME NEW h \in Handlers, NEW c \in Cases, NEW next \in {"update", "delete"},
             Check(h, c, next)
      PROVE  IndexTypeOK'
  BY <1>4 DEF Check
<1>5. ASSUME NEW h \in Handlers, RejectUpdate(h) \/ DeleteCase(h) \/ Sync(h)
      PROVE  IndexTypeOK'
  <2>1. CASE RejectUpdate(h)
    BY <2>1 DEF RejectUpdate
  <2>2. CASE DeleteCase(h)
    <3>1. target[h] \in Cases
      <4>1. at[h] = "delete"
        BY <2>2 DEF DeleteCase
      <4>2. QED
        BY <1>d, <1>5, <4>1
    <3>2. overlapped' \subseteq Cases /\ failed' \subseteq Cases
      <4>1. {target[h]} \in SUBSET Cases /\ {} \in SUBSET Cases
        BY <3>1
      <4>2. Begin({target[h]}, {})
        BY <2>2 DEF DeleteCase
      <4>3. QED
        BY <1>c, <4>1, <4>2
    <3>3. QED
      BY <2>2, <3>1, <3>2 DEF DeleteCase
  <2>3. CASE Sync(h)
    BY <1>c, <2>3 DEF Sync
  <2>4. QED
    BY <1>5, <2>1, <2>2, <2>3
<1>6. ASSUME NEW h \in Handlers, NEW c \in Cases, EmbedDescription(h, c) \/ EmbedAnalysis(h, c)
      PROVE  IndexTypeOK'
  <2>1. CASE EmbedDescription(h, c)
    BY <2>1 DEF EmbedDescription
  <2>2. CASE EmbedAnalysis(h, c)
    <3>1. \A x \in Saves \union {None} : AnalysisOf(x) \in WithAnalysis \union {None}
      BY DEF AnalysisOf
    <3>2. AnalysisOf(pending[h][c]) \in WithAnalysis \union {None}
      BY <3>1
    <3>3. anal' \in [Cases -> WithAnalysis \union {None}]
      BY <2>2, <3>2 DEF EmbedAnalysis
    <3>4. [pending[h] EXCEPT ![c] = None] \in [Cases -> Saves \union {None}]
      OBVIOUS
    <3>5. pending' \in [Handlers -> [Cases -> Saves \union {None}]]
      BY <2>2, <3>4 DEF EmbedAnalysis
    <3>6. QED
      BY <2>2, <3>3, <3>5 DEF EmbedAnalysis
  <2>3. QED
    BY <1>6, <2>1, <2>2
<1>7. ASSUME NEW h \in Handlers, Remove(h) \/ RemoveAnalysis(h) \/ Fail(h)
      PROVE  IndexTypeOK'
  BY <1>7 DEF Remove, RemoveAnalysis, Fail
<1>8. QED
  BY <1>1, <1>2, <1>3, <1>4, <1>5, <1>6, <1>7 DEF IndexNext, Handle

LEMMA HandlerStep == IndexTypeOK /\ HandlerInv /\ [IndexNext]_indexVars => HandlerInv'
<1> SUFFICES ASSUME IndexTypeOK, HandlerInv, [IndexNext]_indexVars
             PROVE  HandlerInv'
  OBVIOUS
<1> USE DEF IndexTypeOK, HandlerInv, handler, Idle, Embedding, Removing
<1>1. CASE UNCHANGED indexVars
  BY <1>1 DEF indexVars
<1>2. CASE ServerCrash
  BY <1>2 DEF ServerCrash
<1>3. ASSUME NEW h \in Handlers, NEW s \in Saves, Create(h, s) \/ Update(h, s)
      PROVE  HandlerInv'
  BY <1>3 DEF Create, Update
<1>4. ASSUME NEW h \in Handlers, NEW c \in Cases, NEW next \in {"update", "delete"},
             Check(h, c, next)
      PROVE  HandlerInv'
  BY <1>4 DEF Check
<1>5. ASSUME NEW h \in Handlers, RejectUpdate(h) \/ DeleteCase(h) \/ Sync(h)
      PROVE  HandlerInv'
  BY <1>5 DEF RejectUpdate, DeleteCase, Sync
<1>6. ASSUME NEW h \in Handlers, NEW c \in Cases, EmbedDescription(h, c) \/ EmbedAnalysis(h, c)
      PROVE  HandlerInv'
  BY <1>6 DEF EmbedDescription, EmbedAnalysis
<1>7. ASSUME NEW h \in Handlers, Remove(h) \/ RemoveAnalysis(h) \/ Fail(h)
      PROVE  HandlerInv'
  BY <1>7 DEF Remove, RemoveAnalysis, Fail
<1>8. QED
  BY <1>1, <1>2, <1>3, <1>4, <1>5, <1>6, <1>7 DEF IndexNext, Handle

------------------------------------------------------------------------------
(***************************************************************************)
(* One case at a time.                                                     *)
(***************************************************************************)

\* A commit of handler h, which then holds the cases of S and no others: an
\* undisturbed case of S has h as its only writer.
LEMMA CommitStep ==
    ASSUME HandlerInv, \A c \in Cases : CaseInv(c),
           NEW h \in Handlers, at[h] \notin Embedding \union Removing,
           NEW S \in SUBSET Cases, NEW gone \in SUBSET S, Begin(S, gone),
           \A g \in Handlers \ {h} :
               at'[g] = at[g] /\ target'[g] = target[g] /\ pending'[g] = pending[g],
           \A c \in Cases : Holds(h, c)' <=> c \in S,
           \A c \in Cases \ S : table'[c] = table[c],
           \A c \in S \ gone :
               \/ at'[h] = "description" /\ pending'[h][c] = table'[c]
               \/ at'[h] = "remove" /\ table'[c] = None,
           UNCHANGED index
    PROVE  \A c \in Cases : CaseInv(c)'
<1> USE DEF index
<1>1. \A g \in Handlers \ {h}, c \in Cases : Holds(g, c)' <=> Holds(g, c)
  BY DEF Holds
<1>2. \A c \in Cases : ~ Holds(h, c)
  BY DEF Holds
<1>3. ASSUME NEW c \in S, c \notin Disturbed'
      PROVE  CaseInv(c)'
  <2>1. c \notin gone /\ \A g \in Handlers : ~ Holds(g, c)
    BY <1>3 DEF Begin, Disturbed
  <2>2. \A g \in Handlers : Holds(g, c)' => g = h
    BY <1>1, <2>1
  <2>3. WriterInv(h, c)'
    BY <1>3, <2>1 DEF WriterInv, Embedding, Removing
  <2>4. ~ Quiet(c)'
    BY <1>3 DEF Quiet
  <2>5. QED
    BY <2>2, <2>3, <2>4 DEF CaseInv, OneWriter
<1>4. ASSUME NEW c \in Cases \ S, c \notin Disturbed'
      PROVE  CaseInv(c)'
  <2>1. c \notin Disturbed
    BY <1>4 DEF Begin, Disturbed
  <2>2. \A g \in Handlers : Holds(g, c)' <=> Holds(g, c)
    BY <1>1, <1>2, <1>4
  <2>3. \A g \in Handlers : Holds(g, c) => WriterInv(g, c)'
    BY <1>2, <1>4, <2>1 DEF CaseInv, WriterInv, FirstPending
  <2>4. Quiet(c)' => Agrees(c)'
    BY <1>4, <2>1, <2>2 DEF CaseInv, Quiet, Agrees, AnalysisOf
  <2>5. OneWriter(c)'
    BY <1>4, <2>1, <2>2 DEF CaseInv, OneWriter
  <2>6. QED
    BY <2>2, <2>3, <2>4, <2>5 DEF CaseInv
<1>5. QED
  BY <1>3, <1>4 DEF CaseInv

LEMMA EmbedDescriptionStep ==
    ASSUME IndexTypeOK, \A c \in Cases : CaseInv(c),
           NEW h \in Handlers, NEW d \in Cases, EmbedDescription(h, d)
    PROVE  \A c \in Cases : CaseInv(c)'
<1> USE DEF EmbedDescription, store
<1>1. \A g \in Handlers, c \in Cases : Holds(g, c)' <=> Holds(g, c)
  BY DEF Holds, IndexTypeOK, Embedding, Removing
<1>2. Holds(h, d)
  BY DEF Holds, FirstPending, Embedding
<1>3. \A c \in Cases : FirstPending(h, c) => c = d
  BY CasesAssumption DEF FirstPending, Cases
<1>4. ASSUME NEW c \in Cases, c \notin Disturbed
      PROVE  CaseInv(c)'
  <2>1. ASSUME NEW g \in Handlers, Holds(g, c)
        PROVE  WriterInv(g, c)'
    <3>1. CASE g = h
      BY <1>3, <1>4, <2>1, <3>1
         DEF CaseInv, WriterInv, FirstPending, IndexTypeOK, Embedding, Removing
    <3>2. CASE g # h
      <4>1. c # d
        BY <1>2, <1>4, <2>1, <3>2 DEF CaseInv, OneWriter
      <4>2. QED
        BY <1>4, <2>1, <3>2, <4>1 DEF CaseInv, WriterInv, FirstPending, IndexTypeOK
    <3>3. QED
      BY <3>1, <3>2
  <2>2. Quiet(c)' => Agrees(c)'
    BY <1>1, <1>2, <1>4 DEF CaseInv, Quiet, Agrees, AnalysisOf, IndexTypeOK
  <2>3. QED
    BY <1>1, <1>4, <2>1, <2>2 DEF CaseInv, OneWriter
<1>5. QED
  BY <1>4 DEF CaseInv, Disturbed

LEMMA EmbedAnalysisStep ==
    ASSUME IndexTypeOK, \A c \in Cases : CaseInv(c),
           NEW h \in Handlers, NEW d \in Cases, EmbedAnalysis(h, d)
    PROVE  \A c \in Cases : CaseInv(c)'
<1> DEFINE rest == [pending[h] EXCEPT ![d] = None]
<1>1. /\ at[h] = "analysis" /\ pending[h][d] # None /\ at'[h] \in {"idle", "description"}
      /\ \A c \in Cases \ {d} : Holds(h, c)' <=> Holds(h, c)
      /\ \A c \in Cases \ {d} :
            Holds(h, c) => pending'[h][c] = pending[h][c] /\ at'[h] = "description"
      /\ ~ Holds(h, d)'
  <2> USE DEF EmbedAnalysis, Idle, IndexTypeOK, Holds, FirstPending, Embedding, Removing
  <2>1. rest \in [Cases -> Saves \union {None}] /\ rest[d] = None
        /\ \A c \in Cases \ {d} : rest[c] = pending[h][c]
    OBVIOUS
  <2>2. CASE rest = Nothing
    BY <2>1, <2>2 DEF Nothing
  <2>3. CASE rest # Nothing
    BY <2>1, <2>3
  <2>4. QED
    BY <2>2, <2>3
<1>2. \A g \in Handlers \ {h} :
          at'[g] = at[g] /\ target'[g] = target[g] /\ pending'[g] = pending[g]
  BY DEF EmbedAnalysis, Idle, IndexTypeOK
<1>3. \A g \in Handlers \ {h}, c \in Cases : Holds(g, c)' <=> Holds(g, c)
  BY <1>2 DEF Holds
<1>4. Holds(h, d) /\ FirstPending(h, d)
  BY <1>1 DEF Holds, EmbedAnalysis, Embedding
<1>5. /\ UNCHANGED <<store, desc, overlapped, failed>>
      /\ anal' = [anal EXCEPT ![d] = AnalysisOf(pending[h][d])]
  BY DEF EmbedAnalysis
<1>6. ASSUME NEW c \in Cases \ {d}, c \notin Disturbed
      PROVE  CaseInv(c)'
  <2>1. \A g \in Handlers : Holds(g, c)' <=> Holds(g, c)
    BY <1>1, <1>3, <1>6
  <2>2. ASSUME NEW g \in Handlers, Holds(g, c)
        PROVE  WriterInv(g, c)'
    <3>1. CASE g = h
      BY <1>1, <1>5, <1>6, <2>2, <3>1 DEF CaseInv, WriterInv, store, Embedding, Removing
    <3>2. CASE g # h
      BY <1>2, <1>5, <1>6, <2>2, <3>2 DEF CaseInv, WriterInv, FirstPending, store
    <3>3. QED
      BY <3>1, <3>2
  <2>3. Quiet(c)' => Agrees(c)'
    BY <1>5, <1>6, <2>1 DEF CaseInv, Quiet, Agrees, AnalysisOf, store, IndexTypeOK
  <2>4. QED
    BY <1>6, <2>1, <2>2, <2>3 DEF CaseInv, OneWriter
<1>7. ASSUME d \notin Disturbed
      PROVE  CaseInv(d)'
  <2>1. \A g \in Handlers : ~ Holds(g, d)'
    BY <1>1, <1>3, <1>4, <1>7 DEF CaseInv, OneWriter
  <2>2. desc[d] = table[d] /\ pending[h][d] = table[d]
    BY <1>1, <1>4, <1>7 DEF CaseInv, WriterInv, Embedding
  <2>3. Agrees(d)'
    BY <1>5, <2>2 DEF Agrees, AnalysisOf, store, IndexTypeOK
  <2>4. QED
    BY <2>1, <2>3 DEF CaseInv, OneWriter
<1>8. Disturbed' = Disturbed
  BY <1>5 DEF Disturbed
<1>9. QED
  BY <1>6, <1>7, <1>8 DEF CaseInv

\* The steps of a removal, and those that end a handler.
LEMMA RemoveStep ==
    ASSUME IndexTypeOK, HandlerInv, \A c \in Cases : CaseInv(c),
           NEW h \in Handlers, Remove(h) \/ RemoveAnalysis(h)
    PROVE  \A c \in Cases : CaseInv(c)'
<1> USE DEF store, Idle, IndexTypeOK, Embedding, Removing
<1>1. \A g \in Handlers \ {h} :
          at'[g] = at[g] /\ target'[g] = target[g] /\ pending'[g] = pending[g]
  BY DEF Remove, RemoveAnalysis
<1>2. \A g \in Handlers \ {h}, c \in Cases : Holds(g, c)' <=> Holds(g, c)
  BY <1>1 DEF Holds
<1>3. /\ target[h] \in Cases /\ Holds(h, target[h])
      /\ \A c \in Cases : Holds(h, c) => c = target[h]
      /\ \A c \in Cases : Holds(h, c)' => Holds(h, c)
  BY DEF Remove, RemoveAnalysis, Holds, HandlerInv
<1>4. Disturbed' = Disturbed
  BY DEF Remove, RemoveAnalysis, Disturbed
<1>5. ASSUME NEW c \in Cases, c # target[h], c \notin Disturbed
      PROVE  CaseInv(c)'
  <2>1. \A g \in Handlers : Holds(g, c)' <=> Holds(g, c)
    BY <1>2, <1>3, <1>5
  <2>2. desc'[c] = desc[c] /\ anal'[c] = anal[c] /\ table' = table
    BY <1>5 DEF Remove, RemoveAnalysis
  <2>3. \A g \in Handlers : Holds(g, c) => g # h /\ WriterInv(g, c)'
    BY <1>1, <1>3, <1>5, <2>2 DEF CaseInv, WriterInv, FirstPending
  <2>4. Quiet(c)' => Agrees(c)'
    BY <1>5, <2>1, <2>2 DEF CaseInv, Quiet, Agrees, AnalysisOf
  <2>5. QED
    BY <1>5, <2>1, <2>3, <2>4 DEF CaseInv, OneWriter
<1>6. ASSUME NEW c \in Cases, c = target[h], c \notin Disturbed
      PROVE  CaseInv(c)'
  <2>1. table[c] = None /\ table' = table /\ \A g \in Handlers : Holds(g, c)' => g = h
    BY <1>2, <1>3, <1>6 DEF CaseInv, OneWriter, WriterInv, Remove, RemoveAnalysis
  <2>2. CASE Remove(h)
    <3>1. desc'[c] = None /\ Holds(h, c)' /\ at'[h] = "removeAnalysis"
      BY <1>6, <2>2 DEF Remove, Holds
    <3>2. QED
      BY <2>1, <3>1 DEF CaseInv, OneWriter, Quiet, WriterInv
  <2>3. CASE RemoveAnalysis(h)
    <3>1. desc'[c] = None /\ anal'[c] = None /\ ~ Holds(h, c)'
      BY <1>3, <1>6, <2>3 DEF RemoveAnalysis, Holds, CaseInv, WriterInv
    <3>2. Agrees(c)'
      BY <2>1, <3>1, SavesAssumption DEF Agrees, AnalysisOf
    <3>3. QED
      BY <2>1, <3>1, <3>2 DEF CaseInv, OneWriter
  <2>4. QED
    BY <2>2, <2>3
<1>7. QED
  BY <1>4, <1>5, <1>6 DEF CaseInv

\* A failure and a crash leave their cases disturbed, and no other.
LEMMA GiveUpStep ==
    ASSUME IndexTypeOK, \A c \in Cases : CaseInv(c),
           NEW H \in SUBSET Handlers,
           failed' = failed \union {c \in Cases : \E h \in H : Holds(h, c)},
           \A h \in H : at'[h] = "idle",
           \A g \in Handlers \ H :
               at'[g] = at[g] /\ target'[g] = target[g] /\ pending'[g] = pending[g],
           UNCHANGED <<store, index, overlapped>>
    PROVE  \A c \in Cases : CaseInv(c)'
<1> USE DEF store, index
<1>1. \A h \in H, c \in Cases : ~ Holds(h, c)'
  BY DEF Holds, Embedding, Removing
<1>2. \A g \in Handlers \ H, c \in Cases : Holds(g, c)' <=> Holds(g, c)
  BY DEF Holds
<1>3. ASSUME NEW c \in Cases, c \notin Disturbed'
      PROVE  CaseInv(c)'
  <2>1. c \notin Disturbed /\ \A h \in H : ~ Holds(h, c)
    BY <1>3 DEF Disturbed
  <2>2. \A g \in Handlers : Holds(g, c)' <=> Holds(g, c)
    BY <1>1, <1>2, <1>3, <2>1
  <2>3. \A g \in Handlers : Holds(g, c) => WriterInv(g, c)'
    BY <1>3, <2>1 DEF CaseInv, WriterInv, FirstPending
  <2>4. Quiet(c)' => Agrees(c)'
    BY <1>3, <2>1, <2>2 DEF CaseInv, Quiet, Agrees, AnalysisOf
  <2>5. QED
    BY <1>3, <2>1, <2>2, <2>3, <2>4 DEF CaseInv, OneWriter
<1>4. QED
  BY <1>3 DEF CaseInv

LEMMA CaseStep == IndexIInv /\ IndexNext => \A c \in Cases : CaseInv(c)'
<1> SUFFICES ASSUME IndexIInv, IndexNext
             PROVE  \A c \in Cases : CaseInv(c)'
  OBVIOUS
<1>a. IndexTypeOK /\ HandlerInv /\ \A c \in Cases : CaseInv(c)
  BY DEF IndexIInv
<1>1. CASE ServerCrash
  <2>1. \A h \in Handlers : at'[h] = "idle"
    BY <1>1 DEF ServerCrash
  <2>2. QED
    BY <1>a, <1>1, <2>1, GiveUpStep DEF ServerCrash
<1>2. ASSUME NEW h \in Handlers, NEW s \in Saves, Create(h, s)
      PROVE  \A c \in Cases : CaseInv(c)'
  <2> DEFINE S == {nextId}
  <2>1. /\ S \in SUBSET Cases /\ {} \in SUBSET S /\ Begin(S, {})
        /\ at[h] \notin Embedding \union Removing /\ UNCHANGED index
    BY <1>2 DEF Create, Embedding, Removing
  <2>2. \A g \in Handlers \ {h} :
            at'[g] = at[g] /\ target'[g] = target[g] /\ pending'[g] = pending[g]
    BY <1>a, <1>2 DEF Create, IndexTypeOK
  <2>3. \A c \in Cases : Holds(h, c)' <=> c \in S
    BY <1>a, <1>2, SavesAssumption
       DEF Create, Holds, IndexTypeOK, HandlerInv, Nothing, Embedding, Removing
  <2>4. /\ \A c \in Cases \ S : table'[c] = table[c]
        /\ \A c \in S \ {} : at'[h] = "description" /\ pending'[h][c] = table'[c]
    BY <1>a, <1>2 DEF Create, IndexTypeOK
  <2>5. QED
    BY <1>a, <2>1, <2>2, <2>3, <2>4, CommitStep
<1>3. ASSUME NEW h \in Handlers, NEW s \in Saves, Update(h, s)
      PROVE  \A c \in Cases : CaseInv(c)'
  <2> DEFINE S == {target[h]}
             gone == IF table[target[h]] = None THEN S ELSE {}
  <2>1. target[h] \in Cases /\ pending[h] = Nothing /\ at[h] = "update"
    BY <1>a, <1>3 DEF Update, HandlerInv, Embedding
  <2>2. /\ S \in SUBSET Cases /\ gone \in SUBSET S /\ Begin(S, gone)
        /\ at[h] \notin Embedding \union Removing /\ UNCHANGED index
    BY <1>3, <2>1 DEF Update, Embedding, Removing
  <2>3. \A g \in Handlers \ {h} :
            at'[g] = at[g] /\ target'[g] = target[g] /\ pending'[g] = pending[g]
    BY <1>a, <1>3 DEF Update, IndexTypeOK
  <2>4. \A c \in Cases : Holds(h, c)' <=> c \in S
    BY <1>a, <1>3, <2>1, SavesAssumption
       DEF Update, Holds, IndexTypeOK, Nothing, Embedding, Removing
  <2>5. /\ \A c \in Cases \ S : table'[c] = table[c]
        /\ \A c \in S \ gone : at'[h] = "description" /\ pending'[h][c] = table'[c]
    BY <1>a, <1>3, <2>1 DEF Update, IndexTypeOK
  <2>6. QED
    BY <1>a, <2>2, <2>3, <2>4, <2>5, CommitStep
<1>4. ASSUME NEW h \in Handlers, DeleteCase(h)
      PROVE  \A c \in Cases : CaseInv(c)'
  <2> DEFINE S == {target[h]}
  <2>1. target[h] \in Cases /\ at[h] = "delete"
    BY <1>a, <1>4 DEF DeleteCase, HandlerInv
  <2>2. /\ S \in SUBSET Cases /\ {} \in SUBSET S /\ Begin(S, {})
        /\ at[h] \notin Embedding \union Removing /\ UNCHANGED index
    BY <1>4, <2>1 DEF DeleteCase, Embedding, Removing
  <2>3. \A g \in Handlers \ {h} :
            at'[g] = at[g] /\ target'[g] = target[g] /\ pending'[g] = pending[g]
    BY <1>a, <1>4 DEF DeleteCase, IndexTypeOK
  <2>4. \A c \in Cases : Holds(h, c)' <=> c \in S
    BY <1>a, <1>4 DEF DeleteCase, Holds, IndexTypeOK, Embedding, Removing
  <2>5. /\ \A c \in Cases \ S : table'[c] = table[c]
        /\ \A c \in S \ {} : at'[h] = "remove" /\ table'[c] = None
    BY <1>a, <1>4, <2>1 DEF DeleteCase, IndexTypeOK
  <2>6. QED
    BY <1>a, <2>2, <2>3, <2>4, <2>5, CommitStep
<1>5. ASSUME NEW h \in Handlers, Sync(h)
      PROVE  \A c \in Cases : CaseInv(c)'
  <2> DEFINE S == {c \in Cases : table[c] # None}
  <2>1. /\ S \in SUBSET Cases /\ {} \in SUBSET S /\ Begin(S, {})
        /\ at[h] \notin Embedding \union Removing /\ UNCHANGED index
    BY <1>5 DEF Sync, Embedding, Removing
  <2>2. \A g \in Handlers \ {h} :
            at'[g] = at[g] /\ target'[g] = target[g] /\ pending'[g] = pending[g]
    BY <1>a, <1>5 DEF Sync, IndexTypeOK
  <2>3. \A c \in Cases : Holds(h, c)' <=> c \in S
    BY <1>a, <1>5 DEF Sync, Holds, IndexTypeOK, Embedding, Removing
  <2>4. /\ \A c \in Cases \ S : table'[c] = table[c]
        /\ \A c \in S \ {} : at'[h] = "description" /\ pending'[h][c] = table'[c]
    BY <1>a, <1>5 DEF Sync, IndexTypeOK, store
  <2>5. QED
    BY <1>a, <2>1, <2>2, <2>3, <2>4, CommitStep
<1>6. ASSUME NEW h \in Handlers, NEW c \in Cases, EmbedDescription(h, c) \/ EmbedAnalysis(h, c)
      PROVE  \A d \in Cases : CaseInv(d)'
  BY <1>a, <1>6, EmbedDescriptionStep, EmbedAnalysisStep
<1>7. ASSUME NEW h \in Handlers, Remove(h) \/ RemoveAnalysis(h)
      PROVE  \A c \in Cases : CaseInv(c)'
  BY <1>a, <1>7, RemoveStep
<1>8. ASSUME NEW h \in Handlers, Fail(h) \/ RejectUpdate(h)
      PROVE  \A c \in Cases : CaseInv(c)'
  <2> DEFINE H == {h}
  <2>1. /\ H \in SUBSET Handlers
        /\ \A g \in H : at'[g] = "idle"
        /\ \A g \in Handlers \ H :
               at'[g] = at[g] /\ target'[g] = target[g] /\ pending'[g] = pending[g]
    BY <1>a, <1>8 DEF Fail, RejectUpdate, Idle, IndexTypeOK
  <2>2. failed' = failed \union {c \in Cases : \E g \in H : Holds(g, c)}
    BY <1>8 DEF Fail, RejectUpdate, Holds, Embedding, Removing
  <2>3. UNCHANGED <<store, index, overlapped>>
    BY <1>8 DEF Fail, RejectUpdate
  <2> HIDE DEF H
  <2>4. QED
    BY <1>a, <2>1, <2>2, <2>3, GiveUpStep
<1>9. ASSUME NEW h \in Handlers, NEW d \in Cases, NEW next \in {"update", "delete"},
             Check(h, d, next)
      PROVE  \A c \in Cases : CaseInv(c)'
  <2>1. \A g \in Handlers, c \in Cases : Holds(g, c)' <=> Holds(g, c)
    BY <1>a, <1>9 DEF Check, Holds, IndexTypeOK, Embedding, Removing
  <2>2. /\ \A g \in Handlers \ {h} : at'[g] = at[g]
        /\ \A c \in Cases : ~ Holds(h, c)
        /\ UNCHANGED <<store, index, pending, overlapped, failed>>
    BY <1>a, <1>9 DEF Check, Holds, IndexTypeOK, Embedding, Removing
  <2>3. \A c \in Cases, g \in Handlers : Holds(g, c) /\ WriterInv(g, c) => WriterInv(g, c)'
    BY <2>2 DEF WriterInv, FirstPending, store, index
  <2>4. \A c \in Cases : (Quiet(c)' <=> Quiet(c)) /\ (Agrees(c)' <=> Agrees(c))
    BY <2>1, <2>2 DEF Quiet, Agrees, AnalysisOf, store, index
  <2>5. QED
    BY <1>a, <2>1, <2>2, <2>3, <2>4 DEF CaseInv, OneWriter, Disturbed
<1>10. QED
  BY <1>1, <1>2, <1>3, <1>4, <1>5, <1>6, <1>7, <1>8, <1>9 DEF IndexNext, Handle

------------------------------------------------------------------------------
\* The types, the handlers and the writers of every case fit together in every
\* reachable state.
THEOREM IndexInvariantHolds == IndexSpec => []IndexIInv
<1>1. IndexInit => IndexIInv
  BY CasesAssumption, SavesAssumption
     DEF IndexInit, IndexIInv, IndexTypeOK, HandlerInv, CaseInv, OneWriter, Quiet, Holds, Agrees,
         AnalysisOf, Nothing, Embedding, Removing, Cases
<1>2. IndexIInv /\ [IndexNext]_indexVars => IndexIInv'
  <2>1. IndexIInv /\ UNCHANGED indexVars => \A c \in Cases : CaseInv(c)'
    BY DEF IndexIInv, indexVars, store, index, handler, CaseInv, OneWriter, Quiet, Holds, Agrees,
           AnalysisOf, WriterInv, FirstPending, Disturbed
  <2>2. QED
    BY <2>1, TypeStep, HandlerStep, CaseStep DEF IndexIInv
<1>3. QED
  BY <1>1, <1>2, PTL DEF IndexSpec

\* The variables of the knowledge base keep their types.
THEOREM IndexTypeCorrect == IndexSpec => []IndexTypeOK
<1>1. IndexIInv => IndexTypeOK
  BY DEF IndexIInv
<1>2. QED
  BY <1>1, IndexInvariantHolds, PTL

\* However many handlers run, the index of a case that is not being written is
\* its row's, unless writers of this very case overlapped or one of them stopped
\* halfway; the next undisturbed save or sync of the case repairs it.
THEOREM UndisturbedAlwaysAgrees == IndexSpec => []UndisturbedAgrees
<1>1. IndexIInv => UndisturbedAgrees
  BY DEF IndexIInv, CaseInv, UndisturbedAgrees, Disturbed
<1>2. QED
  BY <1>1, IndexInvariantHolds, PTL
=============================================================================
