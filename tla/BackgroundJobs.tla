--------------------------- MODULE BackgroundJobs ---------------------------
(***************************************************************************)
(* BackgroundJobQueue (core/background_job.py): a queue of jobs, a worker  *)
(* task that executes them, and a status per job which the worker and      *)
(* cancel_job() both write.  A stop cancels the worker and awaits it; a    *)
(* start in between sets _running again, so a worker that was cancelled in *)
(* a handler, where the cancellation ends, goes on next to the new one.    *)
(* The store's lock is never contended across an await and adds no step.   *)
(***************************************************************************)
EXTENDS Integers, Sequences, SequencesExt, FiniteSets

CONSTANTS
  Jobs,        \* the jobs of a run
  Handled,     \* those whose type has a handler
  MaxStarts    \* bound of the model: starts, each with a worker of its own

WorkerIds == 1..MaxStarts
NoJob     == "none"

ASSUME BackgroundJobsAssumption ==
  Handled \subseteq Jobs /\ MaxStarts \in Nat /\ NoJob \notin Jobs

VARIABLES
  jobStatus,    \* [Jobs -> status, "new" before it is enqueued]
  jobQueue,     \* _pending
  active,       \* _running
  workerTask,   \* _worker_task, 0 for None
  workers,      \* [WorkerIds -> where the task is]
  executing,    \* [WorkerIds -> its job]
  stopping,     \* the worker a stop() awaits, 0 for none
  settled       \* the jobs whose execution has ended

jobVars == <<jobStatus, jobQueue, active, workerTask, workers, executing, stopping, settled>>

JobInit ==
  /\ jobStatus = [j \in Jobs |-> "new"] /\ jobQueue = <<>>
  /\ active = FALSE /\ workerTask = 0 /\ stopping = 0 /\ settled = {}
  /\ workers = [w \in WorkerIds |-> "none"] /\ executing = [w \in WorkerIds |-> NoJob]

JobTypeOK ==
  /\ jobStatus \in [Jobs -> {"new", "pending", "running", "completed", "failed", "cancelled"}]
  /\ Range(jobQueue) \subseteq Jobs /\ active \in BOOLEAN
  /\ {workerTask, stopping} \subseteq WorkerIds \cup {0}
  /\ workers \in [WorkerIds -> {"none", "top", "waiting", "handler", "over"}]
  /\ executing \in [WorkerIds -> Jobs \cup {NoJob}] /\ settled \subseteq Jobs
-----------------------------------------------------------------------------
EnqueueJob(j) ==
  /\ jobStatus[j] = "new"
  /\ jobStatus' = [jobStatus EXCEPT ![j] = "pending"] /\ jobQueue' = Append(jobQueue, j)
  /\ UNCHANGED <<active, workerTask, workers, executing, stopping, settled>>

\* The job stays in the queue, or in its handler.
CancelJob(j) ==
  /\ jobStatus[j] \in {"pending", "running"}
  /\ jobStatus' = [jobStatus EXCEPT ![j] = "cancelled"]
  /\ UNCHANGED <<jobQueue, active, workerTask, workers, executing, stopping, settled>>

StartWorker ==
  /\ ~active
  /\ \E w \in WorkerIds :
       /\ workers[w] = "none" /\ \A v \in 1..(w - 1) : workers[v] # "none"
       /\ workers' = [workers EXCEPT ![w] = "top"] /\ workerTask' = w
  /\ active' = TRUE
  /\ UNCHANGED <<jobStatus, jobQueue, executing, stopping, settled>>

\* The top of the loop, and the get() that timed out.
LookAtRunning(w) ==
  /\ workers[w] \in {"top", "waiting"}
  /\ workers' = [workers EXCEPT ![w] = IF active THEN "waiting" ELSE "over"]
  /\ workers[w] = "waiting" => ~active
  /\ UNCHANGED <<jobStatus, jobQueue, active, workerTask, executing, stopping, settled>>

Finish(w, status) ==
  /\ jobStatus' = [jobStatus EXCEPT ![executing[w]] = status]
  /\ settled' = settled \cup {executing[w]}
  /\ executing' = [executing EXCEPT ![w] = NoJob]
  /\ workers' = [workers EXCEPT ![w] = "top"]

\* get() and the part of _execute_job before the handler runs.
TakeJob(w) ==
  /\ workers[w] = "waiting" /\ jobQueue # <<>>
  /\ LET j == Head(jobQueue) IN
     IF j \in Handled
       THEN /\ jobStatus' = [jobStatus EXCEPT ![j] = "running"]
            /\ executing' = [executing EXCEPT ![w] = j]
            /\ workers' = [workers EXCEPT ![w] = "handler"]
            /\ UNCHANGED settled
       ELSE /\ jobStatus' = [jobStatus EXCEPT ![j] = "failed"]
            /\ settled' = settled \cup {j}
            /\ workers' = [workers EXCEPT ![w] = "top"]
            /\ UNCHANGED executing
  /\ jobQueue' = Tail(jobQueue)
  /\ UNCHANGED <<active, workerTask, stopping>>

HandlerEnds(w) ==
  /\ workers[w] = "handler"
  /\ \E status \in {"completed", "failed"} : Finish(w, status)
  /\ UNCHANGED <<jobQueue, active, workerTask, stopping>>

\* Mutant of StopWorker: a job that was interrupted is queued again.
StopAndRequeue ==
  /\ stopping = 0
  /\ active' = FALSE /\ stopping' = workerTask
  /\ IF workerTask # 0 /\ workers[workerTask] = "handler"
       THEN /\ Finish(workerTask, "cancelled")
            /\ jobQueue' = Append(jobQueue, executing[workerTask])
       ELSE /\ workers' = [w \in WorkerIds |->
                 IF w = workerTask /\ workers[w] \in {"top", "waiting"} THEN "over" ELSE workers[w]]
            /\ UNCHANGED <<jobStatus, settled, executing, jobQueue>>
  /\ UNCHANGED <<workerTask>>

\* stop() up to its await: the cancellation ends a worker that waits; in a
\* handler it ends the job only, and the worker looks at _running again.
StopWorker ==
  /\ stopping = 0
  /\ active' = FALSE /\ stopping' = workerTask
  /\ IF workerTask # 0 /\ workers[workerTask] = "handler"
       THEN Finish(workerTask, "cancelled")
       ELSE /\ workers' = [w \in WorkerIds |->
                 IF w = workerTask /\ workers[w] \in {"top", "waiting"} THEN "over" ELSE workers[w]]
            /\ UNCHANGED <<jobStatus, settled, executing>>
  /\ UNCHANGED <<jobQueue, workerTask>>

\* The rest of stop(), which clears _worker_task whoever set it meanwhile.
StopReturns ==
  /\ stopping # 0 /\ workers[stopping] = "over"
  /\ workerTask' = 0 /\ stopping' = 0
  /\ UNCHANGED <<jobStatus, jobQueue, active, workers, executing, settled>>

JobNext ==
  \/ \E j \in Jobs : EnqueueJob(j) \/ CancelJob(j)
  \/ StartWorker \/ StopWorker \/ StopReturns
  \/ \E w \in WorkerIds : LookAtRunning(w) \/ TakeJob(w) \/ HandlerEnds(w)

JobSpec == JobInit /\ [][JobNext]_jobVars
-----------------------------------------------------------------------------
(***************************************************************************)
(* Every job that was enqueued is in exactly one place: in the queue, with *)
(* one worker, or settled; and what is settled has a final status.  Starts *)
(* and stops may overlap, and two workers with them, and jobs may be       *)
(* cancelled at any time.                                                  *)
(***************************************************************************)
JobsSettleOnce ==
  \A j \in Jobs :
    LET places == Cardinality({k \in DOMAIN jobQueue : jobQueue[k] = j})
                    + Cardinality({w \in WorkerIds : executing[w] = j})
                    + (IF j \in settled THEN 1 ELSE 0)
    IN /\ places = (IF jobStatus[j] = "new" THEN 0 ELSE 1)
       /\ j \in settled => jobStatus[j] \in {"completed", "failed", "cancelled"}
=============================================================================
