------------------------------ MODULE TTSRunner -----------------------------
(* AsyncTTSRunner (voice/tts/runner.py): the event loop's thread enqueues,   *)
(* stops and shuts down, a worker thread takes jobs off a bounded queue and  *)
(* speaks them.  Both work on the runner's fields under one lock, but the    *)
(* queue is read and written without it.                                     *)
(*                                                                           *)
(* enqueue, stop and shutdown are called from `async def` handlers only, so  *)
(* they never overlap each other: the loop's thread is one actor.  The time  *)
(* a job has been spoken is unset, recent, or over stuck_threshold_seconds.  *)
EXTENDS Naturals, Sequences

CONSTANTS
  MaxQueue,       \* max_queue_size
  MaxJobs,        \* bound on job ids
  MaxGeneration   \* bound on stops

ASSUME RunnerAssumption ==
  /\ MaxQueue \in Nat /\ MaxQueue > 0
  /\ MaxJobs \in Nat /\ MaxJobs > 0
  /\ MaxGeneration \in Nat

VARIABLES
  loop,          \* what the loop's thread is in, and the job it enqueues
  worker,        \* what the worker thread is in, its job and its success
  queue,         \* queued job ids
  unfinished,    \* the queue's unfinished_tasks, which join() waits for
  nextJob,       \* _next_job_id
  generation,    \* _generation
  jobGeneration, \* TTSJob.generation
  current,       \* _current_job, 0 for None
  interrupted,   \* _interrupted_job_ids
  speaking,      \* _speaking
  runStarted,    \* age of _last_run_and_wait_started_monotonic
  history,       \* _job_history: the status recorded for each job
  shut,          \* _stopped, and with it _stop_event
  succeeded,     \* history: jobs counted in _total_successes
  stopped        \* history: unfinished jobs when stop() was called

vars == << loop, worker, queue, unfinished, nextJob, generation, jobGeneration,
           current, interrupted, speaking, runStarted, history, shut,
           succeeded, stopped >>
\* What the lock protects.
guarded == << generation, jobGeneration, current, interrupted, speaking,
              runStarted, history, succeeded >>

-----------------------------------------------------------------------------
(* Types *)

Jobs == 1 .. MaxJobs
NoJob == 0
Final == { "success", "failed", "interrupted" }
LoopSteps == { "idle", "put", "record", "drain", "silence" }
WorkerSteps == { "absent", "polling", "waiting", "dequeued", "started",
                 "speaking", "spoken", "finished" }

\* The fields hold what they can hold.
TypeOK ==
  /\ loop \in [ step : LoopSteps, job : Jobs \union { NoJob } ]
  /\ worker \in [ step : WorkerSteps, job : Jobs \union { NoJob }, success : BOOLEAN ]
  /\ queue \in Seq(Jobs) /\ Len(queue) <= MaxQueue
  /\ unfinished \in Nat
  /\ nextJob \in 0 .. MaxJobs
  /\ generation \in 0 .. MaxGeneration
  /\ jobGeneration \in [ Jobs -> 0 .. MaxGeneration ]
  /\ current \in Jobs \union { NoJob }
  /\ interrupted \subseteq Jobs
  /\ speaking \in BOOLEAN
  /\ runStarted \in { "unset", "recent", "overdue" }
  /\ history \in [ Jobs -> Final \union { "unknown", "queued", "running" } ]
  /\ shut \in BOOLEAN
  /\ succeeded \subseteq Jobs
  /\ stopped \subseteq Jobs

-----------------------------------------------------------------------------
(* Helpers *)

\* stop() holds the lock while it drains the queue.
LockFree == loop.step # "drain"

maybeStuck == speaking /\ runStarted = "overdue"

\* _update_job_record: a job without a record gets none.
Recorded(j, status) ==
  IF history[j] = "unknown" THEN history ELSE [history EXCEPT ![j] = status]

\* _mark_job_interrupted_locked
MarkInterrupted(j) ==
  /\ interrupted' = interrupted \union { j }
  /\ history' = Recorded(j, "interrupted")

\* The worker's steps between taking a job and its outcome.
InFlight == { "dequeued", "started", "speaking", "spoken" }
Queued == { queue[i] : i \in DOMAIN queue }

-----------------------------------------------------------------------------
(* The loop's thread *)

\* enqueue: neither shut down nor stuck; the worker is started if there is
\* none, and the job gets its id and generation.
Admit ==
  /\ loop.step = "idle"
  /\ ~ shut
  /\ ~ maybeStuck
  /\ nextJob < MaxJobs
  /\ nextJob' = nextJob + 1
  /\ jobGeneration' = [jobGeneration EXCEPT ![nextJob'] = generation]
  /\ loop' = [ step |-> "put", job |-> nextJob' ]
  /\ worker' = IF worker.step = "absent" THEN [worker EXCEPT !.step = "polling"] ELSE worker
  /\ UNCHANGED << queue, unfinished, generation, current, interrupted, speaking,
                  runStarted, history, shut, succeeded, stopped >>

HasRoom == Len(queue) < MaxQueue

\* put_nowait, without the lock; a full queue refuses the job.
Put ==
  /\ loop.step = "put"
  /\ IF HasRoom
     THEN /\ queue' = Append(queue, loop.job)
          /\ unfinished' = unfinished + 1
          /\ loop' = [loop EXCEPT !.step = "record"]
     ELSE /\ loop' = [ step |-> "idle", job |-> NoJob ]
          /\ UNCHANGED << queue, unfinished >>
  /\ UNCHANGED << guarded, worker, nextJob, shut, stopped >>

\* The job's record is written after the put, whatever the worker has done
\* with the job since.
Record ==
  /\ loop.step = "record"
  /\ history' = [history EXCEPT ![loop.job] = "queued"]
  /\ loop' = [ step |-> "idle", job |-> NoJob ]
  /\ UNCHANGED << generation, jobGeneration, current, interrupted, speaking,
                  runStarted, succeeded, worker, queue, unfinished, nextJob,
                  shut, stopped >>

\* stop: a new generation; the current job, if any, is interrupted.  The lock
\* is kept.
StopBegin ==
  /\ loop.step = "idle"
  /\ generation < MaxGeneration
  /\ generation' = generation + 1
  /\ IF current = NoJob THEN UNCHANGED << interrupted, history, speaking, runStarted >>
     ELSE /\ MarkInterrupted(current)
          /\ speaking' = FALSE
          /\ runStarted' = "unset"
  /\ stopped' = stopped \union Queued \union
                (IF worker.step \in InFlight THEN { worker.job } ELSE {})
  /\ loop' = [ step |-> "drain", job |-> NoJob ]
  /\ UNCHANGED << worker, queue, unfinished, nextJob, jobGeneration, current,
                  shut, succeeded >>

\* Bug: a drained job is not reported to the queue.
DrainedTasks_Unreported == unfinished

\* task_done for a drained job.
DrainedTasks == unfinished - 1

\* One queued job after the other is taken off and interrupted.
StopDrain ==
  /\ loop.step = "drain"
  /\ queue # << >>
  /\ MarkInterrupted(Head(queue))
  /\ queue' = Tail(queue)
  /\ unfinished' = DrainedTasks
  /\ UNCHANGED << loop, worker, nextJob, generation, jobGeneration, current,
                  speaking, runStarted, shut, succeeded, stopped >>

\* The queue is empty: the lock is released.
StopRelease ==
  /\ loop.step = "drain"
  /\ queue = << >>
  /\ loop' = [loop EXCEPT !.step = "silence"]
  /\ UNCHANGED << guarded, worker, queue, unfinished, nextJob, shut, stopped >>

\* provider.stop(), after the lock: it cuts short whatever is being spoken by
\* then, and the speech counts as successful; or the driver ignores it.
StopProvider ==
  /\ loop.step = "silence"
  /\ loop' = [loop EXCEPT !.step = "idle"]
  /\ \/ /\ worker.step = "speaking"
        /\ worker' = [worker EXCEPT !.step = "spoken", !.success = TRUE]
     \/ UNCHANGED worker
  /\ UNCHANGED << guarded, queue, unfinished, nextJob, shut, stopped >>

\* shutdown: the worker leaves at the top of its loop.
Shutdown ==
  /\ loop.step = "idle"
  /\ shut' = TRUE
  /\ UNCHANGED << guarded, loop, worker, queue, unfinished, nextJob, stopped >>

-----------------------------------------------------------------------------
(* The worker's thread *)

\* The top of the loop: the worker leaves once the stop event is set.
Poll ==
  /\ worker.step = "polling"
  /\ worker' = [worker EXCEPT !.step = IF shut THEN "absent" ELSE "waiting"]
  /\ UNCHANGED << guarded, loop, queue, unfinished, nextJob, shut, stopped >>

\* queue.get(timeout) finds nothing in time.
GetTimesOut ==
  /\ worker.step = "waiting"
  /\ queue = << >>
  /\ worker' = [worker EXCEPT !.step = "polling"]
  /\ UNCHANGED << guarded, loop, queue, unfinished, nextJob, shut, stopped >>

\* queue.get, without the lock; a worker that waits takes a job even if the
\* runner was shut down meanwhile.
Dequeue ==
  /\ worker.step = "waiting"
  /\ queue # << >>
  /\ queue' = Tail(queue)
  /\ worker' = [ step |-> "dequeued", job |-> Head(queue), success |-> FALSE ]
  /\ UNCHANGED << guarded, loop, unfinished, nextJob, shut, stopped >>

\* _mark_job_started
MarkStarted ==
  /\ worker.step = "dequeued"
  /\ LockFree
  /\ speaking' = TRUE
  /\ current' = worker.job
  /\ runStarted' = "unset"
  /\ history' = Recorded(worker.job, "running")
  /\ worker' = [worker EXCEPT !.step = "started"]
  /\ UNCHANGED << loop, queue, unfinished, nextJob, generation, jobGeneration,
                  interrupted, shut, succeeded, stopped >>

\* The provider reports run_and_wait_started.
RunAndWaitStarted ==
  /\ worker.step = "started"
  /\ LockFree
  /\ runStarted' = "recent"
  /\ worker' = [worker EXCEPT !.step = "speaking"]
  /\ UNCHANGED << loop, queue, unfinished, nextJob, generation, jobGeneration, current,
                  interrupted, speaking, history, shut, succeeded, stopped >>

\* speak returns or raises; on_start, the provider's creation or its
\* initialisation may raise before the event, and an empty text needs none.
Spoken(success) ==
  /\ worker.step \in { "started", "speaking" }
  /\ worker' = [worker EXCEPT !.step = "spoken", !.success = success]
  /\ UNCHANGED << guarded, loop, queue, unfinished, nextJob, shut, stopped >>

\* Bug: only the ids interrupted by name count.
IsInterrupted_ByName(j) == j \in interrupted

IsInterrupted(j) == jobGeneration[j] # generation \/ j \in interrupted

\* Bug: the job stays the current one.
CurrentAfter_Kept(j) == current

CurrentAfter(j) == IF current = j THEN NoJob ELSE current

\* _finish_job: an interrupted job leaves the speaking fields alone.
Finish ==
  LET j == worker.job
  IN  /\ worker.step = "spoken"
      /\ LockFree
      /\ current' = CurrentAfter(j)
      /\ IF IsInterrupted(j)
         THEN /\ MarkInterrupted(j)
              /\ UNCHANGED << speaking, runStarted, succeeded >>
         ELSE /\ speaking' = FALSE
              /\ runStarted' = "unset"
              /\ succeeded' = IF worker.success THEN succeeded \union { j } ELSE succeeded
              /\ history' = Recorded(j, IF worker.success THEN "success" ELSE "failed")
              /\ UNCHANGED interrupted
      /\ worker' = [worker EXCEPT !.step = "finished"]
      /\ UNCHANGED << loop, queue, unfinished, nextJob, generation, jobGeneration,
                      shut, stopped >>

\* Bug: a failed job ends the worker's thread.
AfterJob_FailureLeaves == IF worker.success THEN "polling" ELSE "absent"

\* Whatever became of a job, the loop goes on.
AfterJob == "polling"

\* on_finish returns or raises; task_done in either case.
TaskDone ==
  /\ worker.step = "finished"
  /\ unfinished' = unfinished - 1
  /\ worker' = [ step |-> AfterJob, job |-> NoJob, success |-> FALSE ]
  /\ UNCHANGED << guarded, loop, queue, nextJob, shut, stopped >>

\* stuck_threshold_seconds pass.
TimePasses ==
  /\ runStarted = "recent"
  /\ runStarted' = "overdue"
  /\ UNCHANGED << loop, worker, queue, unfinished, nextJob, generation, jobGeneration,
                  current, interrupted, speaking, history, shut, succeeded, stopped >>

-----------------------------------------------------------------------------
(* Specification *)

Init ==
  /\ loop = [ step |-> "idle", job |-> NoJob ]
  /\ worker = [ step |-> "absent", job |-> NoJob, success |-> FALSE ]
  /\ queue = << >> /\ unfinished = 0 /\ nextJob = 0 /\ generation = 0
  /\ jobGeneration = [ j \in Jobs |-> 0 ]
  /\ current = NoJob /\ interrupted = {} /\ speaking = FALSE /\ runStarted = "unset"
  /\ history = [ j \in Jobs |-> "unknown" ]
  /\ shut = FALSE /\ succeeded = {} /\ stopped = {}

Call == Put \/ Record \/ StopDrain \/ StopRelease \/ StopProvider
Work == \/ Poll \/ GetTimesOut \/ Dequeue \/ MarkStarted \/ RunAndWaitStarted
        \/ \E success \in BOOLEAN : Spoken(success)
        \/ Finish \/ TaskDone

Next == Admit \/ StopBegin \/ Shutdown \/ Call \/ Work \/ TimePasses

Spec == Init /\ [][Next]_vars

\* Both threads are scheduled: a call returns, the worker polls its queue, and
\* the speech of a job ends at some time (which is the audio driver's part).
FairSpec == Spec /\ WF_vars(Call) /\ WF_vars(Work)

-----------------------------------------------------------------------------
(* Properties *)

\* A job that was queued or under way when stop() was called is never counted
\* as a success, in whichever of the worker's steps the stop fell.
StoppedNeverSucceeds == succeeded \intersect stopped = {}

\* wait_until_idle returns exactly when nothing is queued and the worker holds
\* no job, and task_done is never called too often.
IdleMeansDone == unfinished = Len(queue) + (IF worker.job = NoJob THEN 0 ELSE 1)

\* An outcome that was recorded for a job is its last: a later stop() does not
\* turn a spoken job into an interrupted one.
OutcomeIsFinal ==
  [][ \A j \in Jobs : history[j] \in Final => history'[j] = history[j] ]_vars

\* A job that was put in the queue is spoken, fails or is interrupted, unless
\* the runner is shut down.
QueuedJobsEnd ==
  \A j \in Jobs : j \in Queued ~> (shut \/ (j \notin Queued /\ j # worker.job))
=============================================================================
