--------------------------- MODULE TTSRunnerProofs --------------------------
(* The safety of AsyncTTSRunner for every queue size and any number of jobs   *)
(* and stops.                                                                *)
EXTENDS TTSRunner, TLAPS

\* Ids are handed out in order, and queue, worker and history keep that order.
IdsInOrder ==
  /\ worker.job <= nextJob
  /\ \A i \in 1 .. Len(queue) : worker.job < queue[i] /\ queue[i] <= nextJob
  /\ \A i, k \in 1 .. Len(queue) : i < k => queue[i] < queue[k]
  /\ loop.step \in { "put", "record" } => loop.job = nextJob /\ loop.job # NoJob
  /\ loop.step = "put" =>
       /\ worker.job < nextJob
       /\ \A i \in 1 .. Len(queue) : queue[i] < nextJob

\* A job that succeeded has left the queue and the worker's hands.
SucceededAreDone ==
  \A j \in succeeded :
    /\ j <= nextJob
    /\ loop.step = "put" => j < nextJob
    /\ \A i \in 1 .. Len(queue) : j < queue[i]
    /\ worker.step \in InFlight => j # worker.job

\* A generation is that of a job's admission; the stopped ones are older.
StoppedAreOlder ==
  /\ \A j \in Jobs : j <= nextJob => jobGeneration[j] <= generation
  /\ \A j \in stopped : j <= nextJob /\ jobGeneration[j] < generation

\* The worker holds a job exactly between get and task_done.
WorkerHolds ==
  (worker.job = NoJob) <=> worker.step \in { "absent", "polling", "waiting" }

RunnerInv ==
  /\ TypeOK
  /\ IdleMeansDone
  /\ StoppedNeverSucceeds
  /\ WorkerHolds
  /\ IdsInOrder
  /\ SucceededAreDone
  /\ StoppedAreOlder

-----------------------------------------------------------------------------
(* Sequences *)

LEMMA AppendFacts ==
  ASSUME NEW S, NEW s \in Seq(S), NEW e \in S
  PROVE  /\ Append(s, e) \in Seq(S)
         /\ Len(Append(s, e)) = Len(s) + 1
         /\ \A i \in 1 .. Len(s) : Append(s, e)[i] = s[i]
         /\ Append(s, e)[Len(s) + 1] = e
  OBVIOUS

LEMMA TailFacts ==
  ASSUME NEW S, NEW s \in Seq(S), s # << >>
  PROVE  /\ Tail(s) \in Seq(S)
         /\ Len(s) \in Nat \ {0}
         /\ Len(Tail(s)) = Len(s) - 1
         /\ Head(s) = s[1] /\ s[1] \in S
         /\ \A i \in 1 .. Len(s) - 1 : Tail(s)[i] = s[i + 1]
  OBVIOUS

-----------------------------------------------------------------------------
(* The invariant *)

\* The range of a record's fields is a set of its own.
Threads == [ step : LoopSteps, job : Jobs \union { NoJob } ]
Hands == [ step : WorkerSteps, job : Jobs \union { NoJob }, success : BOOLEAN ]
Statuses == Final \union { "unknown", "queued", "running" }

LEMMA RunnerInit == Init => RunnerInv
<1> SUFFICES ASSUME Init PROVE RunnerInv
  OBVIOUS
<1> USE RunnerAssumption
<1>1. queue \in Seq(Jobs) /\ Len(queue) = 0
  BY DEF Init
<1>2. TypeOK
  <2>1. loop \in Threads
    BY DEF Init, Threads, LoopSteps
  <2>2. worker \in Hands
    BY DEF Init, Hands, WorkerSteps
  <2>3. jobGeneration \in [ Jobs -> 0 .. MaxGeneration ]
    BY DEF Init
  <2>4. history \in [ Jobs -> Statuses ]
    BY DEF Init, Statuses
  <2>5. /\ Len(queue) <= MaxQueue /\ unfinished \in Nat
        /\ nextJob \in 0 .. MaxJobs /\ generation \in 0 .. MaxGeneration
    BY <1>1 DEF Init
  <2>6. /\ current \in Jobs \union { NoJob } /\ interrupted \subseteq Jobs
        /\ succeeded \subseteq Jobs /\ stopped \subseteq Jobs
    BY DEF Init
  <2>7. /\ speaking \in BOOLEAN /\ shut \in BOOLEAN
        /\ runStarted \in { "unset", "recent", "overdue" }
    BY DEF Init
  <2> QED
    BY <1>1, <2>1, <2>2, <2>3, <2>4, <2>5, <2>6, <2>7 DEF TypeOK, Threads, Hands, Statuses
<1>3. IdleMeansDone /\ StoppedNeverSucceeds /\ WorkerHolds
  BY <1>1 DEF IdleMeansDone, StoppedNeverSucceeds, WorkerHolds, Init
<1>4. IdsInOrder /\ SucceededAreDone /\ StoppedAreOlder
  BY <1>1 DEF IdsInOrder, SucceededAreDone, StoppedAreOlder, Init, NoJob
<1> QED
  BY <1>2, <1>3, <1>4 DEF RunnerInv

LEMMA TypeStep == RunnerInv /\ [Next]_vars => TypeOK'
<1> SUFFICES ASSUME RunnerInv, [Next]_vars
             PROVE  TypeOK'
  OBVIOUS
<1> USE RunnerAssumption DEF RunnerInv, guarded
<1>1. CASE Admit
  <2> USE <1>1 DEF Admit
  <2>1. nextJob' \in Jobs /\ nextJob' \in 0 .. MaxJobs
    BY DEF TypeOK, Jobs
  <2>2. loop' \in Threads
    BY <2>1 DEF Threads, LoopSteps
  <2>3. worker' \in Hands
    BY DEF TypeOK, Hands, WorkerSteps
  <2>4. jobGeneration' \in [ Jobs -> 0 .. MaxGeneration ]
    BY <2>1 DEF TypeOK
  <2> QED
    BY <2>1, <2>2, <2>3, <2>4 DEF TypeOK, Threads, Hands
<1>2. CASE Put
  <2> USE <1>2 DEF Put
  <2>1. loop.job \in Jobs
    BY DEF TypeOK, IdsInOrder
  <2>2. CASE HasRoom
    <3>1. queue' = Append(queue, loop.job) /\ unfinished' = unfinished + 1
      BY <2>2
    <3>2. queue' \in Seq(Jobs) /\ Len(queue') = Len(queue) + 1
      BY <2>1, <3>1, AppendFacts DEF TypeOK
    <3>3. Len(queue') <= MaxQueue /\ unfinished' \in Nat
      BY <2>2, <3>1, <3>2 DEF TypeOK, HasRoom
    <3>4. loop' \in Threads
      BY <2>2 DEF TypeOK, Threads, LoopSteps
    <3> QED
      BY <3>2, <3>3, <3>4 DEF TypeOK, Threads
  <2>3. CASE ~ HasRoom
    <3>1. loop' \in Threads
      BY <2>3 DEF Threads, LoopSteps
    <3> QED
      BY <2>3, <3>1 DEF TypeOK, Threads
  <2> QED
    BY <2>2, <2>3
<1>3. CASE Record
  <2> USE <1>3 DEF Record
  <2>1. loop' \in Threads
    BY DEF Threads, LoopSteps
  <2>2. history' \in [ Jobs -> Statuses ]
    BY DEF TypeOK, Statuses
  <2> QED
    BY <2>1, <2>2 DEF TypeOK, Threads, Statuses
<1>4. CASE StopBegin
  <2> USE <1>4 DEF StopBegin
  <2>1. generation' \in 0 .. MaxGeneration
    BY DEF TypeOK
  <2>2. interrupted' \subseteq Jobs
    BY DEF TypeOK, MarkInterrupted
  <2>3. history' \in [ Jobs -> Statuses ]
    BY DEF TypeOK, MarkInterrupted, Recorded, Statuses, Final
  <2>4. stopped' \subseteq Jobs
    BY DEF TypeOK, Queued, WorkerHolds, InFlight
  <2>5. loop' \in Threads
    BY DEF Threads, LoopSteps
  <2>6. speaking' \in BOOLEAN /\ runStarted' \in { "unset", "recent", "overdue" }
    BY DEF TypeOK
  <2> QED
    BY <2>1, <2>2, <2>3, <2>4, <2>5, <2>6 DEF TypeOK, Threads, Statuses
<1>5. CASE StopDrain
  <2> USE <1>5 DEF StopDrain
  <2>1. /\ queue' \in Seq(Jobs) /\ Len(queue') <= MaxQueue
        /\ Len(queue) \in Nat \ {0} /\ Head(queue) \in Jobs
    BY TailFacts DEF TypeOK
  <2>2. unfinished' \in Nat
    BY <2>1 DEF TypeOK, DrainedTasks, IdleMeansDone
  <2>3. interrupted' \subseteq Jobs
    BY <2>1 DEF TypeOK, MarkInterrupted
  <2>4. history' \in [ Jobs -> Statuses ]
    BY <2>1 DEF TypeOK, MarkInterrupted, Recorded, Statuses, Final
  <2> QED
    BY <2>1, <2>2, <2>3, <2>4 DEF TypeOK, Statuses
<1>6. CASE StopRelease
  BY <1>6 DEF StopRelease, TypeOK, LoopSteps
<1>7. CASE StopProvider
  BY <1>7 DEF StopProvider, TypeOK, LoopSteps, WorkerSteps
<1>8. CASE Shutdown
  BY <1>8 DEF Shutdown, TypeOK
<1>9. CASE Poll
  BY <1>9 DEF Poll, TypeOK, WorkerSteps
<1>10. CASE GetTimesOut
  BY <1>10 DEF GetTimesOut, TypeOK, WorkerSteps
<1>11. CASE Dequeue
  <2> USE <1>11 DEF Dequeue
  <2>1. /\ queue' \in Seq(Jobs) /\ Len(queue') <= MaxQueue /\ Head(queue) \in Jobs
    BY TailFacts DEF TypeOK
  <2>2. worker' \in Hands
    BY <2>1 DEF Hands, WorkerSteps
  <2> QED
    BY <2>1, <2>2 DEF TypeOK, Hands
<1>12. CASE MarkStarted
  BY <1>12 DEF MarkStarted, Recorded, TypeOK, WorkerSteps
<1>13. CASE RunAndWaitStarted
  BY <1>13 DEF RunAndWaitStarted, TypeOK, WorkerSteps
<1>14. ASSUME NEW success \in BOOLEAN, Spoken(success) PROVE TypeOK'
  BY <1>14 DEF Spoken, TypeOK, WorkerSteps
<1>15. CASE Finish
  <2> USE <1>15 DEF Finish
  <2>1. worker.job \in Jobs
    BY DEF TypeOK, WorkerHolds
  <2>2. current' \in Jobs \union { NoJob }
    BY DEF TypeOK, CurrentAfter
  <2>3. interrupted' \subseteq Jobs /\ succeeded' \subseteq Jobs
    BY <2>1 DEF TypeOK, MarkInterrupted
  <2>4. history' \in [ Jobs -> Statuses ]
    BY <2>1 DEF TypeOK, MarkInterrupted, Recorded, Statuses, Final
  <2>5. speaking' \in BOOLEAN /\ runStarted' \in { "unset", "recent", "overdue" }
    BY DEF TypeOK
  <2>6. worker' \in Hands
    BY DEF TypeOK, Hands, WorkerSteps
  <2> QED
    BY <2>2, <2>3, <2>4, <2>5, <2>6 DEF TypeOK, Hands, Statuses
<1>16. CASE TaskDone
  <2> USE <1>16 DEF TaskDone
  <2>1. unfinished' \in Nat
    BY DEF TypeOK, WorkerHolds, IdleMeansDone
  <2>2. worker' \in Hands
    BY DEF Hands, WorkerSteps, AfterJob
  <2> QED
    BY <2>1, <2>2 DEF TypeOK, Hands
<1>17. CASE TimePasses
  BY <1>17 DEF TimePasses, TypeOK
<1>18. CASE UNCHANGED vars
  BY <1>18 DEF vars, TypeOK
<1> QED
  BY <1>1, <1>2, <1>3, <1>4, <1>5, <1>6, <1>7, <1>8, <1>9, <1>10, <1>11, <1>12,
     <1>13, <1>14, <1>15, <1>16, <1>17, <1>18 DEF Next, Call, Work

\* Ids and generations are numbers.
LEMMA JobNumbers ==
  ASSUME TypeOK
  PROVE  /\ Jobs \subseteq Nat \ {0} /\ nextJob \in Nat /\ generation \in Nat
         /\ worker.job \in Nat /\ Len(queue) \in Nat
         /\ \A i \in 1 .. Len(queue) : queue[i] \in Jobs
         /\ \A j \in Jobs : jobGeneration[j] \in Nat
  BY RunnerAssumption DEF TypeOK, Jobs, NoJob

LEMMA RunnerStep == RunnerInv /\ [Next]_vars => RunnerInv'
<1> SUFFICES ASSUME RunnerInv, [Next]_vars
             PROVE  RunnerInv'
  OBVIOUS
<1> DEFINE Rest == IdleMeansDone /\ StoppedNeverSucceeds /\ WorkerHolds /\ IdsInOrder
                   /\ SucceededAreDone /\ StoppedAreOlder
<1>0. TypeOK'
  BY TypeStep
<1>1. TypeOK /\ Rest
  BY DEF RunnerInv
<1>2. /\ Jobs \subseteq Nat \ {0} /\ nextJob \in Nat /\ generation \in Nat
      /\ worker.job \in Nat /\ Len(queue) \in Nat
      /\ \A i \in 1 .. Len(queue) : queue[i] \in Jobs
      /\ \A j \in Jobs : jobGeneration[j] \in Nat
  BY <1>1, JobNumbers
<1> USE DEF guarded, NoJob, InFlight
<1>3. CASE Admit
  <2>1. /\ nextJob' = nextJob + 1 /\ nextJob' \in Jobs
        /\ loop'.step = "put" /\ loop'.job = nextJob'
        /\ UNCHANGED << queue, unfinished, generation, succeeded, stopped >>
    BY <1>0, <1>1, <1>2, <1>3 DEF Admit, TypeOK, Jobs
  <2>2. /\ worker'.job = worker.job
        /\ worker'.step = worker.step \/ (worker.step = "absent" /\ worker'.step = "polling")
    BY <1>1, <1>3 DEF Admit, TypeOK
  <2>3. /\ jobGeneration'[nextJob'] = generation
        /\ \A j \in Jobs : j # nextJob' => jobGeneration'[j] = jobGeneration[j]
    BY <1>1, <1>3, <2>1 DEF Admit, TypeOK
  <2>4. IdleMeansDone' /\ StoppedNeverSucceeds'
    BY <1>1, <2>1, <2>2 DEF IdleMeansDone, StoppedNeverSucceeds
  <2>5. WorkerHolds'
    BY <1>1, <2>2 DEF WorkerHolds
  <2>6. IdsInOrder'
    <3>1. worker'.job <= nextJob'
      BY <1>1, <1>2, <2>1, <2>2 DEF IdsInOrder
    <3>2. ASSUME NEW i \in 1 .. Len(queue')
          PROVE  worker'.job < queue'[i] /\ queue'[i] < nextJob'
      <4>1. i \in 1 .. Len(queue) /\ queue'[i] = queue[i] /\ queue[i] \in Nat
        BY <1>2, <2>1
      <4>2. worker.job < queue[i] /\ queue[i] <= nextJob
        BY <1>1, <4>1 DEF IdsInOrder
      <4> QED
        BY <1>2, <2>1, <2>2, <4>1, <4>2
    <3>3. \A i, k \in 1 .. Len(queue') : i < k => queue'[i] < queue'[k]
      BY <1>1, <1>2, <2>1, <2>2 DEF IdsInOrder
    <3>4. ASSUME NEW i \in 1 .. Len(queue')
          PROVE  queue'[i] <= nextJob'
      <4>1. queue'[i] \in Nat /\ nextJob' \in Nat
        BY <1>2, <2>1
      <4>2. queue'[i] < nextJob'
        BY <3>2
      <4> QED
        BY <4>1, <4>2
    <3>5. loop'.job = nextJob' /\ loop'.job # NoJob /\ worker'.job < nextJob'
      BY <1>1, <1>2, <2>1, <2>2 DEF IdsInOrder
    <3> QED
      BY <3>1, <3>2, <3>3, <3>4, <3>5 DEF IdsInOrder
  <2>7. SucceededAreDone'
    BY <1>1, <1>2, <2>1, <2>2 DEF SucceededAreDone, TypeOK
  <2>8. StoppedAreOlder'
    BY <1>1, <1>2, <2>1, <2>3 DEF StoppedAreOlder, TypeOK
  <2> QED
    BY <1>0, <2>4, <2>5, <2>6, <2>7, <2>8 DEF RunnerInv
<1>4. CASE Put
  <2>1. loop.step = "put" /\ loop.job = nextJob /\ loop.job \in Jobs
    BY <1>1, <1>4 DEF Put, IdsInOrder, TypeOK
  <2>2. UNCHANGED << worker, nextJob, stopped, succeeded, generation, jobGeneration >>
    BY <1>4 DEF Put
  <2>3. WorkerHolds' /\ StoppedNeverSucceeds' /\ StoppedAreOlder'
    BY <1>1, <2>2 DEF WorkerHolds, StoppedNeverSucceeds, StoppedAreOlder
  <2>4. CASE HasRoom
    <3>1. /\ Len(queue') = Len(queue) + 1
          /\ \A i \in 1 .. Len(queue) : queue'[i] = queue[i]
          /\ queue'[Len(queue) + 1] = nextJob
      BY <1>1, <1>4, <2>1, <2>4, AppendFacts DEF Put, TypeOK
    <3>2. loop'.step = "record" /\ loop'.job = loop.job /\ unfinished' = unfinished + 1
      BY <1>1, <1>4, <2>4 DEF Put, TypeOK
    <3>3. IdleMeansDone'
      BY <1>1, <1>2, <2>2, <3>1, <3>2 DEF IdleMeansDone, TypeOK
    <3>4. IdsInOrder'
      BY <1>1, <1>2, <2>1, <2>2, <3>1, <3>2 DEF IdsInOrder
    <3>5. \A j \in succeeded : \A i \in 1 .. Len(queue') : j < queue'[i]
      <4> SUFFICES ASSUME NEW j \in succeeded, NEW i \in 1 .. Len(queue')
                   PROVE  j < queue'[i]
        OBVIOUS
      <4>1. i \in 1 .. Len(queue) \/ i = Len(queue) + 1
        BY <1>2, <3>1
      <4> QED
        BY <1>1, <2>1, <3>1, <4>1 DEF SucceededAreDone
    <3>6. SucceededAreDone'
      BY <1>1, <2>2, <3>2, <3>5 DEF SucceededAreDone
    <3> QED
      BY <1>0, <2>3, <3>3, <3>4, <3>6 DEF RunnerInv
  <2>5. CASE ~ HasRoom
    <3>1. loop'.step = "idle" /\ UNCHANGED << queue, unfinished >>
      BY <1>4, <2>5 DEF Put
    <3>2. IdleMeansDone' /\ IdsInOrder' /\ SucceededAreDone'
      BY <1>1, <2>2, <3>1 DEF IdleMeansDone, IdsInOrder, SucceededAreDone
    <3> QED
      BY <1>0, <2>3, <3>2 DEF RunnerInv
  <2> QED
    BY <2>4, <2>5
<1>5. CASE StopBegin
  <2>1. /\ generation' = generation + 1
        /\ UNCHANGED << worker, queue, unfinished, nextJob, jobGeneration, succeeded >>
        /\ loop'.step = "drain"
    BY <1>5 DEF StopBegin
  <2>2. \A j \in stopped' : \/ j \in stopped
                            \/ \E i \in 1 .. Len(queue) : j = queue[i]
                            \/ worker.step \in InFlight /\ j = worker.job
    BY <1>1, <1>5 DEF StopBegin, Queued, TypeOK
  <2>3. worker.step \in InFlight => worker.job \in Jobs
    BY <1>1 DEF WorkerHolds, TypeOK
  <2>4. \A j \in stopped' : j \notin succeeded
    <3> SUFFICES ASSUME NEW j \in stopped', j \in succeeded
                 PROVE  FALSE
      OBVIOUS
    <3>1. CASE j \in stopped
      BY <1>1, <3>1 DEF StoppedNeverSucceeds
    <3>2. CASE \E i \in 1 .. Len(queue) : j = queue[i]
      <4>1. PICK i \in 1 .. Len(queue) : j = queue[i]
        BY <3>2
      <4>2. j < queue[i] /\ j \in Nat
        BY <1>1, <1>2, <4>1 DEF SucceededAreDone
      <4> QED
        BY <4>1, <4>2
    <3>3. CASE worker.step \in InFlight /\ j = worker.job
      BY <1>1, <3>3 DEF SucceededAreDone
    <3> QED
      BY <2>2, <3>1, <3>2, <3>3
  <2>5. \A j \in stopped' : j \in Jobs /\ j <= nextJob
    <3> SUFFICES ASSUME NEW j \in stopped'
                 PROVE  j \in Jobs /\ j <= nextJob
      OBVIOUS
    <3>1. CASE j \in stopped
      BY <1>1, <3>1 DEF StoppedAreOlder, TypeOK
    <3>2. CASE \E i \in 1 .. Len(queue) : j = queue[i]
      BY <1>1, <1>2, <3>2 DEF IdsInOrder
    <3>3. CASE worker.step \in InFlight /\ j = worker.job
      BY <1>1, <2>3, <3>3 DEF IdsInOrder
    <3> QED
      BY <2>2, <3>1, <3>2, <3>3
  <2>6. StoppedAreOlder'
    <3>1. ASSUME NEW j \in Jobs, j <= nextJob
          PROVE  jobGeneration[j] <= generation /\ jobGeneration[j] \in Nat
      BY <1>1, <1>2, <3>1 DEF StoppedAreOlder
    <3>2. \A j \in Jobs : j <= nextJob' => jobGeneration'[j] <= generation'
      BY <1>2, <2>1, <3>1
    <3>3. ASSUME NEW j \in stopped'
          PROVE  j <= nextJob' /\ jobGeneration'[j] < generation'
      <4>1. j \in Jobs /\ j <= nextJob
        BY <2>5
      <4>2. jobGeneration[j] <= generation /\ jobGeneration[j] \in Nat
        BY <3>1, <4>1
      <4> QED
        BY <1>2, <2>1, <4>1, <4>2
    <3> QED
      BY <3>2, <3>3 DEF StoppedAreOlder
  <2>7. StoppedNeverSucceeds'
    BY <2>1, <2>4 DEF StoppedNeverSucceeds
  <2>8. IdleMeansDone' /\ WorkerHolds' /\ IdsInOrder' /\ SucceededAreDone'
    BY <1>1, <2>1 DEF IdleMeansDone, WorkerHolds, IdsInOrder, SucceededAreDone
  <2> QED
    BY <1>0, <2>6, <2>7, <2>8 DEF RunnerInv
<1>6. CASE StopDrain
  <2>1. /\ Len(queue) \in Nat \ {0} /\ Len(queue') = Len(queue) - 1
        /\ \A i \in 1 .. Len(queue) - 1 : queue'[i] = queue[i + 1]
    BY <1>1, <1>6, TailFacts DEF StopDrain, TypeOK
  <2>2. /\ unfinished' = unfinished - 1
        /\ UNCHANGED << loop, worker, nextJob, generation, jobGeneration, succeeded, stopped >>
    BY <1>6 DEF StopDrain, DrainedTasks
  <2>3. IdleMeansDone'
    BY <1>1, <1>2, <2>1, <2>2 DEF IdleMeansDone, TypeOK
  <2>4. IdsInOrder'
    <3>1. worker'.job <= nextJob'
      BY <1>1, <1>2, <2>1, <2>2 DEF IdsInOrder
    <3>2. \A i \in 1 .. Len(queue') : worker'.job < queue'[i] /\ queue'[i] <= nextJob'
      BY <1>1, <1>2, <2>1, <2>2 DEF IdsInOrder
    <3>3. \A i, k \in 1 .. Len(queue') : i < k => queue'[i] < queue'[k]
      BY <1>1, <1>2, <2>1, <2>2 DEF IdsInOrder
    <3>4. loop'.step \in { "put", "record" } => loop'.job = nextJob' /\ loop'.job # NoJob
      BY <1>1, <1>2, <2>1, <2>2 DEF IdsInOrder
    <3>5. loop'.step = "put" =>
            worker'.job < nextJob' /\ \A i \in 1 .. Len(queue') : queue'[i] < nextJob'
      BY <1>1, <1>2, <2>1, <2>2 DEF IdsInOrder
    <3> QED
      BY <3>1, <3>2, <3>3, <3>4, <3>5 DEF IdsInOrder
  <2>5. SucceededAreDone'
    BY <1>1, <1>2, <2>1, <2>2 DEF SucceededAreDone
  <2>6. StoppedNeverSucceeds' /\ WorkerHolds' /\ StoppedAreOlder'
    BY <1>1, <2>2 DEF StoppedNeverSucceeds, WorkerHolds, StoppedAreOlder
  <2> QED
    BY <1>0, <2>3, <2>4, <2>5, <2>6 DEF RunnerInv
<1>7. CASE Dequeue
  <2>1. /\ Len(queue) \in Nat \ {0} /\ Len(queue') = Len(queue) - 1
        /\ \A i \in 1 .. Len(queue) - 1 : queue'[i] = queue[i + 1]
        /\ Head(queue) = queue[1]
    BY <1>1, <1>7, TailFacts DEF Dequeue, TypeOK
  <2>2. /\ worker.step = "waiting" /\ worker'.step = "dequeued" /\ worker'.job = queue[1]
        /\ UNCHANGED << loop, unfinished, nextJob, generation, jobGeneration, succeeded, stopped >>
    BY <1>7, <2>1 DEF Dequeue
  <2>3. IdleMeansDone'
    BY <1>1, <1>2, <2>1, <2>2 DEF IdleMeansDone, WorkerHolds, TypeOK
  <2>4. IdsInOrder'
    <3>1. /\ worker'.job <= nextJob
          /\ \A i \in 1 .. Len(queue') : worker'.job < queue'[i] /\ queue'[i] <= nextJob
      BY <1>1, <1>2, <2>1, <2>2 DEF IdsInOrder
    <3>2. \A i, k \in 1 .. Len(queue') : i < k => queue'[i] < queue'[k]
      BY <1>1, <1>2, <2>1, <2>2 DEF IdsInOrder
    <3>3. loop.step = "put" =>
            worker'.job < nextJob /\ \A i \in 1 .. Len(queue') : queue'[i] < nextJob
      BY <1>1, <1>2, <2>1, <2>2 DEF IdsInOrder
    <3> QED
      BY <1>1, <2>2, <3>1, <3>2, <3>3 DEF IdsInOrder
  <2>5. SucceededAreDone'
    <3> SUFFICES ASSUME NEW j \in succeeded
                 PROVE  /\ j <= nextJob
                        /\ loop.step = "put" => j < nextJob
                        /\ \A i \in 1 .. Len(queue') : j < queue'[i]
                        /\ j # queue[1]
      BY <2>2 DEF SucceededAreDone
    <3>1. j < queue[1] /\ j \in Nat
      BY <1>1, <1>2, <2>1 DEF SucceededAreDone, TypeOK
    <3>2. \A i \in 1 .. Len(queue') : j < queue'[i]
      BY <1>1, <1>2, <2>1 DEF SucceededAreDone
    <3> QED
      BY <1>1, <1>2, <2>1, <3>1, <3>2 DEF SucceededAreDone
  <2>6. WorkerHolds'
    BY <1>1, <1>2, <2>1, <2>2 DEF WorkerHolds
  <2>7. StoppedNeverSucceeds' /\ StoppedAreOlder'
    BY <1>1, <2>2 DEF StoppedNeverSucceeds, StoppedAreOlder
  <2> QED
    BY <1>0, <2>3, <2>4, <2>5, <2>6, <2>7 DEF RunnerInv
<1>8. CASE Finish
  <2>1. /\ worker.step = "spoken" /\ worker.job \in Jobs
        /\ worker'.step = "finished" /\ worker'.job = worker.job
        /\ UNCHANGED << loop, queue, unfinished, nextJob, generation, jobGeneration, stopped >>
    BY <1>1, <1>8 DEF Finish, TypeOK, WorkerHolds
  <2>2. \A j \in succeeded' : j \in succeeded \/
          (j = worker.job /\ jobGeneration[j] = generation)
    BY <1>8 DEF Finish, IsInterrupted
  <2>3. StoppedNeverSucceeds'
    BY <1>1, <1>2, <2>1, <2>2 DEF StoppedNeverSucceeds, StoppedAreOlder
  <2>4. SucceededAreDone'
    BY <1>1, <1>2, <2>1, <2>2 DEF SucceededAreDone, IdsInOrder
  <2>5. IdleMeansDone' /\ WorkerHolds' /\ IdsInOrder' /\ StoppedAreOlder'
    BY <1>1, <2>1 DEF IdleMeansDone, WorkerHolds, IdsInOrder, StoppedAreOlder
  <2> QED
    BY <1>0, <2>3, <2>4, <2>5 DEF RunnerInv
<1>9. CASE TaskDone
  <2>1. /\ worker.step = "finished" /\ worker.job # NoJob
        /\ worker'.step = "polling" /\ worker'.job = NoJob
        /\ unfinished' = unfinished - 1
        /\ UNCHANGED << loop, queue, nextJob, generation, jobGeneration, succeeded, stopped >>
    BY <1>1, <1>9 DEF TaskDone, AfterJob, WorkerHolds
  <2>2. IdleMeansDone'
    BY <1>1, <1>2, <2>1 DEF IdleMeansDone, TypeOK
  <2>3. IdsInOrder'
    <3>1. worker'.job <= nextJob'
      BY <1>1, <1>2, <2>1 DEF IdsInOrder
    <3>2. \A i \in 1 .. Len(queue') : worker'.job < queue'[i] /\ queue'[i] <= nextJob'
      <4> SUFFICES ASSUME NEW i \in 1 .. Len(queue)
                   PROVE  0 < queue[i] /\ queue[i] <= nextJob
        BY <2>1
      <4>1. queue[i] \in Nat \ {0}
        BY <1>2
      <4>2. 0 < queue[i]
        BY <4>1
      <4> QED
        BY <1>1, <4>2 DEF IdsInOrder
    <3>3. \A i, k \in 1 .. Len(queue') : i < k => queue'[i] < queue'[k]
      BY <1>1, <1>2, <2>1 DEF IdsInOrder
    <3>4. loop'.step \in { "put", "record" } => loop'.job = nextJob' /\ loop'.job # NoJob
      BY <1>1, <1>2, <2>1 DEF IdsInOrder
    <3>5. loop'.step = "put" =>
            worker'.job < nextJob' /\ \A i \in 1 .. Len(queue') : queue'[i] < nextJob'
      BY <1>1, <1>2, <2>1 DEF IdsInOrder
    <3> QED
      BY <3>1, <3>2, <3>3, <3>4, <3>5 DEF IdsInOrder
  <2>4. WorkerHolds' /\ SucceededAreDone' /\ StoppedNeverSucceeds' /\ StoppedAreOlder'
    BY <1>1, <2>1 DEF WorkerHolds, SucceededAreDone, StoppedNeverSucceeds, StoppedAreOlder
  <2> QED
    BY <1>0, <2>2, <2>3, <2>4 DEF RunnerInv
<1>10. CASE \/ Record \/ StopRelease \/ StopProvider \/ Shutdown \/ Poll \/ GetTimesOut
            \/ MarkStarted \/ RunAndWaitStarted \/ TimePasses \/ UNCHANGED vars
            \/ \E success \in BOOLEAN : Spoken(success)
  <2> DEFINE Same == /\ UNCHANGED << queue, unfinished, nextJob, generation,
                                     jobGeneration, succeeded, stopped >>
                     /\ loop' = loop \/ loop'.step \notin { "put", "record" }
             SameHands == /\ worker'.job = worker.job
                          /\ worker'.step \in InFlight => worker.step \in InFlight
                          /\ WorkerHolds'
  <2>10. ASSUME Record PROVE Same /\ SameHands
    <3>1. Same
      BY <1>1, <2>10 DEF Record, TypeOK
    <3>2. SameHands
      BY <1>1, <2>10 DEF Record, TypeOK, WorkerHolds
    <3> QED
      BY <3>1, <3>2
  <2>11. ASSUME StopRelease PROVE Same /\ SameHands
    <3>1. Same
      BY <1>1, <2>11 DEF StopRelease, TypeOK
    <3>2. SameHands
      BY <1>1, <2>11 DEF StopRelease, TypeOK, WorkerHolds
    <3> QED
      BY <3>1, <3>2
  <2>12. ASSUME StopProvider PROVE Same /\ SameHands
    <3>1. Same
      BY <1>1, <2>12 DEF StopProvider, TypeOK
    <3>2. SameHands
      BY <1>1, <2>12 DEF StopProvider, TypeOK, WorkerHolds
    <3> QED
      BY <3>1, <3>2
  <2>13. ASSUME Shutdown PROVE Same /\ SameHands
    <3>1. Same
      BY <1>1, <2>13 DEF Shutdown, TypeOK
    <3>2. SameHands
      BY <1>1, <2>13 DEF Shutdown, TypeOK, WorkerHolds
    <3> QED
      BY <3>1, <3>2
  <2>14. ASSUME Poll PROVE Same /\ SameHands
    <3>1. Same
      BY <1>1, <2>14 DEF Poll, TypeOK
    <3>2. SameHands
      BY <1>1, <2>14 DEF Poll, TypeOK, WorkerHolds
    <3> QED
      BY <3>1, <3>2
  <2>15. ASSUME GetTimesOut PROVE Same /\ SameHands
    <3>1. Same
      BY <1>1, <2>15 DEF GetTimesOut, TypeOK
    <3>2. SameHands
      BY <1>1, <2>15 DEF GetTimesOut, TypeOK, WorkerHolds
    <3> QED
      BY <3>1, <3>2
  <2>16. ASSUME MarkStarted PROVE Same /\ SameHands
    <3>1. Same
      BY <1>1, <2>16 DEF MarkStarted, TypeOK
    <3>2. SameHands
      BY <1>1, <2>16 DEF MarkStarted, TypeOK, WorkerHolds
    <3> QED
      BY <3>1, <3>2
  <2>17. ASSUME RunAndWaitStarted PROVE Same /\ SameHands
    <3>1. Same
      BY <1>1, <2>17 DEF RunAndWaitStarted, TypeOK
    <3>2. SameHands
      BY <1>1, <2>17 DEF RunAndWaitStarted, TypeOK, WorkerHolds
    <3> QED
      BY <3>1, <3>2
  <2>18. ASSUME TimePasses PROVE Same /\ SameHands
    <3>1. Same
      BY <1>1, <2>18 DEF TimePasses, TypeOK
    <3>2. SameHands
      BY <1>1, <2>18 DEF TimePasses, TypeOK, WorkerHolds
    <3> QED
      BY <3>1, <3>2
  <2>19. ASSUME UNCHANGED vars PROVE Same /\ SameHands
    BY <1>1, <2>19 DEF vars, WorkerHolds
  <2>20. ASSUME NEW success \in BOOLEAN, Spoken(success) PROVE Same /\ SameHands
    <3>1. Same
      BY <1>1, <2>20 DEF Spoken, TypeOK
    <3>2. SameHands
      BY <1>1, <2>20 DEF Spoken, TypeOK, WorkerHolds
    <3> QED
      BY <3>1, <3>2
  <2>1. Same
    BY <1>10, <2>10, <2>11, <2>12, <2>13, <2>14, <2>15, <2>16, <2>17, <2>18, <2>19, <2>20
  <2>2. SameHands
    BY <1>10, <2>10, <2>11, <2>12, <2>13, <2>14, <2>15, <2>16, <2>17, <2>18, <2>19, <2>20
  <2>3. IdleMeansDone' /\ StoppedNeverSucceeds' /\ StoppedAreOlder'
    BY <1>1, <2>1, <2>2 DEF IdleMeansDone, StoppedNeverSucceeds, StoppedAreOlder
  <2>4. IdsInOrder' /\ SucceededAreDone'
    BY <1>1, <2>1, <2>2 DEF IdsInOrder, SucceededAreDone
  <2> QED
    BY <1>0, <2>2, <2>3, <2>4 DEF RunnerInv
<1> QED
  BY <1>3, <1>4, <1>5, <1>6, <1>7, <1>8, <1>9, <1>10 DEF Next, Call, Work

\* The fields of the runner keep their types and order of ids, the queue's count
\* of unfinished tasks is that of the jobs queued or in hand, and no job that a
\* stop() found unfinished succeeds, in every reachable state.
THEOREM RunnerInvariant == Spec => []RunnerInv
<1>1. Init => RunnerInv
  BY RunnerInit
<1>2. RunnerInv /\ [Next]_vars => RunnerInv'
  BY RunnerStep
<1> QED
  BY <1>1, <1>2, PTL DEF Spec

\* A job queued or under way when stop() is called is never counted as a success.
THEOREM StoppedJobsNeverSucceed == Spec => []StoppedNeverSucceeds
<1>1. RunnerInv => StoppedNeverSucceeds
  BY DEF RunnerInv
<1> QED
  BY <1>1, RunnerInvariant, PTL

\* join() on the queue returns exactly when nothing is queued or in hand.
THEOREM JoinWaitsForAll == Spec => []IdleMeansDone
<1>1. RunnerInv => IdleMeansDone
  BY DEF RunnerInv
<1> QED
  BY <1>1, RunnerInvariant, PTL

\* The types of the runner's fields.
THEOREM RunnerTypes == Spec => []TypeOK
<1>1. RunnerInv => TypeOK
  BY DEF RunnerInv
<1> QED
  BY <1>1, RunnerInvariant, PTL

-----------------------------------------------------------------------------
(* What was recorded *)

Playing == { "started", "speaking", "spoken" }

\* The current job is the one the worker has marked as started.
CurrentIsPlayed ==
  IF worker.step \in Playing THEN current = worker.job ELSE current = NoJob

\* enqueue's record is the first to be written.
NotRecordedYet ==
  \A j \in Jobs : j > nextJob \/ (loop.step \in { "put", "record" } /\ j = nextJob)
    => history[j] = "unknown"

\* A job with an outcome is not to be started any more; if it is being played,
\* a stop() has interrupted it.
OutcomeIsSettled ==
  \A j \in Jobs : history[j] \in Final =>
    /\ \A i \in 1 .. Len(queue) : queue[i] # j
    /\ worker.step = "dequeued" => worker.job # j
    /\ worker.step \in Playing /\ worker.job = j =>
         j \in interrupted /\ history[j] = "interrupted"

OutcomeInv == CurrentIsPlayed /\ NotRecordedYet /\ OutcomeIsSettled

\* A step that starts nothing and records nothing.
OutcomesKept ==
  /\ UNCHANGED << history, interrupted, current >>
  /\ \A i \in 1 .. Len(queue') : \E k \in 1 .. Len(queue) : queue'[i] = queue[k]
  /\ nextJob' >= nextJob
  /\ \A j \in Jobs : j = nextJob' /\ loop'.step \in { "put", "record" } =>
       j > nextJob \/ (loop.step \in { "put", "record" } /\ j = nextJob)
  /\ worker'.step = "dequeued" =>
       worker.step = "dequeued" /\ worker'.job = worker.job
  /\ worker'.step \in Playing => worker.step \in Playing /\ worker'.job = worker.job
  /\ worker.step \in Playing => worker'.step \in Playing

LEMMA KeptOutcomes ==
  ASSUME RunnerInv, OutcomeInv, OutcomesKept, TypeOK'
  PROVE  OutcomeInv'
<1>1. /\ Jobs \subseteq Nat \ {0} /\ nextJob \in Nat /\ nextJob' \in Nat
  BY JobNumbers, RunnerAssumption DEF RunnerInv, TypeOK, Jobs
<1>2. CurrentIsPlayed'
  BY DEF OutcomeInv, OutcomesKept, CurrentIsPlayed
<1>3. NotRecordedYet'
  BY <1>1 DEF OutcomeInv, OutcomesKept, NotRecordedYet
<1>4. OutcomeIsSettled'
  BY DEF OutcomeInv, OutcomesKept, OutcomeIsSettled
<1> QED
  BY <1>2, <1>3, <1>4 DEF OutcomeInv

\* Every step keeps the outcomes and what they rest on.
LEMMA OutcomeStep ==
  ASSUME RunnerInv, OutcomeInv, [Next]_vars
  PROVE  /\ OutcomeInv'
         /\ \A j \in Jobs : history[j] \in Final => history'[j] = history[j]
<1> DEFINE Stays == \A j \in Jobs : history[j] \in Final => history'[j] = history[j]
<1>0. TypeOK /\ TypeOK' /\ RunnerInv'
  BY RunnerStep DEF RunnerInv
<1>1. /\ Jobs \subseteq Nat \ {0} /\ nextJob \in Nat /\ worker.job \in Nat
      /\ Len(queue) \in Nat /\ \A i \in 1 .. Len(queue) : queue[i] \in Jobs
  BY <1>0, JobNumbers
<1>2. /\ worker.job <= nextJob /\ \A i \in 1 .. Len(queue) : queue[i] <= nextJob
      /\ loop.step \in { "put", "record" } => loop.job = nextJob /\ loop.job \in Jobs
  BY <1>0 DEF RunnerInv, IdsInOrder, TypeOK
<1>3. worker.step \in InFlight \union { "finished" } => worker.job \in Jobs
  BY <1>0 DEF RunnerInv, WorkerHolds, TypeOK, InFlight
<1> USE DEF guarded, Playing, Final
<1>4. CASE Admit
  <2>1. OutcomesKept
    BY <1>0, <1>1, <1>4 DEF Admit, OutcomesKept, TypeOK
  <2> QED
    BY <1>0, <1>4, <2>1, KeptOutcomes DEF Admit
<1>5. CASE Put
  <2>1. UNCHANGED << worker, nextJob, history, interrupted, current >>
    BY <1>5 DEF Put
  <2>2. \A i \in 1 .. Len(queue') : queue'[i] = nextJob \/ \E k \in 1 .. Len(queue) : queue'[i] = queue[k]
    <3>1. CASE queue' = queue
      BY <3>1
    <3>2. CASE queue' = Append(queue, nextJob) /\ nextJob \in Jobs
      <4>1. /\ Len(queue') = Len(queue) + 1 /\ queue'[Len(queue) + 1] = nextJob
            /\ \A i \in 1 .. Len(queue) : queue'[i] = queue[i]
        BY <1>0, <3>2, AppendFacts DEF TypeOK
      <4>2. \A i \in 1 .. Len(queue') : i = Len(queue) + 1 \/ i \in 1 .. Len(queue)
        BY <1>1, <4>1
      <4> QED
        BY <4>1, <4>2
    <3> QED
      BY <1>2, <1>5, <3>1, <3>2 DEF Put
  <2>3. loop.step = "put" /\ (loop'.step = "record" \/ loop'.step = "idle")
    BY <1>0, <1>5 DEF Put, TypeOK
  <2>4. CurrentIsPlayed' /\ NotRecordedYet'
    BY <2>1, <2>3 DEF OutcomeInv, CurrentIsPlayed, NotRecordedYet
  <2>5. OutcomeIsSettled'
    BY <2>1, <2>2, <2>3, <1>2 DEF OutcomeInv, NotRecordedYet, OutcomeIsSettled
  <2> QED
    BY <2>1, <2>4, <2>5 DEF OutcomeInv
<1>6. CASE Record
  <2>1. /\ UNCHANGED << worker, queue, nextJob, interrupted, current >>
        /\ loop.step = "record" /\ loop'.step = "idle"
        /\ history' = [history EXCEPT ![nextJob] = "queued"] /\ nextJob \in Jobs
    BY <1>2, <1>6 DEF Record
  <2>2. history[nextJob] = "unknown"
    BY <2>1 DEF OutcomeInv, NotRecordedYet
  <2>3. \A j \in Jobs : history'[j] = IF j = nextJob THEN "queued" ELSE history[j]
    BY <1>0, <2>1 DEF TypeOK
  <2>4. CurrentIsPlayed' /\ NotRecordedYet'
    BY <1>1, <2>1, <2>3 DEF OutcomeInv, CurrentIsPlayed, NotRecordedYet
  <2>5. OutcomeIsSettled'
    BY <2>1, <2>3 DEF OutcomeInv, OutcomeIsSettled
  <2> QED
    BY <2>2, <2>3, <2>4, <2>5 DEF OutcomeInv
<1>7. CASE StopBegin
  <2>1. UNCHANGED << worker, queue, nextJob, current >> /\ loop'.step = "drain" /\ loop.step = "idle"
    BY <1>7 DEF StopBegin
  <2>2. CASE current = NoJob
    <3>1. UNCHANGED << history, interrupted >>
      BY <1>7, <2>2 DEF StopBegin
    <3> QED
      BY <2>1, <3>1 DEF OutcomeInv, CurrentIsPlayed, NotRecordedYet, OutcomeIsSettled
  <2>3. CASE current # NoJob
    <3>1. worker.step \in Playing /\ current = worker.job /\ current \in Jobs
      BY <1>3, <2>3 DEF OutcomeInv, CurrentIsPlayed, InFlight
    <3>2. /\ interrupted' = interrupted \union { current }
          /\ \A j \in Jobs : history'[j] = IF j = current /\ history[j] # "unknown" THEN "interrupted" ELSE history[j]
      BY <1>0, <1>7, <2>3, <3>1 DEF StopBegin, MarkInterrupted, Recorded, TypeOK
    <3>3. Stays
      BY <3>1, <3>2 DEF OutcomeInv, OutcomeIsSettled
    <3>4. CurrentIsPlayed' /\ NotRecordedYet'
      BY <2>1, <3>2 DEF OutcomeInv, CurrentIsPlayed, NotRecordedYet
    <3>5. \A i \in 1 .. Len(queue) : queue[i] # current
      BY <1>0, <1>1, <3>1 DEF RunnerInv, IdsInOrder
    <3>6. OutcomeIsSettled'
      BY <2>1, <3>1, <3>2, <3>5 DEF OutcomeInv, OutcomeIsSettled
    <3> QED
      BY <3>3, <3>4, <3>6 DEF OutcomeInv
  <2> QED
    BY <2>2, <2>3
<1>8. CASE StopDrain
  <2>1. UNCHANGED << loop, worker, nextJob, current >> /\ queue # << >>
    BY <1>8 DEF StopDrain
  <2> DEFINE h == queue[1]
  <2>2. /\ Len(queue) > 0 /\ Len(queue') = Len(queue) - 1 /\ h \in Jobs /\ Head(queue) = h
        /\ \A i \in 1 .. Len(queue') : i + 1 \in 1 .. Len(queue) /\ queue'[i] = queue[i + 1]
    BY <1>0, <1>1, <1>8, TailFacts DEF StopDrain, TypeOK
  <2>3. /\ interrupted' = interrupted \union { h }
        /\ \A j \in Jobs : history'[j] = IF j = h /\ history[j] # "unknown" THEN "interrupted" ELSE history[j]
    BY <1>0, <1>8, <2>2 DEF StopDrain, MarkInterrupted, Recorded, TypeOK
  <2>4. history[h] \notin Final
    <3>1. 1 \in 1 .. Len(queue)
      BY <1>1, <2>2
    <3> QED
      BY <2>2, <3>1 DEF OutcomeInv, OutcomeIsSettled
  <2>5. Stays
    BY <2>3, <2>4
  <2>6. CurrentIsPlayed' /\ NotRecordedYet'
    BY <2>1, <2>3 DEF OutcomeInv, CurrentIsPlayed, NotRecordedYet
  <2>7. worker.job # h /\ \A i \in 1 .. Len(queue') : queue'[i] # h
    <3>1. 1 \in 1 .. Len(queue) /\ worker.job < h
      BY <1>0, <1>1, <2>2 DEF RunnerInv, IdsInOrder
    <3>2. ASSUME NEW i \in 1 .. Len(queue') PROVE queue'[i] # h
      <4>1. i + 1 \in 1 .. Len(queue) /\ 1 < i + 1 /\ queue'[i] = queue[i + 1]
        BY <1>1, <2>2
      <4>2. h < queue[i + 1]
        BY <1>0, <3>1, <4>1 DEF RunnerInv, IdsInOrder
      <4>3. queue[i + 1] \in Nat /\ h \in Nat
        BY <1>1, <2>2, <4>1
      <4> HIDE DEF h
      <4> QED
        BY <4>1, <4>2, <4>3
    <3> QED
      BY <1>1, <2>2, <3>1, <3>2
  <2> HIDE DEF h
  <2>8. OutcomeIsSettled'
    BY <2>1, <2>2, <2>3, <2>7 DEF OutcomeInv, OutcomeIsSettled
  <2> QED
    BY <2>5, <2>6, <2>8 DEF OutcomeInv
<1>9. CASE Dequeue
  <2>1. /\ UNCHANGED << history, interrupted, current, loop, nextJob >>
        /\ worker.step = "waiting" /\ queue # << >>
        /\ worker'.step = "dequeued" /\ worker'.job = Head(queue)
    BY <1>9 DEF Dequeue
  <2>2. /\ Len(queue) > 0 /\ Len(queue') = Len(queue) - 1 /\ Head(queue) = queue[1]
        /\ \A i \in 1 .. Len(queue') : i + 1 \in 1 .. Len(queue) /\ queue'[i] = queue[i + 1]
    BY <1>0, <1>1, <1>9, TailFacts DEF Dequeue, TypeOK
  <2>3. CurrentIsPlayed' /\ NotRecordedYet'
    BY <2>1 DEF OutcomeInv, CurrentIsPlayed, NotRecordedYet
  <2>4. OutcomeIsSettled'
    BY <1>1, <2>1, <2>2 DEF OutcomeInv, OutcomeIsSettled
  <2> QED
    BY <2>1, <2>3, <2>4 DEF OutcomeInv
<1>10. CASE MarkStarted
  <2>1. /\ UNCHANGED << loop, queue, nextJob, interrupted >> /\ worker.step = "dequeued"
        /\ worker'.step = "started" /\ worker'.job = worker.job /\ current' = worker.job
        /\ worker.job \in Jobs
        /\ \A j \in Jobs : history'[j] = IF j = worker.job /\ history[j] # "unknown" THEN "running" ELSE history[j]
    BY <1>0, <1>3, <1>10 DEF MarkStarted, Recorded, TypeOK, InFlight
  <2>2. history[worker.job] \notin Final
    BY <2>1 DEF OutcomeInv, OutcomeIsSettled
  <2>3. CurrentIsPlayed' /\ NotRecordedYet'
    BY <2>1 DEF OutcomeInv, CurrentIsPlayed, NotRecordedYet
  <2>4. OutcomeIsSettled'
    BY <2>1, <2>2 DEF OutcomeInv, OutcomeIsSettled
  <2> QED
    BY <2>1, <2>2, <2>3, <2>4 DEF OutcomeInv
<1>11. CASE Finish
  <2> DEFINE j == worker.job
  <2>1. /\ UNCHANGED << loop, queue, nextJob >> /\ worker.step = "spoken"
        /\ worker'.step = "finished" /\ worker'.job = j /\ j \in Jobs
        /\ current' = NoJob
    BY <1>0, <1>3, <1>11 DEF Finish, CurrentAfter, OutcomeInv, CurrentIsPlayed, TypeOK, InFlight
  <2>2. PICK outcome \in Final :
          /\ history' = Recorded(j, outcome)
          /\ IsInterrupted(j) => outcome = "interrupted"
    BY <1>11 DEF Finish, MarkInterrupted
  <2>3. \A k \in Jobs : history'[k] = IF k = j /\ history[k] # "unknown" THEN outcome ELSE history[k]
    BY <1>0, <2>1, <2>2 DEF Recorded, TypeOK
  <2>4. \A i \in 1 .. Len(queue) : queue[i] # j
    BY <1>0, <1>1, <2>1 DEF RunnerInv, IdsInOrder
  <2>5. history[j] \in Final => history[j] = "interrupted" /\ IsInterrupted(j)
    BY <2>1 DEF OutcomeInv, OutcomeIsSettled, IsInterrupted
  <2> HIDE DEF j
  <2>6. Stays
    BY <2>2, <2>3, <2>5
  <2>7. CurrentIsPlayed' /\ NotRecordedYet'
    BY <2>1, <2>3 DEF OutcomeInv, CurrentIsPlayed, NotRecordedYet
  <2>8. OutcomeIsSettled'
    BY <2>1, <2>3, <2>4 DEF OutcomeInv, OutcomeIsSettled
  <2> QED
    BY <2>6, <2>7, <2>8 DEF OutcomeInv
<1>12. CASE \/ StopRelease \/ StopProvider \/ Shutdown \/ Poll \/ GetTimesOut
            \/ RunAndWaitStarted \/ TaskDone \/ TimePasses \/ UNCHANGED vars
            \/ \E success \in BOOLEAN : Spoken(success)
  <2>1. UNCHANGED << history, interrupted, current, queue, nextJob >>
    BY <1>12 DEF StopRelease, StopProvider, Shutdown, Poll, GetTimesOut, RunAndWaitStarted,
                 TaskDone, TimePasses, vars, Spoken
  <2>2. loop'.step \in { "put", "record" } => loop.step \in { "put", "record" }
    BY <1>0, <1>12 DEF StopRelease, StopProvider, Shutdown, Poll, GetTimesOut, RunAndWaitStarted,
                 TaskDone, TimePasses, vars, Spoken, TypeOK
  <2>3. /\ worker'.step = "dequeued" => worker.step = "dequeued" /\ worker'.job = worker.job
        /\ worker'.step \in Playing => worker.step \in Playing /\ worker'.job = worker.job
        /\ worker.step \in Playing => worker'.step \in Playing
    <3>1. CASE StopProvider
      BY <1>0, <3>1 DEF StopProvider, TypeOK
    <3>2. CASE StopRelease \/ Shutdown \/ TimePasses \/ UNCHANGED vars
      BY <3>2 DEF StopRelease, Shutdown, TimePasses, vars
    <3>3. CASE Poll
      BY <1>0, <3>3 DEF Poll, TypeOK
    <3>4. CASE GetTimesOut \/ RunAndWaitStarted \/ \E success \in BOOLEAN : Spoken(success)
      BY <1>0, <3>4 DEF GetTimesOut, RunAndWaitStarted, Spoken, TypeOK
    <3>5. CASE TaskDone
      BY <1>0, <3>5 DEF TaskDone, AfterJob, TypeOK
    <3> QED
      BY <1>12, <3>1, <3>2, <3>3, <3>4, <3>5
  <2>4. OutcomesKept
    BY <1>1, <2>1, <2>2, <2>3 DEF OutcomesKept
  <2> QED
    BY <1>0, <2>1, <2>4, KeptOutcomes
<1> QED
  BY <1>4, <1>5, <1>6, <1>7, <1>8, <1>9, <1>10, <1>11, <1>12 DEF Next, Call, Work

\* An outcome that was recorded stays, whatever a later stop() interrupts and
\* however late enqueue writes its record (runner.py enqueue, stop, _finish_job).
THEOREM OutcomesAreFinal == Spec => OutcomeIsFinal
<1>1. Init => OutcomeInv
  <2> SUFFICES ASSUME Init PROVE OutcomeInv
    OBVIOUS
  <2>1. CurrentIsPlayed
    BY DEF Init, CurrentIsPlayed, Playing
  <2>2. \A j \in Jobs : history[j] = "unknown"
    BY DEF Init
  <2> QED
    BY <2>1, <2>2 DEF OutcomeInv, NotRecordedYet, OutcomeIsSettled, Final
<1>2. RunnerInv /\ OutcomeInv /\ [Next]_vars => OutcomeInv'
  BY OutcomeStep
<1>3. RunnerInv /\ OutcomeInv /\ [Next]_vars =>
        [ \A j \in Jobs : history[j] \in Final => history'[j] = history[j] ]_vars
  BY OutcomeStep
<1> QED
  BY <1>1, <1>2, <1>3, RunnerInvariant, PTL DEF Spec, OutcomeIsFinal
=============================================================================
