------------------------------ MODULE JobManager ------------------------------
(***************************************************************************)
(* The in-process job scheduler, core/jobs/manager.py, at the granularity  *)
(* of asyncio: a step is what one coroutine executes between two awaits.   *)
(*                                                                         *)
(* A worker is an asyncio task running _worker_loop.  It selects a job     *)
(* under the queue condition, creates a second task for _execute_job,      *)
(* awaits that task, and comes back.  Everything the two tasks of one      *)
(* worker do is told by wpc[w] and wjob[w]:                                *)
(*                                                                         *)
(*   absent   no worker task, or it has ended                              *)
(*   scan     about to run _select_eligible_pending_index                  *)
(*   wait     parked in _queue_condition.wait()                            *)
(*   created  job taken, inner task created, its first step not run yet    *)
(*   running  inner task awaiting the tool (asyncio.wait_for)              *)
(*   backoff  inner task in the sleep before a retry                       *)
(*   done     inner task returned, the worker has not resumed yet          *)
(*   killed   inner task cancelled before its first step ever ran          *)
(***************************************************************************)
EXTENDS Integers, FiniteSets

CONSTANTS
    Jobs,          \* the submissions of a behaviour, each made at most once
    Workers,       \* one per config.concurrency.max_workers
    NoJob,         \* "no job", for a worker that holds none
    NoWorker,      \* "no task", for a job that is not in _active_tasks
    QueueSize,     \* config.concurrency.queue_size
    HistoryLimit,  \* config.concurrency.history_limit
    Lane,          \* Lane[j]: the job's WorkerLane
    Priority,      \* Priority[j]: the job's WorkerPriorityLevel
    CapKey,        \* CapKey[j]: the job's subsystem_cap_key
    CapLimit,      \* CapLimit[k]: the cap of key k, 0 when it has none
    MaxAttempts,   \* MaxAttempts[j]: 1 unless the job has SAFE_READ_RETRY
    Cancellable    \* bound: the jobs some caller may cancel

Lanes == {"interactive", "normal", "background"}

Priorities ==
    {"critical_interactive", "interactive", "normal", "background", "maintenance"}

ASSUME SchedulerAssumption ==
    /\ IsFiniteSet(Jobs)
    /\ IsFiniteSet(Workers)
    /\ NoJob \notin Jobs
    /\ NoWorker \notin Workers
    /\ QueueSize \in Nat
    /\ HistoryLimit \in Nat
    /\ Lane \in [Jobs -> Lanes]
    /\ Priority \in [Jobs -> Priorities]
    /\ CapLimit \in [DOMAIN CapLimit -> Nat]
    /\ CapKey \in [Jobs -> DOMAIN CapLimit]
    /\ MaxAttempts \in [Jobs -> Nat \ {0}]
    /\ Cancellable \subseteq Jobs

VARIABLES
    phase,       \* where start() and stop() are
    jobs,        \* the keys of _jobs
    status,      \* JobRecord.status, "new" before submit
    pending,     \* the jobs in _pending_jobs
    seq,         \* the _submit_sequence number of an accepted job
    submitted,   \* _submit_sequence
    starting,    \* _starting_job_ids
    active,      \* _active_tasks: the worker whose inner task it is
    future,      \* _completion_futures: absent, pending, or resolved and popped
    attempts,    \* JobRecord.attempt_count
    cancelAsked, \* JobRecord.cancel_requested
    finishedAt,  \* JobRecord.finished_at, as its rank among all finishes
    clock,       \* the number of finishes so far
    wpc,         \* see above
    wjob,        \* the job a worker holds
    taskCancel,  \* workers whose inner task has a cancellation to deliver
    wcancel,     \* worker tasks with a cancellation to deliver
    gathered     \* workers whose inner task stop() still awaits

jobVars    == <<jobs, status, future, finishedAt, clock>>
queueVars  == <<pending, seq, submitted>>
workerVars == <<wpc, wjob, taskCancel, wcancel>>
stopVars   == <<phase, gathered>>
vars == <<stopVars, jobVars, queueVars, starting, active, attempts, cancelAsked, workerVars>>

-------------------------------------------------------------------------------

Statuses    == {"new", "queued", "running", "completed", "failed", "cancelled", "timed_out"}
Live        == {"queued", "running"}
Terminal    == {"completed", "failed", "cancelled", "timed_out"}
Phases      == {"new", "up", "draining", "joining", "stopped", "aborted"}
\* The states of a worker in which its inner task exists and is not finished.
TaskAlive   == {"created", "running", "backoff"}
TaskEnded   == {"done", "killed"}
WorkerStates == {"absent", "scan", "wait"} \cup TaskAlive \cup TaskEnded

TypeOK ==
    /\ phase \in Phases
    /\ jobs \in SUBSET Jobs
    /\ status \in [Jobs -> Statuses]
    /\ pending \in SUBSET Jobs
    /\ seq \in [Jobs -> Nat]
    /\ submitted \in Nat
    /\ starting \in SUBSET Jobs
    /\ active \in [Jobs -> Workers \cup {NoWorker}]
    /\ future \in [Jobs -> {"absent", "pending", "resolved"}]
    /\ attempts \in [Jobs -> Nat]
    /\ cancelAsked \in [Jobs -> BOOLEAN]
    /\ finishedAt \in [Jobs -> Nat]
    /\ clock \in Nat
    /\ wpc \in [Workers -> WorkerStates]
    /\ wjob \in [Workers -> Jobs \cup {NoJob}]
    /\ taskCancel \in SUBSET Workers
    /\ wcancel \in SUBSET Workers
    /\ gathered \in SUBSET Workers

-------------------------------------------------------------------------------
(* Scheduling policy.                                                      *)

\* worker_priority_sort_key
SortKey(j) ==
    LET weight == [critical_interactive |-> 0, interactive |-> 1, normal |-> 3,
                   background |-> 6, maintenance |-> 8]
        offset == [interactive |-> 0, normal |-> 2, background |-> 5]
    IN  weight[Priority[j]] + offset[Lane[j]]

\* The order _select_eligible_pending_index sorts the queue in.
Before(j, k) ==
    \/ SortKey(j) < SortKey(k)
    \/ SortKey(j) = SortKey(k) /\ seq[j] < seq[k]

\* SchedulerPolicy.resolved_background_limit with the policy JobManager builds:
\* one protected worker when there is more than one, no explicit limit.
BackgroundLimit ==
    LET capacity == Cardinality(Workers)
    IN  IF capacity <= 1 THEN capacity ELSE capacity - 1

\* Mutation: jobs taken but not begun are not counted.
ActiveOnly == {j \in jobs : status[j] = "running"}

\* _active_or_starting_jobs
ActiveOrStarting == {j \in jobs : status[j] = "running" \/ j \in starting}

\* Mutation: a cap that is already reached still admits a job.
EligibleAtCap(j) ==
    /\ Lane[j] = "background" /\ BackgroundLimit > 0 =>
           Cardinality({k \in ActiveOrStarting : Lane[k] = "background"}) < BackgroundLimit
    /\ CapLimit[CapKey[j]] > 0 =>
           Cardinality({k \in ActiveOrStarting : CapKey[k] = CapKey[j]}) <= CapLimit[CapKey[j]]

\* _job_is_eligible_to_start
Eligible(j) ==
    /\ Lane[j] = "background" /\ BackgroundLimit > 0 =>
           Cardinality({k \in ActiveOrStarting : Lane[k] = "background"}) < BackgroundLimit
    /\ CapLimit[CapKey[j]] > 0 =>
           Cardinality({k \in ActiveOrStarting : CapKey[k] = CapKey[j]}) < CapLimit[CapKey[j]]

Selectable == {j \in pending : status[j] = "queued" /\ Eligible(j)}

\* Mutation: the retry decision ignores cancel_requested.
ShouldRetryAnyway(j) == attempts[j] < MaxAttempts[j]

\* _should_retry; a job without SAFE_READ_RETRY has MaxAttempts 1
ShouldRetry(j) == ~cancelAsked[j] /\ attempts[j] < MaxAttempts[j]

Retention == IF HistoryLimit > QueueSize THEN HistoryLimit ELSE QueueSize

\* Mutation: a running job counts as finished.
PrunableNotQueued(kept, st, fin) ==
    LET finished == {j \in kept : st[j] # "queued"}
    IN  {j \in finished : Cardinality({k \in finished : fin[k] > fin[j]}) >= Retention}

\* The finished jobs of `kept` that _prune_finished_jobs removes: all but the
\* Retention most recently finished.
Prunable(kept, st, fin) ==
    LET finished == {j \in kept : st[j] \notin Live}
    IN  {j \in finished : Cardinality({k \in finished : fin[k] > fin[j]}) >= Retention}

\* Place of j in S in the order of submission, from 1.
RankIn(S, j) == Cardinality({k \in S : seq[k] <= seq[j]})

\* Setting a terminal status, mark_finished and _finalize, for the jobs of S in
\* the order of submission: the future is resolved and popped, old records go.
Finish(S, outcome) ==
    /\ status' = [j \in Jobs |-> IF j \in S THEN outcome ELSE status[j]]
    /\ finishedAt' = [j \in Jobs |-> IF j \in S THEN clock + RankIn(S, j) ELSE finishedAt[j]]
    /\ clock' = clock + Cardinality(S)
    /\ future' = [j \in Jobs |-> IF j \in S THEN "resolved" ELSE future[j]]
    /\ jobs' = jobs \ Prunable(jobs, status', finishedAt')

\* Mutation: nobody is woken.
NobodyNotified(pcs) == pcs

\* Mutation: notify() in place of notify_all().
OneNotified(pcs) ==
    LET waiters == {w \in Workers : pcs[w] = "wait"}
    IN  IF waiters = {} THEN pcs
        ELSE [pcs EXCEPT ![CHOOSE w \in waiters : TRUE] = "scan"]

\* _queue_condition.notify_all()
Notified(pcs) == [w \in Workers |-> IF pcs[w] = "wait" THEN "scan" ELSE pcs[w]]

-------------------------------------------------------------------------------
(* submit, cancel, start.                                                  *)

Start ==
    /\ phase = "new"
    /\ phase' = "up"
    /\ wpc' = [w \in Workers |-> "scan"]
    /\ UNCHANGED <<gathered, jobVars, queueVars, starting, active, attempts, cancelAsked, wjob,
                   taskCancel, wcancel>>

\* Mutation: the limit is tested before the new job is counted.
QueueHasRoomBefore == Cardinality({k \in jobs : status[k] = "queued"}) <= QueueSize

\* The queue counts every QUEUED job, taken ones included, and the new one.
QueueHasRoom == Cardinality({k \in jobs : status[k] = "queued"}) + 1 <= QueueSize

\* Nothing in submit consults _stopping: it is accepted in every phase.
SubmitAccepted(j) ==
    /\ status[j] = "new"
    /\ QueueHasRoom
    /\ jobs' = jobs \cup {j}
    /\ status' = [status EXCEPT ![j] = "queued"]
    /\ future' = [future EXCEPT ![j] = "pending"]
    /\ submitted' = submitted + 1
    /\ seq' = [seq EXCEPT ![j] = submitted + 1]
    /\ pending' = pending \cup {j}
    /\ wpc' = Notified(wpc)
    /\ UNCHANGED <<stopVars, finishedAt, clock, starting, active, attempts, cancelAsked, wjob,
                   taskCancel, wcancel>>

\* "job_queue_full": the record is kept, finished and failed, and submit raises.
SubmitRejected(j) ==
    /\ status[j] = "new"
    /\ ~QueueHasRoom
    /\ status' = [status EXCEPT ![j] = "failed"]
    /\ future' = [future EXCEPT ![j] = "resolved"]
    /\ finishedAt' = [finishedAt EXCEPT ![j] = clock + 1]
    /\ clock' = clock + 1
    /\ jobs' = (jobs \cup {j}) \ Prunable(jobs \cup {j}, status', finishedAt')
    /\ UNCHANGED <<stopVars, queueVars, starting, active, attempts, cancelAsked, workerVars>>

\* Mutation: the job id is used where its task is meant.
CancelJobIdOf(j) == taskCancel \cup {j}

\* The worker whose inner task `_active_tasks[j].cancel()` reaches; cancel() on
\* a task that has ended does nothing.
CancelTaskOf(j) ==
    IF wpc[active[j]] \in TaskAlive THEN taskCancel \cup {active[j]} ELSE taskCancel

\* cancel() of a job that has an inner task: the task is asked to stop.
CancelActive(j) ==
    /\ j \in jobs
    /\ active[j] # NoWorker
    /\ cancelAsked' = [cancelAsked EXCEPT ![j] = TRUE]
    /\ taskCancel' = CancelTaskOf(j)
    /\ UNCHANGED <<stopVars, jobVars, queueVars, starting, active, attempts, wpc, wjob, wcancel>>

\* cancel() of a queued job: it leaves the queue and is finished.
CancelQueued(j) ==
    /\ j \in jobs
    /\ active[j] = NoWorker
    /\ status[j] = "queued"
    /\ cancelAsked' = [cancelAsked EXCEPT ![j] = TRUE]
    /\ pending' = pending \ {j}
    /\ Finish({j}, "cancelled")
    /\ UNCHANGED <<stopVars, seq, submitted, starting, active, attempts, workerVars>>

\* cancel() of a job that is over only leaves its mark.
CancelTooLate(j) ==
    /\ j \in jobs
    /\ active[j] = NoWorker
    /\ status[j] # "queued"
    /\ cancelAsked' = [cancelAsked EXCEPT ![j] = TRUE]
    /\ UNCHANGED <<stopVars, jobVars, queueVars, starting, active, attempts, workerVars>>

Cancel(j) == CancelActive(j) \/ CancelQueued(j) \/ CancelTooLate(j)

-------------------------------------------------------------------------------
(* The worker loop.                                                        *)

\* One pass of _next_eligible_job that finds a job.  Selection, the mark in
\* _starting_job_ids, create_task and the entry in _active_tasks are one step:
\* nothing in between awaits, so the CANCELLED test in the loop cannot succeed.
Take(w, j) ==
    /\ wpc[w] = "scan"
    /\ w \notin wcancel
    /\ j \in Selectable
    /\ \A k \in Selectable : ~Before(k, j)
    /\ pending' = pending \ {j}
    /\ starting' = starting \cup {j}
    /\ active' = [active EXCEPT ![j] = w]
    /\ wpc' = [wpc EXCEPT ![w] = "created"]
    /\ wjob' = [wjob EXCEPT ![w] = j]
    /\ UNCHANGED <<stopVars, jobVars, seq, submitted, attempts, cancelAsked, taskCancel, wcancel>>

\* The pass that finds none ends in _queue_condition.wait().
Park(w) ==
    /\ wpc[w] = "scan"
    /\ w \notin wcancel
    /\ Selectable = {}
    /\ wpc' = [wpc EXCEPT ![w] = "wait"]
    /\ UNCHANGED <<stopVars, jobVars, queueVars, starting, active, attempts, cancelAsked, wjob,
                   taskCancel, wcancel>>

\* Mutation: the finally block forgets the entry in _active_tasks.
ResumeKeepsEntry(w) ==
    /\ wpc[w] \in TaskEnded
    /\ LET over == wpc[w] = "killed" \/ w \in wcancel
       IN  wpc' = [Notified(wpc) EXCEPT ![w] = IF over THEN "absent" ELSE "scan"]
    /\ wjob' = [wjob EXCEPT ![w] = NoJob]
    /\ wcancel' = wcancel \ {w}
    /\ UNCHANGED <<stopVars, jobVars, queueVars, starting, active, attempts, cancelAsked,
                   taskCancel>>

\* Mutation: a worker cancelled while its task had just ended goes on.
ResumeSwallowsCancel(w) ==
    /\ wpc[w] \in TaskEnded
    /\ active' = [active EXCEPT ![wjob[w]] = NoWorker]
    /\ wpc' = [Notified(wpc) EXCEPT ![w] = IF wpc[w] = "killed" THEN "absent" ELSE "scan"]
    /\ wjob' = [wjob EXCEPT ![w] = NoJob]
    /\ wcancel' = wcancel \ {w}
    /\ UNCHANGED <<stopVars, jobVars, queueVars, starting, attempts, cancelAsked, taskCancel>>

\* The inner task has ended: the worker's finally block, and the next pass.  A
\* task that ended cancelled raises in `await task` and ends the worker too.
Resume(w) ==
    /\ wpc[w] \in TaskEnded
    /\ active' = [active EXCEPT ![wjob[w]] = NoWorker]
    /\ LET over == wpc[w] = "killed" \/ w \in wcancel
       IN  wpc' = [Notified(wpc) EXCEPT ![w] = IF over THEN "absent" ELSE "scan"]
    /\ wjob' = [wjob EXCEPT ![w] = NoJob]
    /\ wcancel' = wcancel \ {w}
    /\ UNCHANGED <<stopVars, jobVars, queueVars, starting, attempts, cancelAsked, taskCancel>>

\* CancelledError reaches a worker inside _next_eligible_job.
WorkerCancelled(w) ==
    /\ wpc[w] \in {"scan", "wait"}
    /\ w \in wcancel
    /\ wpc' = [wpc EXCEPT ![w] = "absent"]
    /\ wcancel' = wcancel \ {w}
    /\ UNCHANGED <<stopVars, jobVars, queueVars, starting, active, attempts, cancelAsked, wjob,
                   taskCancel>>

-------------------------------------------------------------------------------
(* The inner task, _execute_job.                                           *)

\* Its first step, up to the first await of the tool.
Begin(w) ==
    LET j == wjob[w] IN
    /\ wpc[w] = "created"
    /\ w \notin taskCancel
    /\ status' = [status EXCEPT ![j] = "running"]
    /\ starting' = starting \ {j}
    /\ attempts' = [attempts EXCEPT ![j] = @ + 1]
    /\ wpc' = [wpc EXCEPT ![w] = "running"]
    /\ UNCHANGED <<stopVars, jobs, future, finishedAt, clock, queueVars, active, cancelAsked, wjob,
                   taskCancel, wcancel>>

\* A task cancelled before its first step never enters the coroutine: no except
\* clause and no finally block of _execute_job runs.
KilledBeforeBegin(w) ==
    /\ wpc[w] = "created"
    /\ w \in taskCancel
    /\ wpc' = [wpc EXCEPT ![w] = "killed"]
    /\ taskCancel' = taskCancel \ {w}
    /\ gathered' = gathered \ {w}
    /\ UNCHANGED <<phase, jobVars, queueVars, starting, active, attempts, cancelAsked, wjob,
                   wcancel>>

\* The end of _execute_job, with its finally block.
TaskReturns(w, outcome) ==
    /\ starting' = starting \ {wjob[w]}
    /\ Finish({wjob[w]}, outcome)
    /\ wpc' = [wpc EXCEPT ![w] = "done"]
    /\ taskCancel' = taskCancel \ {w}
    /\ gathered' = gathered \ {w}
    /\ UNCHANGED <<phase, queueVars, active, attempts, cancelAsked, wjob, wcancel>>

\* The tool's result arrives.  Python 3.11's wait_for returns it even when a
\* cancellation is waiting (later versions raise CancelledError instead): the
\* cancellation is then lost.
ToolSucceeds(w) ==
    /\ wpc[w] = "running"
    /\ TaskReturns(w, "completed")

\* The executor turns every exception of a tool into a failed result, so this is
\* also how a tool that raises ends.
ToolFails(w) ==
    /\ wpc[w] = "running"
    /\ ~ShouldRetry(wjob[w])
    /\ TaskReturns(w, "failed")

ToolFailsAndRetries(w) ==
    /\ wpc[w] = "running"
    /\ ShouldRetry(wjob[w])
    /\ wpc' = [wpc EXCEPT ![w] = "backoff"]
    /\ taskCancel' = taskCancel \ {w}
    /\ UNCHANGED <<stopVars, jobVars, queueVars, starting, active, attempts, cancelAsked, wjob,
                   wcancel>>

ToolTimesOut(w) ==
    /\ wpc[w] = "running"
    /\ w \notin taskCancel
    /\ TaskReturns(w, "timed_out")

BackoffEnds(w) ==
    /\ wpc[w] = "backoff"
    /\ w \notin taskCancel
    /\ attempts' = [attempts EXCEPT ![wjob[w]] = @ + 1]
    /\ wpc' = [wpc EXCEPT ![w] = "running"]
    /\ UNCHANGED <<stopVars, jobVars, queueVars, starting, active, cancelAsked, wjob, taskCancel,
                   wcancel>>

\* Mutation: CancelledError passes through without the finally block.
CancelUnhandled(w) ==
    /\ wpc[w] \in {"running", "backoff"}
    /\ w \in taskCancel
    /\ wpc' = [wpc EXCEPT ![w] = "killed"]
    /\ taskCancel' = taskCancel \ {w}
    /\ gathered' = gathered \ {w}
    /\ UNCHANGED <<phase, jobVars, queueVars, starting, active, attempts, cancelAsked, wjob,
                   wcancel>>

CancelDelivered(w) ==
    /\ wpc[w] \in {"running", "backoff"}
    /\ w \in taskCancel
    /\ TaskReturns(w, "cancelled")

TaskStep(w) ==
    \/ Begin(w)
    \/ KilledBeforeBegin(w)
    \/ ToolSucceeds(w)
    \/ ToolFails(w)
    \/ ToolFailsAndRetries(w)
    \/ ToolTimesOut(w)
    \/ BackoffEnds(w)
    \/ CancelDelivered(w)

WorkerStep(w) ==
    \/ \E j \in Jobs : Take(w, j)
    \/ Park(w)
    \/ Resume(w)
    \/ WorkerCancelled(w)

-------------------------------------------------------------------------------
(* stop.                                                                   *)
Queued == {j \in jobs : status[j] = "queued"}

\* How many more finished records _jobs can hold before a finish prunes one.
Room == Retention - Cardinality({j \in jobs : status[j] \notin Live})

\* task.cancel() of every worker in _workers.  One that awaits a live inner
\* task hands the cancellation to that task and keeps none itself.
CancelWorkers ==
    /\ wcancel' = {w \in Workers : wpc[w] \notin TaskAlive \cup {"absent"}}
    /\ taskCancel' = {w \in Workers : wpc[w] \in TaskAlive}
    /\ gathered' = {}
    /\ phase' = "joining"

\* stop() while no inner task exists: the queued jobs are finished as cancelled
\* and the workers are cancelled, with no await before gather(*workers).
StopIdle ==
    /\ phase = "up"
    /\ Cardinality(Queued) <= Room
    /\ \A j \in Jobs : active[j] = NoWorker
    /\ Finish(Queued, "cancelled")
    /\ pending' = {}
    /\ CancelWorkers
    /\ UNCHANGED <<seq, submitted, starting, active, attempts, cancelAsked, wpc, wjob>>

\* Mutation: only tasks that have begun are asked to stop.
StopBusyBegunOnly ==
    /\ phase = "up"
    /\ Cardinality(Queued) <= Room
    /\ \E j \in Jobs : active[j] # NoWorker
    /\ Finish(Queued, "cancelled")
    /\ pending' = {}
    /\ taskCancel' = {w \in Workers : wpc[w] \in {"running", "backoff"}}
    /\ gathered' = {w \in Workers : wpc[w] \in TaskAlive}
    /\ phase' = "draining"
    /\ UNCHANGED <<seq, submitted, starting, active, attempts, cancelAsked, wpc, wjob, wcancel>>

\* stop() with inner tasks: each is asked to stop, and stop() awaits them all.
StopBusy ==
    /\ phase = "up"
    /\ Cardinality(Queued) <= Room
    /\ \E j \in Jobs : active[j] # NoWorker
    /\ Finish(Queued, "cancelled")
    /\ pending' = {}
    /\ taskCancel' = {w \in Workers : wpc[w] \in TaskAlive}
    /\ gathered' = {w \in Workers : wpc[w] \in TaskAlive}
    /\ phase' = "draining"
    /\ UNCHANGED <<seq, submitted, starting, active, attempts, cancelAsked, wpc, wjob, wcancel>>

\* stop() when one of its finishes prunes _jobs while it iterates over _jobs:
\* the iterator raises RuntimeError and stop() ends there, having finished one
\* job more than there was room for.
StopAborts ==
    /\ phase = "up"
    /\ Cardinality(Queued) > Room
    /\ Finish({j \in Queued : RankIn(Queued, j) <= Room + 1}, "cancelled")
    /\ phase' = "aborted"
    /\ UNCHANGED <<gathered, queueVars, starting, active, attempts, cancelAsked, workerVars>>

\* The tasks stop() awaited have all ended.
StopCancelsWorkers ==
    /\ phase = "draining"
    /\ gathered = {}
    /\ CancelWorkers
    /\ UNCHANGED <<jobVars, queueVars, starting, active, attempts, cancelAsked, wpc, wjob>>

\* gather(*workers) has returned.
StopEnds ==
    /\ phase = "joining"
    /\ \A w \in Workers : wpc[w] = "absent"
    /\ active' = [j \in Jobs |-> NoWorker]
    /\ starting' = {}
    /\ phase' = "stopped"
    /\ UNCHANGED <<gathered, jobVars, queueVars, attempts, cancelAsked, workerVars>>

StopBegin == StopIdle \/ StopBusy \/ StopAborts

-------------------------------------------------------------------------------

Init ==
    /\ phase = "new"
    /\ jobs = {}
    /\ status = [j \in Jobs |-> "new"]
    /\ pending = {}
    /\ seq = [j \in Jobs |-> 0]
    /\ submitted = 0
    /\ starting = {}
    /\ active = [j \in Jobs |-> NoWorker]
    /\ future = [j \in Jobs |-> "absent"]
    /\ attempts = [j \in Jobs |-> 0]
    /\ cancelAsked = [j \in Jobs |-> FALSE]
    /\ finishedAt = [j \in Jobs |-> 0]
    /\ clock = 0
    /\ wpc = [w \in Workers |-> "absent"]
    /\ wjob = [w \in Workers |-> NoJob]
    /\ taskCancel = {}
    /\ wcancel = {}
    /\ gathered = {}

\* Every step but cancel(), whose caller decides where it may interleave.
LoopNext ==
    \/ Start
    \/ StopBegin
    \/ StopCancelsWorkers
    \/ StopEnds
    \/ \E j \in Jobs : SubmitAccepted(j) \/ SubmitRejected(j)
    \/ \E w \in Workers : WorkerStep(w) \/ TaskStep(w)

\* cancel() called on the event loop, between two steps of the others.
Next == LoopNext \/ \E j \in Cancellable : Cancel(j)

Spec == Init /\ [][Next]_vars

\* asyncio runs every ready task, an attempt ends because wait_for has a timeout
\* and a backoff because sleep does.  Callers owe nothing.
Fairness ==
    /\ \A w \in Workers : WF_vars(WorkerStep(w)) /\ WF_vars(TaskStep(w))
    /\ WF_vars(StopCancelsWorkers \/ StopEnds)

FairSpec == Spec /\ Fairness
-------------------------------------------------------------------------------
(* Safety.                                                                 *)

\* The inner tasks that run the tool, or will when the loop reaches them.
Executing ==
    {w \in Workers : \/ wpc[w] \in {"running", "backoff"}
                     \/ wpc[w] = "created" /\ w \notin taskCancel}

ExecutingIn(S) == {w \in Executing : wjob[w] \in S}

\* stop() may abort in the middle of its first loop (StopAborts).  What follows
\* is what the scheduler guarantees in every run in which that does not happen.
Orderly == phase # "aborted"

\* Background work never occupies more workers than the policy leaves to it,
\* whatever cancels, retries, timeouts and shutdown do to the counts
\* _job_is_eligible_to_start works from.
BackgroundBound ==
    Orderly =>
        Cardinality(ExecutingIn({j \in Jobs : Lane[j] = "background"})) <= BackgroundLimit

\* No two jobs of a capped subsystem overlap beyond its cap: one approved
\* Discord dispatch, one software verification at a time.
CapRespected ==
    Orderly =>
        \A k \in DOMAIN CapLimit :
            CapLimit[k] > 0 =>
                Cardinality(ExecutingIn({j \in Jobs : CapKey[j] = k})) <= CapLimit[k]

\* A job is in the hands of one worker at most, and _active_tasks leads cancel()
\* and stop() to exactly that worker's task for as long as the worker holds it.
OneHolder ==
    /\ \A w \in Workers : wjob[w] # NoJob => active[wjob[w]] = w
    /\ \A j \in Jobs : active[j] # NoWorker => wjob[active[j]] = j

\* Whoever awaits a job's future is answered when the job ends and not before:
\* the future is unresolved exactly while the job is queued or running, and
\* pruning never takes the record of such a job.
FutureFollowsStatus ==
    Orderly => \A j \in Jobs : /\ future[j] = "pending" <=> status[j] \in Live
                               /\ status[j] \in Live => j \in jobs

\* The queue limit holds at every moment, jobs taken but not begun included.
QueueBounded == Cardinality(Queued) <= QueueSize

\* Jobs in _starting_job_ids that no worker will take out of it.
Leaked == {j \in starting : \A w \in Workers : wjob[w] # j}

\* Workers that are sure to come to their finally block, which notifies.
AboutToNotify ==
    {w \in Workers : \/ wpc[w] \in TaskEnded
                     \/ wpc[w] = "created" /\ w \in taskCancel}

\* No lost wakeup: a worker sleeps in _queue_condition.wait() while a job could
\* start only if another worker is on its way to notify_all().  An entry left in
\* _starting_job_ids by KilledBeforeBegin breaks it: when such a record is
\* pruned by cancel() or submit(), a cap opens and nobody is told.
NoLostWakeup ==
    Orderly /\ Leaked = {} /\ Selectable # {} /\ (\E w \in Workers : wpc[w] = "wait")
        => AboutToNotify # {}

\* A job that has ended stays ended: no late result, retry, cancel or shutdown
\* revives it or rewrites its outcome.
TerminalIsFinal ==
    [][Orderly' => \A j \in Jobs : status[j] \in Terminal => status'[j] = status[j]]_vars

\* A tool is not called again once its job's cancellation was asked for.
NoRetryAfterCancel ==
    [][\A j \in Jobs : attempts'[j] > attempts[j] /\ attempts[j] > 0 => ~cancelAsked[j]]_vars

\* The scheduler's view of each job is the life cycle promised to its callers.
\* stop() must not abort for it to hold: StopAborts revives ended jobs.
Lifecycle == INSTANCE JobLifecycle WITH answered <- {j \in Jobs : future[j] = "resolved"}

\* In runs in which no record is pruned during stop(), every step of the
\* scheduler is a step of the life cycle or leaves it alone.
ImplementsLifecycle == Lifecycle!Spec

-------------------------------------------------------------------------------
(* Liveness.                                                               *)

\* A running job reaches a terminal status, whatever its tool does.
StartedJobsFinish ==
    \A j \in Jobs : status[j] = "running" ~> status[j] \in Terminal

\* Every accepted job finishes if nobody cancels a job or stops the manager:
\* priorities, caps and the background limit delay a job and never starve it.
AcceptedJobsFinish ==
    \A j \in Jobs :
        (phase = "up" /\ status[j] = "queued") ~>
            \/ status[j] \in Terminal
            \/ \E k \in Jobs : cancelAsked[k]
            \/ phase # "up"

\* stop() has everything in hand: all live inner tasks are among those it
\* awaits, or it has already cancelled every worker.
StopOnTrack ==
    \/ /\ phase = "draining"
       /\ Queued = {}
       /\ \A w \in Workers : wpc[w] \in TaskAlive => w \in gathered
    \/ /\ phase = "joining"
       /\ \A w \in Workers : wpc[w] = "absent" \/ w \in wcancel

\* stop() returns, unless a job is submitted while it is under way: tasks that
\* swallow their cancellation, retries and dead workers do not hold it up.
StopReturns ==
    \A n \in 0..Cardinality(Jobs) :
        (StopOnTrack /\ submitted = n) ~> (phase = "stopped" \/ submitted > n)

-------------------------------------------------------------------------------
(* Claims of the repository's tests that the code does not keep.           *)

\* tests/test_job_manager.py:115 cancels a job it does not know to be running,
\* is told True, and then waits for it: a cancel that was accepted ends the job.
CancelHonoured ==
    \A j \in Jobs : (cancelAsked[j] /\ status[j] \in Live) ~> status[j] \in Terminal

\* tests/test_latency_l45_scheduler_hardening.py:321 stops a manager whose job is
\* running and asserts at :330 that this job is then cancelled: when stop() is over,
\* returned or raised, none of the jobs it found running is left running.
StopSettles ==
    [][(phase # phase' /\ phase' \in {"stopped", "aborted"}) =>
           \A j \in Jobs : status[j] = "running" => status'[j] # "running"]_vars
=============================================================================
