----------------------------- MODULE DurableTasks -----------------------------
(***************************************************************************)
(* One durable task, core/tasks/service.py over core/tasks/repository.py,  *)
(* beside the jobs that carry out its steps.  Every operation of the       *)
(* service reads the whole task, changes the copy, refreshes what is       *)
(* derived from it and writes all of it back; nothing compares versions.   *)
(* On the event loop this is one step.  Server threads do the same: the    *)
(* snapshot and status endpoints (a refresh alone) and cancel(), and there *)
(* the read and the write are two steps.                                   *)
(*                                                                         *)
(* The jobs are those of JobLifecycle, the specification JobManager        *)
(* implements; the scheduler tells the service of each change and swallows *)
(* its exceptions.  The task is in the database, the jobs are not.         *)
(***************************************************************************)
EXTENDS Integers, FiniteSets

CONSTANTS
    N,          \* steps of the task
    Jobs,
    Outcomes,   \* how a job that runs may end
    MaxFaults   \* bound on lost notifications, refreshes by threads, cancels that
                \* write a stale task, replays and restarts

ASSUME TasksAssumption ==
    /\ N \in Nat \ {0}
    /\ Outcomes \subseteq {"completed", "failed", "cancelled", "timed_out"}
    /\ MaxFaults \in Nat

VARIABLES
    task,      \* the rows of the task
    todo,      \* steps the current request has still to submit as jobs
    job,       \* status of each job in the scheduler; "gone" with its process
    answered,  \* the jobs whose submitter has been answered
    stepOf,    \* task_step_id of each job, 0 before it is submitted
    thread,    \* what a server thread is about to write, NoCopy if nothing
    faults,    \* how many of these there were
    succeeded, \* history: the jobs whose tool succeeded,
    reported,  \* the steps the assistant ran itself and reported as done,
    lost       \* and the jobs whose end the record has missed or forgotten

jobVars == <<job, answered, stepOf>>
history == <<succeeded, reported, lost>>
vars == <<task, todo, jobVars, thread, faults, history>>

Steps == 1..N

ActiveStates  == {"pending", "ready", "queued", "in_progress", "blocked"}
StepStates    == ActiveStates \cup {"completed", "failed"}
LiveStates    == {"queued", "in_progress"}
EndStatuses   == {"completed", "failed", "cancelled", "timed_out"}
LinkStatuses  == {"none"} \cup LiveStates \cup EndStatuses
JobStatuses   == {"new", "queued", "running", "gone"} \cup EndStatuses

\* An open blocker; step 0 stands for the empty step id.
Blocker == [step : 0..N, kind : {"recovery", "approval"}]

Task == [steps : [Steps -> StepStates], active : 0..N, blockers : SUBSET Blocker,
         links : [Jobs -> LinkStatuses]]

NoCopy == [op |-> "none"]

TypeOK ==
    /\ task \in Task
    /\ todo \in SUBSET Steps
    /\ job \in [Jobs -> JobStatuses]
    /\ answered \in SUBSET Jobs
    /\ stepOf \in [Jobs -> 0..N]
    /\ thread \in {NoCopy} \cup [op : {"refresh", "cancel"}, read : Task, write : Task]
    /\ faults \in 0..MaxFaults
    /\ succeeded \in SUBSET Jobs
    /\ reported \in SUBSET Steps
    /\ lost \in SUBSET Jobs

Scheduler == INSTANCE JobLifecycle WITH status <- job

-------------------------------------------------------------------------------
(* Operations on a copy of the task.                                       *)

First(S) == CHOOSE s \in S : \A r \in S : s <= r

\* The step the task is at: the one it was at, else the first that is not over.
Current(t) ==
    LET open == {s \in Steps : t.steps[s] \in ActiveStates}
    IN  IF t.active # 0 THEN t.active ELSE IF open # {} THEN First(open) ELSE N

\* _refresh_task, as far as it is kept in the rows; the rest of it is TaskState.
Refresh(t) ==
    [t EXCEPT !.active = IF t.steps[Current(t)] \in ActiveStates THEN Current(t) ELSE 0]

\* "done" is completed, or verification while a checkpoint waits for it.
TaskState(t) ==
    LET Has(S) == \E s \in Steps : t.steps[s] \in S
    IN  CASE t.blockers # {} \/ Has({"blocked"})            -> "blocked"
          [] ~(t.blockers # {} \/ Has({"blocked"})) /\ Has({"failed"}) -> "failed"
          [] t.blockers = {} /\ ~Has({"blocked", "failed"}) ->
                IF Has(LiveStates) THEN "in_progress"
                ELSE IF \A s \in Steps : t.steps[s] = "completed" THEN "done"
                ELSE IF Has({"completed"}) THEN "paused" ELSE "planned"

\* Mutation: a job that timed out has no rank of its own.
RankNoTimeout(status) ==
    CASE status \in {"none", "timed_out"} -> 0
      [] status = "queued" -> 2
      [] status = "in_progress" -> 3
      [] status \in EndStatuses \ {"timed_out"} -> 5

Rank(status) ==
    CASE status = "none" -> 0
      [] status = "queued" -> 2
      [] status = "in_progress" -> 3
      [] status \in EndStatuses -> 5

\* Mutation: a job that has ended is told apart by its rank alone.
ShouldApplyByRank(t, j, incoming, repeats) ==
    \/ Rank(incoming) > Rank(t.links[j])
    \/ Rank(incoming) = Rank(t.links[j]) /\ (repeats \/ incoming \in EndStatuses)


\* _should_apply_job_event
ShouldApply(t, j, incoming, repeats) ==
    /\ t.links[j] \notin EndStatuses
    /\ \/ Rank(incoming) > Rank(t.links[j])
       \/ Rank(incoming) = Rank(t.links[j]) /\ repeats

\* on_job_queued, on_job_started and on_job_progress
Moved(t, j, s, incoming, repeats) ==
    IF ShouldApply(t, j, incoming, repeats)
    THEN Refresh([t EXCEPT !.steps[s] = incoming, !.links[j] = incoming])
    ELSE t

\* Mutation: a finished step keeps the blockers it had.
OpenForAll(t, s) == t.blockers

\* What _resolve_blockers_for_step leaves open.
OpenFor(t, s) == {b \in t.blockers : b.step # s}

Recovery(s) == [step |-> s, kind |-> "recovery"]

\* Mutation: an interrupted job counts as a success.
StepAfterInterruption(outcome) == IF outcome = "failed" THEN "failed" ELSE "completed"

\* Mutation: the step takes over the status of the job.
StepAfterVerbatim(outcome) == outcome

StepAfter(outcome) ==
    CASE outcome = "completed"                   -> "completed"
      [] outcome = "failed"                      -> "failed"
      [] outcome \in {"cancelled", "timed_out"}  -> "blocked"

\* on_job_finished
Finished(t, j, s, outcome) ==
    IF ShouldApply(t, j, outcome, FALSE)
    THEN Refresh([t EXCEPT
             !.steps[s] = StepAfter(outcome),
             !.links[j] = outcome,
             !.blockers = OpenFor(t, s) \cup (IF outcome = "completed" THEN {} ELSE {Recovery(s)})])
    ELSE t

\* record_direct_tool_result of a success
Recorded(t, s) ==
    Refresh([t EXCEPT !.steps[s] = "completed",
                      !.blockers = OpenFor(t, s)])

\* record_trust_pending and record_trust_denied leave one open approval blocker,
\* on the step the task is at.
Waiting(t) ==
    Refresh([t EXCEPT !.blockers =
                 IF \E b \in @ : b.kind = "approval"
                 THEN @
                 ELSE @ \cup {[step |-> t.active, kind |-> "approval"]}])

\* record_trust_granted
Granted(t) == Refresh([t EXCEPT !.blockers = {b \in @ : b.kind # "approval"}])

\* trust_binding_status may be valid: a task that is done is, when it is still to
\* be verified.
BindingValid(t) == TaskState(t) # "failed"

-------------------------------------------------------------------------------
(* The event loop.                                                         *)

Unused == {j \in Jobs : job[j] = "new"}

\* begin_execution of a prompt that continues the task or repeats its request:
\* the step ids are handed out again, from the first, whatever state they are in.
BeginAgain(k) ==
    /\ todo = {}
    /\ k <= Cardinality(Unused)
    /\ task' = Refresh(task)
    /\ todo' = 1..k
    /\ UNCHANGED <<jobVars, thread, faults, history>>

\* The same for a prompt the assistant answers itself: it calls the workspace service
\* for each step and records success=True whatever the call says of itself, also of
\* one that found nothing to do it to or could only ask back.  It is one go: a thread
\* that reads the task half-way reads what a shorter prompt leaves.
AnswerItself(k) ==
    LET after[i \in 0..k] == IF i = 0 THEN Refresh(task) ELSE Recorded(after[i - 1], i)
    IN  /\ todo = {}
        /\ task' = after[k]
        /\ reported' = reported \cup 1..k
        /\ UNCHANGED <<todo, jobVars, thread, faults, succeeded, lost>>

\* _notify_observer: the service writes `now`, or raises and nobody is told.
Told(now) ==
    \/ task' = now /\ UNCHANGED faults
    \/ task' = task /\ faults < MaxFaults /\ faults' = faults + 1

Succeeds(j, outcome) ==
    succeeded' = IF outcome = "completed" THEN succeeded \cup {j} ELSE succeeded

\* submit() raises before it has made a job: the other steps go on without.
SubmitRaises(s) ==
    /\ s \in todo
    /\ todo' = todo \ {s}
    /\ UNCHANGED <<task, jobVars, thread, faults, history>>

\* submit(): the service is told before the queue limit is looked at.  Job ids are
\* made afresh, so which of the unused ones is taken makes no difference.
Fresh == CHOOSE j \in Unused : TRUE

Submit(j, s) ==
    /\ s \in todo /\ j = Fresh
    /\ Scheduler!Accept(j)
    /\ todo' = todo \ {s}
    /\ stepOf' = [stepOf EXCEPT ![j] = s]
    /\ Told(Moved(task, j, s, "queued", FALSE))
    /\ UNCHANGED <<thread, history>>

SubmitRefused(j, s) ==
    /\ s \in todo /\ j = Fresh
    /\ Scheduler!Refuse(j)
    /\ todo' = todo \ {s}
    /\ stepOf' = [stepOf EXCEPT ![j] = s]
    /\ task' = Finished(Moved(task, j, s, "queued", FALSE), j, s, "failed")
    /\ UNCHANGED <<thread, faults, history>>

Start(j) ==
    /\ Scheduler!Begin(j)
    /\ Told(Moved(task, j, stepOf[j], "in_progress", FALSE))
    /\ UNCHANGED <<todo, stepOf, thread, history>>

\* Progress reaches a job that is queued or running; a job whose start was lost
\* is shown as running by it.
Progress(j) ==
    /\ job[j] \in {"queued", "running"}
    /\ task' = Moved(task, j, stepOf[j], "in_progress", TRUE)
    /\ UNCHANGED <<todo, jobVars, thread, faults, history>>

Finish(j, outcome) ==
    /\ Scheduler!End(j, outcome)
    /\ Told(Finished(task, j, stepOf[j], outcome))
    /\ lost' = IF faults' = faults THEN lost ELSE lost \cup {j}
    /\ Succeeds(j, outcome)
    /\ UNCHANGED <<todo, stepOf, thread, reported>>

\* A queued job that was cancelled from a thread may start all the same
\* (JobManagerThreaded): its start and its end are told after its end.
ReplayStart(j) ==
    /\ job[j] = "cancelled" /\ faults < MaxFaults
    /\ faults' = faults + 1
    /\ task' = Moved(task, j, stepOf[j], "in_progress", FALSE)
    /\ UNCHANGED <<todo, jobVars, thread, history>>

ReplayFinish(j, outcome) ==
    /\ job[j] = "cancelled" /\ faults < MaxFaults
    /\ faults' = faults + 1
    /\ task' = Finished(task, j, stepOf[j], outcome)
    /\ Succeeds(j, outcome)
    /\ UNCHANGED <<todo, jobVars, thread, reported, lost>>

\* evaluate_action and respond_to_request for a request bound to the task: they
\* ask for the binding, which refreshes the task, and report what was decided.  A
\* prompt may be answered long after its blocker is gone; when it expires the
\* task is not told.
AskOrDeny ==
    /\ BindingValid(task)
    /\ task' = Waiting(Refresh(task))
    /\ UNCHANGED <<todo, jobVars, thread, faults, history>>

Approve ==
    /\ BindingValid(task)
    /\ task' = Granted(Refresh(task))
    /\ UNCHANGED <<todo, jobVars, thread, faults, history>>

\* active_task_summary and trust_binding_status for a chat on the event loop.
Summarise ==
    /\ task' = Refresh(task)
    /\ UNCHANGED <<todo, jobVars, thread, faults, history>>

-------------------------------------------------------------------------------
(* Server threads, one at a time, and the end of the process.              *)

\* GET /snapshot and the status endpoints read the task ...
ThreadReads ==
    /\ thread = NoCopy /\ faults < MaxFaults
    /\ faults' = faults + 1
    /\ thread' = [op |-> "refresh", read |-> task, write |-> Refresh(task)]
    /\ UNCHANGED <<task, todo, jobVars, history>>

\* ... and so does cancel() of a queued job, when it finalises it.
ThreadCancels(j) ==
    /\ thread = NoCopy
    /\ Scheduler!Withdraw({j})
    /\ thread' = [op |-> "cancel", read |-> task,
                  write |-> Finished(task, j, stepOf[j], "cancelled")]
    /\ UNCHANGED <<task, todo, stepOf, faults, history>>

\* The end of job j is on record.
Ended(t, j) == t.links[j] \in EndStatuses

\* The task has changed since the thread read it.
Overtaken == thread # NoCopy /\ task # thread.read

\* save_task: the copy replaces the rows, whatever they have become.
ThreadWrites ==
    /\ thread # NoCopy
    /\ task' = thread.write
    /\ thread' = NoCopy
    /\ IF Overtaken /\ thread.op = "cancel" THEN faults < MaxFaults /\ faults' = faults + 1 ELSE UNCHANGED faults
    /\ lost' = lost \cup {j \in Jobs : Ended(task, j) /\ ~Ended(thread.write, j)}
    /\ UNCHANGED <<todo, jobVars, succeeded, reported>>

\* The core ends and is started again: the rows survive alone.
Restart ==
    /\ faults < MaxFaults
    /\ faults' = faults + 1
    /\ job' = [j \in Jobs |-> IF job[j] \in {"queued", "running"} THEN "gone" ELSE job[j]]
    /\ todo' = {} /\ thread' = NoCopy
    /\ lost' = lost \cup {j \in Jobs : stepOf[j] # 0 /\ ~Ended(task, j)}
    /\ UNCHANGED <<task, answered, stepOf, succeeded, reported>>

-------------------------------------------------------------------------------

\* begin_execution has stored a new task, and all its steps are to be submitted, or
\* none because the assistant answers itself.
Init ==
    /\ task = Refresh([steps    |-> [s \in Steps |-> IF s = 1 THEN "ready" ELSE "pending"],
                       active   |-> 0,
                       blockers |-> {},
                       links    |-> [j \in Jobs |-> "none"]])
    /\ todo \in {Steps, {}}
    /\ job = [j \in Jobs |-> "new"] /\ answered = {} /\ stepOf = [j \in Jobs |-> 0]
    /\ thread = NoCopy
    /\ faults = 0
    /\ succeeded = {} /\ reported = {} /\ lost = {}

JobStep(j) ==
    \/ Start(j)
    \/ Progress(j)
    \/ \E outcome \in Outcomes : Finish(j, outcome)
    \/ ReplayStart(j)
    \/ \E outcome \in Outcomes : ReplayFinish(j, outcome)
    \/ ThreadCancels(j)

Next ==
    \/ \E k \in Steps : BeginAgain(k) \/ AnswerItself(k)
    \/ \E j \in Jobs, s \in Steps : Submit(j, s) \/ SubmitRefused(j, s)
    \/ \E s \in Steps : SubmitRaises(s)
    \/ \E j \in Jobs : JobStep(j)
    \/ AskOrDeny \/ Approve
    \/ Summarise
    \/ ThreadReads \/ ThreadWrites
    \/ Restart

Spec == Init /\ [][Next]_vars

\* Jobs that were accepted start and end (AcceptedJobsFinish and
\* StartedJobsFinish of JobManager), and a thread that has read writes.
FairSpec ==
    /\ Spec
    /\ \A j \in Jobs : /\ WF_vars(Start(j))
                       /\ WF_vars(\E o \in Outcomes : Finish(j, o))
    /\ WF_vars(ThreadWrites)

-------------------------------------------------------------------------------
(* Properties.                                                             *)

\* A step shown as completed has a job whose tool did succeed and whose success is
\* on record, or was reported by the assistant itself: no repeated request, cancel,
\* lost or replayed notification and no version written late makes a success of an
\* interruption, or parts a completion from the job it came from.
SuccessIsBacked ==
    \A s \in Steps : task.steps[s] = "completed" =>
        s \in reported \/ \E j \in succeeded : stepOf[j] = s /\ task.links[j] = "completed"

\* The end of job j may still reach the record: the job goes on, or a thread is
\* about to write its end.
EndToCome(j) ==
    \/ job[j] \in {"queued", "running"}
    \/ thread # NoCopy /\ Ended(thread.write, j)

\* A step shown as queued or running has a job of its own, on record as not over, whose
\* end is still to come; if not, this very job's end was lost in one of three ways: its
\* notification was swallowed, the core died, or a thread wrote an older version over
\* it.  A loss never reaches the steps of other jobs, and nothing else loses an end.
LiveStepHasLiveJob ==
    \A s \in Steps : task.steps[s] \in LiveStates =>
        \E j \in Jobs : /\ stepOf[j] = s
                       /\ task.links[j] \in LiveStates
                       /\ (EndToCome(j) \/ j \in lost)

\* The reason why a task stands still is on record with it: for as long as a step is
\* shown as failed or interrupted its recovery blocker is open, and while it is shown
\* as completed no open blocker names it, whichever of its jobs, or the assistant,
\* moved it last.
BlockersMatchSteps ==
    \A s \in Steps :
        /\ task.steps[s] \in {"failed", "blocked"} => Recovery(s) \in task.blockers
        /\ task.steps[s] = "completed" => \A b \in task.blockers : b.step # s

\* "tolerates replayed and out of order job events" (tests/test_task_graph.py:533):
\* what a task has recorded of a job never goes back, unless a server thread
\* writes a version of the task that it read before.
RecordMovesForward ==
    [][\A j \in Jobs :
           \/ Rank(task'.links[j]) >= Rank(task.links[j])
                  /\ (task.links[j] \in EndStatuses => task'.links[j] = task.links[j])
           \/ Overtaken /\ task' = thread.write]_vars

===============================================================================
