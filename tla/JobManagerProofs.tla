--------------------------- MODULE JobManagerProofs ---------------------------
(***************************************************************************)
(* Theorems about the scheduler, for every number of jobs and workers and  *)
(* every policy.  Each safety property has an inductive strengthening that *)
(* says where the job of a worker is; the proof that a step preserves it   *)
(* has one step per action.                                                *)
(***************************************************************************)
EXTENDS JobManager, FiniteSetTheorems, TLAPS

-------------------------------------------------------------------------------
(* Types.                                                                  *)

\* Finishing any finite set of jobs keeps the job variables in their types.
LEMMA FinishTyped ==
    ASSUME TypeOK, NEW S, IsFiniteSet(S), NEW outcome \in Statuses, Finish(S, outcome)
    PROVE  /\ jobs' \in SUBSET Jobs
           /\ status' \in [Jobs -> Statuses]
           /\ future' \in [Jobs -> {"absent", "pending", "resolved"}]
           /\ finishedAt' \in [Jobs -> Nat]
           /\ clock' \in Nat
<1>1. Cardinality(S) \in Nat
    BY FS_CardinalityType
<1>2. \A j : RankIn(S, j) \in Nat
    <2> SUFFICES ASSUME NEW j PROVE RankIn(S, j) \in Nat
        OBVIOUS
    <2>1. {k \in S : seq[k] <= seq[j]} \in SUBSET S
        OBVIOUS
    <2> QED
        BY <2>1, FS_Subset, FS_CardinalityType DEF RankIn
<1> QED
    BY <1>1, <1>2 DEF TypeOK, Finish

\* The jobs stop() withdraws are finitely many.
LEMMA QueuedFinite ==
    ASSUME TypeOK
    PROVE  /\ IsFiniteSet(Queued)
           /\ \A S \in SUBSET Queued : IsFiniteSet(S)
<1>1. Queued \in SUBSET Jobs
    BY DEF Queued, TypeOK
<1> QED
    BY <1>1, FS_Subset, SchedulerAssumption

LEMMA OneMoreAttempt ==
    ASSUME TypeOK, NEW j, attempts' = [attempts EXCEPT ![j] = @ + 1]
    PROVE  attempts' \in [Jobs -> Nat]
<1>1. attempts \in [Jobs -> Nat]
    BY DEF TypeOK
<1>2. ASSUME NEW k \in Jobs
      PROVE  attempts'[k] \in Nat
    BY <1>1, <1>2
<1> QED
    BY <1>1, <1>2

LEMMA InitTyped == Init => TypeOK
    BY SchedulerAssumption
    DEF Init, TypeOK, Phases, Statuses, WorkerStates

\* Every step keeps every variable in its type.
LEMMA TypePreserved ==
    ASSUME TypeOK, [Next]_vars
    PROVE  TypeOK'
<1> USE DEF Statuses, Phases, WorkerStates, TaskAlive, TaskEnded,
            jobVars, queueVars, workerVars, stopVars
<1>1. CASE Start
    BY <1>1 DEF Start, TypeOK
<1>2. ASSUME NEW j \in Jobs, SubmitAccepted(j)
      PROVE  TypeOK'
    BY <1>2 DEF SubmitAccepted, TypeOK, Notified
<1>3. ASSUME NEW j \in Jobs, SubmitRejected(j)
      PROVE  TypeOK'
    BY <1>3 DEF SubmitRejected, TypeOK
<1>4. ASSUME NEW j \in Jobs, CancelActive(j)
      PROVE  TypeOK'
    BY <1>4 DEF CancelActive, CancelTaskOf, TypeOK
<1>5. ASSUME NEW j \in Jobs, CancelQueued(j)
      PROVE  TypeOK'
    BY <1>5, FinishTyped, FS_Singleton DEF CancelQueued, TypeOK
<1>6. ASSUME NEW j \in Jobs, CancelTooLate(j)
      PROVE  TypeOK'
    BY <1>6 DEF CancelTooLate, TypeOK
<1>7. ASSUME NEW w \in Workers, NEW j \in Jobs, Take(w, j)
      PROVE  TypeOK'
    BY <1>7 DEF Take, TypeOK
<1>8. ASSUME NEW w \in Workers, Park(w)
      PROVE  TypeOK'
    BY <1>8 DEF Park, TypeOK
<1>9. ASSUME NEW w \in Workers, Resume(w)
      PROVE  TypeOK'
    BY <1>9 DEF Resume, TypeOK, Notified
<1>10. ASSUME NEW w \in Workers, WorkerCancelled(w)
       PROVE  TypeOK'
    BY <1>10 DEF WorkerCancelled, TypeOK
<1>11. ASSUME NEW w \in Workers, Begin(w)
       PROVE  TypeOK'
    <2>1. attempts' \in [Jobs -> Nat]
        BY <1>11, OneMoreAttempt DEF Begin
    <2>2. status' \in [Jobs -> Statuses]
        BY <1>11 DEF Begin, TypeOK
    <2> QED
        BY <1>11, <2>1, <2>2 DEF Begin, TypeOK
<1>12. ASSUME NEW w \in Workers, KilledBeforeBegin(w)
       PROVE  TypeOK'
    BY <1>12 DEF KilledBeforeBegin, TypeOK
<1>13. ASSUME NEW w \in Workers, NEW outcome \in Terminal, TaskReturns(w, outcome)
       PROVE  TypeOK'
    BY <1>13, FinishTyped, FS_Singleton DEF TaskReturns, TypeOK, Terminal
<1>14. ASSUME NEW w \in Workers, ToolFailsAndRetries(w)
       PROVE  TypeOK'
    BY <1>14 DEF ToolFailsAndRetries, TypeOK
<1>15. ASSUME NEW w \in Workers, BackoffEnds(w)
       PROVE  TypeOK'
    <2>1. attempts' \in [Jobs -> Nat]
        BY <1>15, OneMoreAttempt DEF BackoffEnds
    <2> QED
        BY <1>15, <2>1 DEF BackoffEnds, TypeOK
<1>16. CASE StopIdle
    BY <1>16, FinishTyped, QueuedFinite DEF StopIdle, CancelWorkers, TypeOK
<1>17. CASE StopBusy
    BY <1>17, FinishTyped, QueuedFinite DEF StopBusy, TypeOK
<1>18. CASE StopAborts
    <2>1. {j \in Queued : RankIn(Queued, j) <= Room + 1} \in SUBSET Queued
        OBVIOUS
    <2> QED
        BY <1>18, <2>1, FinishTyped, QueuedFinite DEF StopAborts, TypeOK
<1>19. CASE StopCancelsWorkers
    BY <1>19 DEF StopCancelsWorkers, CancelWorkers, TypeOK
<1>20. CASE StopEnds
    BY <1>20 DEF StopEnds, TypeOK
<1>21. CASE UNCHANGED vars
    BY <1>21 DEF vars, TypeOK
<1> QED
    BY <1>1, <1>2, <1>3, <1>4, <1>5, <1>6, <1>7, <1>8, <1>9, <1>10, <1>11, <1>12, <1>13,
       <1>14, <1>15, <1>16, <1>17, <1>18, <1>19, <1>20, <1>21, SchedulerAssumption
    DEF Next, LoopNext, Cancel, StopBegin, WorkerStep, TaskStep, ToolSucceeds, ToolFails,
        ToolTimesOut, CancelDelivered, Terminal

\* The variables of the scheduler stay in their types in every behaviour.
THEOREM TypeCorrect == Spec => []TypeOK
<1>1. TypeOK /\ [Next]_vars => TypeOK'
    BY TypePreserved
<1> QED
    BY InitTyped, <1>1, PTL DEF Spec

-------------------------------------------------------------------------------
(* Where the job of a worker is.                                           *)

\* A worker holds a job exactly while it has an inner task, and a job that is
\* new or waits in the queue is in nobody's hands.  No worker exists before
\* start(), and no future before submit().
Holder ==
    /\ phase = "new" => \A w \in Workers : wpc[w] = "absent"
    /\ \A w \in Workers : wjob[w] # NoJob <=> wpc[w] \in TaskAlive \cup TaskEnded
    /\ \A j \in Jobs : j \in pending \/ status[j] = "new" => active[j] = NoWorker
    /\ \A j \in Jobs : status[j] = "new" => future[j] = "absent"

\* The status of the job in a worker's hands.
Progress ==
    \A w \in Workers :
        /\ wpc[w] = "created" /\ w \notin taskCancel => status[wjob[w]] = "queued"
        /\ wpc[w] \in {"running", "backoff"} => status[wjob[w]] = "running"

\* Attempts are counted by the worker that holds the job, and a cancellation
\* asked of a job in backoff has reached its task.
Attempting ==
    /\ \A j \in Jobs : j \in pending \/ status[j] = "new" => attempts[j] = 0
    /\ \A w \in Workers :
           /\ wpc[w] = "created" => attempts[wjob[w]] = 0
           /\ wpc[w] = "backoff" /\ cancelAsked[wjob[w]] => w \in taskCancel

HolderInv == TypeOK /\ Holder /\ OneHolder

AnswerInv == HolderInv /\ (Orderly => Progress) /\ FutureFollowsStatus

AttemptInv == HolderInv /\ Attempting

\* Finishing jobs touches no worker, and makes none new.
LEMMA FinishStatus ==
    ASSUME TypeOK, NEW S, NEW outcome \in Terminal, Finish(S, outcome)
    PROVE  \A j \in Jobs : /\ status'[j] = IF j \in S THEN outcome ELSE status[j]
                           /\ j \notin S => future'[j] = future[j]
BY DEF Finish, TypeOK

LEMMA InitHolder == Init => Holder /\ OneHolder
BY SchedulerAssumption DEF Init, Holder, OneHolder, TaskAlive, TaskEnded

LEMMA HolderPreserved ==
    ASSUME HolderInv, [Next]_vars
    PROVE  Holder' /\ OneHolder'
<1> USE SchedulerAssumption
    DEF HolderInv, Holder, OneHolder, TypeOK, TaskAlive, TaskEnded, Terminal, Statuses,
        WorkerStates, jobVars, queueVars, workerVars, stopVars
<1>1. CASE Start
    BY <1>1 DEF Start
<1>2. ASSUME NEW j \in Jobs, SubmitAccepted(j)
      PROVE  Holder' /\ OneHolder'
    BY <1>2 DEF SubmitAccepted, Notified
<1>3. ASSUME NEW j \in Jobs, SubmitRejected(j)
      PROVE  Holder' /\ OneHolder'
    BY <1>3 DEF SubmitRejected
<1>4. ASSUME NEW j \in Jobs, CancelActive(j)
      PROVE  Holder' /\ OneHolder'
    BY <1>4 DEF CancelActive
<1>5. ASSUME NEW j \in Jobs, CancelQueued(j)
      PROVE  Holder' /\ OneHolder'
    BY <1>5, FinishStatus DEF CancelQueued
<1>6. ASSUME NEW j \in Jobs, CancelTooLate(j)
      PROVE  Holder' /\ OneHolder'
    BY <1>6 DEF CancelTooLate
<1>7. ASSUME NEW w \in Workers, NEW j \in Jobs, Take(w, j)
      PROVE  Holder' /\ OneHolder'
    <2>1. j \in pending /\ active[j] = NoWorker /\ status[j] = "queued" /\ wjob[w] = NoJob
        BY <1>7 DEF Take, Selectable
    <2>2. Holder'
        BY <1>7, <2>1 DEF Take
    <2>3. ASSUME NEW v \in Workers, wjob'[v] # NoJob
          PROVE  active'[wjob'[v]] = v
        BY <1>7, <2>1, <2>3 DEF Take
    <2>4. ASSUME NEW k \in Jobs, active'[k] # NoWorker
          PROVE  wjob'[active'[k]] = k
        BY <1>7, <2>1, <2>4 DEF Take
    <2> QED
        BY <2>2, <2>3, <2>4
<1>8. ASSUME NEW w \in Workers, Park(w)
      PROVE  Holder' /\ OneHolder'
    BY <1>8 DEF Park
<1>9. ASSUME NEW w \in Workers, Resume(w)
      PROVE  Holder' /\ OneHolder'
    BY <1>9 DEF Resume, Notified
<1>10. ASSUME NEW w \in Workers, WorkerCancelled(w)
       PROVE  Holder' /\ OneHolder'
    BY <1>10 DEF WorkerCancelled
<1>11. ASSUME NEW w \in Workers, Begin(w)
       PROVE  Holder' /\ OneHolder'
    BY <1>11 DEF Begin
<1>12. ASSUME NEW w \in Workers, KilledBeforeBegin(w)
       PROVE  Holder' /\ OneHolder'
    BY <1>12 DEF KilledBeforeBegin
<1>13. ASSUME NEW w \in Workers, wpc[w] \in {"running", "backoff"},
              NEW outcome \in Terminal, TaskReturns(w, outcome)
       PROVE  Holder' /\ OneHolder'
    BY <1>13, FinishStatus DEF TaskReturns
<1>14. ASSUME NEW w \in Workers, ToolFailsAndRetries(w)
       PROVE  Holder' /\ OneHolder'
    BY <1>14 DEF ToolFailsAndRetries
<1>15. ASSUME NEW w \in Workers, BackoffEnds(w)
       PROVE  Holder' /\ OneHolder'
    BY <1>15 DEF BackoffEnds
<1>16. CASE StopIdle
    BY <1>16, FinishStatus DEF StopIdle, CancelWorkers, Queued
<1>17. CASE StopBusy
    BY <1>17, FinishStatus DEF StopBusy, Queued
<1>18. CASE StopAborts
    BY <1>18, FinishStatus DEF StopAborts, Queued
<1>19. CASE StopCancelsWorkers
    BY <1>19 DEF StopCancelsWorkers, CancelWorkers
<1>20. CASE StopEnds
    BY <1>20 DEF StopEnds
<1>21. CASE UNCHANGED vars
    BY <1>21 DEF vars
<1> QED
    BY <1>1, <1>2, <1>3, <1>4, <1>5, <1>6, <1>7, <1>8, <1>9, <1>10, <1>11, <1>12, <1>13,
       <1>14, <1>15, <1>16, <1>17, <1>18, <1>19, <1>20, <1>21
    DEF Next, LoopNext, Cancel, StopBegin, WorkerStep, TaskStep, ToolSucceeds, ToolFails,
        ToolTimesOut, CancelDelivered

LEMMA HolderInvariant == Spec => []HolderInv
<1>1. Init => HolderInv
    BY InitTyped, InitHolder DEF HolderInv
<1>2. HolderInv /\ [Next]_vars => HolderInv'
    BY TypePreserved, HolderPreserved DEF HolderInv
<1> QED
    BY <1>1, <1>2, PTL DEF Spec

\* A job is in the hands of one worker at most, and _active_tasks leads cancel()
\* and stop() to that worker's task.
THEOREM HeldByOne == Spec => []OneHolder
BY HolderInvariant, PTL DEF HolderInv

-------------------------------------------------------------------------------
(* Status, outcome and answer of a job.                                    *)

\* Nothing undoes the abort of a stop().
LEMMA OrderlyBefore ==
    ASSUME [Next]_vars, Orderly'
    PROVE  Orderly
BY DEF Orderly, Next, LoopNext, Start, StopBegin, StopIdle, StopBusy, StopAborts,
       StopCancelsWorkers, StopEnds, CancelWorkers, SubmitAccepted, SubmitRejected,
       WorkerStep, Take, Park, Resume, WorkerCancelled, TaskStep, Begin, KilledBeforeBegin,
       ToolSucceeds, ToolFails, ToolFailsAndRetries, ToolTimesOut, BackoffEnds,
       CancelDelivered, TaskReturns, Cancel, CancelActive, CancelQueued, CancelTooLate,
       stopVars, vars

\* Finishing jobs answers them, and prunes no record of a live job.
LEMMA FinishAnswers ==
    ASSUME TypeOK, NEW S, NEW outcome \in Terminal, Finish(S, outcome),
           NEW j \in Jobs, future[j] = "pending" <=> status[j] \in Live,
           status[j] \in Live => j \in jobs
    PROVE  /\ future'[j] = "pending" <=> status'[j] \in Live
           /\ status'[j] \in Live => j \in jobs'
<1>1. status'[j] \in Live => j \notin Prunable(jobs, status', finishedAt')
    BY DEF Prunable
<1> QED
    BY <1>1 DEF Finish, TypeOK, Terminal, Live

LEMMA InitAnswer == Init => Progress /\ FutureFollowsStatus
BY DEF Init, Progress, FutureFollowsStatus, Live

LEMMA AnswerPreserved ==
    ASSUME HolderInv, Progress, FutureFollowsStatus, [Next]_vars, Orderly'
    PROVE  Progress' /\ FutureFollowsStatus'
<1> DEFINE Answered(j) == /\ future[j] = "pending" <=> status[j] \in Live
                          /\ status[j] \in Live => j \in jobs
<1>0. \A j \in Jobs : Answered(j)
    BY OrderlyBefore DEF FutureFollowsStatus
<1>f. ASSUME NEW S, NEW outcome \in Terminal, Finish(S, outcome)
      PROVE  \A j \in Jobs : Answered(j)'
    BY <1>0, <1>f, FinishAnswers DEF HolderInv
<1> SUFFICES Progress' /\ \A j \in Jobs : Answered(j)'
    BY DEF FutureFollowsStatus
<1> USE SchedulerAssumption
    DEF HolderInv, Holder, OneHolder, Progress, TypeOK, TaskAlive, TaskEnded, Terminal, Live,
        Statuses, WorkerStates, jobVars, queueVars, workerVars, stopVars
<1>1. CASE Start
    BY <1>0, <1>1 DEF Start
<1>2. ASSUME NEW j \in Jobs, SubmitAccepted(j)
      PROVE  Progress' /\ \A k \in Jobs : Answered(k)'
    BY <1>0, <1>2 DEF SubmitAccepted, Notified
<1>3. ASSUME NEW j \in Jobs, SubmitRejected(j)
      PROVE  Progress' /\ \A k \in Jobs : Answered(k)'
    <2>1. \A k \in Jobs : status'[k] \in Live =>
              k \notin Prunable(jobs \cup {j}, status', finishedAt')
        BY DEF Prunable
    <2>2. Progress'
        BY <1>3 DEF SubmitRejected
    <2>3. ASSUME NEW k \in Jobs
          PROVE  Answered(k)'
        <3>1. CASE k = j
            BY <1>3, <3>1 DEF SubmitRejected
        <3>2. CASE k # j
            <4>1. status'[k] = status[k] /\ future'[k] = future[k]
                BY <1>3, <3>2 DEF SubmitRejected
            <4>2. status'[k] \in Live /\ k \in jobs => k \in jobs'
                BY <1>3, <2>1 DEF SubmitRejected
            <4> QED
                BY <1>0, <4>1, <4>2
        <3> QED
            BY <3>1, <3>2
    <2> QED
        BY <2>2, <2>3
<1>4. ASSUME NEW j \in Jobs, CancelActive(j)
      PROVE  Progress' /\ \A k \in Jobs : Answered(k)'
    BY <1>0, <1>4 DEF CancelActive, CancelTaskOf
<1>5. ASSUME NEW j \in Jobs, CancelQueued(j)
      PROVE  Progress' /\ \A k \in Jobs : Answered(k)'
    BY <1>5, <1>f, FinishStatus DEF CancelQueued
<1>6. ASSUME NEW j \in Jobs, CancelTooLate(j)
      PROVE  Progress' /\ \A k \in Jobs : Answered(k)'
    BY <1>0, <1>6 DEF CancelTooLate
<1>7. ASSUME NEW w \in Workers, NEW j \in Jobs, Take(w, j)
      PROVE  Progress' /\ \A k \in Jobs : Answered(k)'
    BY <1>0, <1>7 DEF Take, Selectable
<1>8. ASSUME NEW w \in Workers, Park(w)
      PROVE  Progress' /\ \A k \in Jobs : Answered(k)'
    BY <1>0, <1>8 DEF Park
<1>9. ASSUME NEW w \in Workers, Resume(w)
      PROVE  Progress' /\ \A k \in Jobs : Answered(k)'
    BY <1>0, <1>9 DEF Resume, Notified
<1>10. ASSUME NEW w \in Workers, WorkerCancelled(w)
       PROVE  Progress' /\ \A k \in Jobs : Answered(k)'
    BY <1>0, <1>10 DEF WorkerCancelled
<1>11. ASSUME NEW w \in Workers, Begin(w)
       PROVE  Progress' /\ \A k \in Jobs : Answered(k)'
    BY <1>0, <1>11 DEF Begin
<1>12. ASSUME NEW w \in Workers, KilledBeforeBegin(w)
       PROVE  Progress' /\ \A k \in Jobs : Answered(k)'
    BY <1>0, <1>12 DEF KilledBeforeBegin
<1>13. ASSUME NEW w \in Workers, wpc[w] \in {"running", "backoff"},
              NEW outcome \in Terminal, TaskReturns(w, outcome)
       PROVE  Progress' /\ \A k \in Jobs : Answered(k)'
    <2>1. Progress'
        BY <1>13, FinishStatus DEF TaskReturns
    <2> QED
        BY <1>13, <1>f, <2>1 DEF TaskReturns
<1>14. ASSUME NEW w \in Workers, ToolFailsAndRetries(w)
       PROVE  Progress' /\ \A k \in Jobs : Answered(k)'
    BY <1>0, <1>14 DEF ToolFailsAndRetries
<1>15. ASSUME NEW w \in Workers, BackoffEnds(w)
       PROVE  Progress' /\ \A k \in Jobs : Answered(k)'
    BY <1>0, <1>15 DEF BackoffEnds
<1>16. CASE StopIdle
    BY <1>16, <1>f, FinishStatus DEF StopIdle, CancelWorkers, Queued
<1>17. CASE StopBusy
    BY <1>17, <1>f, FinishStatus DEF StopBusy, Queued
<1>18. CASE StopAborts
    BY <1>18 DEF StopAborts, Orderly
<1>19. CASE StopCancelsWorkers
    BY <1>0, <1>19 DEF StopCancelsWorkers, CancelWorkers
<1>20. CASE StopEnds
    BY <1>0, <1>20 DEF StopEnds
<1>21. CASE UNCHANGED vars
    BY <1>0, <1>21 DEF vars
<1> QED
    BY <1>1, <1>2, <1>3, <1>4, <1>5, <1>6, <1>7, <1>8, <1>9, <1>10, <1>11, <1>12, <1>13,
       <1>14, <1>15, <1>16, <1>17, <1>18, <1>19, <1>20, <1>21
    DEF Next, LoopNext, Cancel, StopBegin, WorkerStep, TaskStep, ToolSucceeds, ToolFails,
        ToolTimesOut, CancelDelivered

LEMMA AnswerStep ==
    ASSUME AnswerInv, [Next]_vars
    PROVE  AnswerInv'
<1>1. HolderInv'
    BY TypePreserved, HolderPreserved DEF AnswerInv, HolderInv
<1>2. CASE Orderly'
    BY <1>1, <1>2, OrderlyBefore, AnswerPreserved DEF AnswerInv
<1>3. CASE ~Orderly'
    BY <1>1, <1>3 DEF AnswerInv, FutureFollowsStatus
<1> QED
    BY <1>2, <1>3

LEMMA AnswerInvariant == Spec => []AnswerInv
<1>1. Init => AnswerInv
    BY InitTyped, InitHolder, InitAnswer DEF AnswerInv, HolderInv
<1>2. AnswerInv /\ [Next]_vars => AnswerInv'
    BY AnswerStep
<1> QED
    BY <1>1, <1>2, PTL DEF Spec

\* As long as stop() does not abort, a job's future is unresolved exactly while
\* the job is queued or running, and its record is kept that long.
THEOREM AnsweredWhenOver == Spec => []FutureFollowsStatus
BY AnswerInvariant, PTL DEF AnswerInv

-------------------------------------------------------------------------------
(* The scheduler implements the life cycle its callers rely on.            *)

Answered == {j \in Jobs : future[j] = "resolved"}

LEMMA FinishAnswered ==
    ASSUME TypeOK, NEW S \in SUBSET Jobs, NEW outcome \in Terminal, Finish(S, outcome)
    PROVE  /\ status' = [j \in Jobs |-> IF j \in S THEN outcome ELSE status[j]]
           /\ Answered' = Answered \cup S
BY DEF Finish, TypeOK, Answered

LEMMA WithdrawSimulated ==
    ASSUME TypeOK, NEW S \in SUBSET Queued, Finish(S, "cancelled")
    PROVE  Lifecycle!Next
<1>1. S \in SUBSET Jobs
    BY DEF TypeOK, Queued
<1>2. Answered' = Answered \cup S
    BY <1>1, FinishAnswered DEF Terminal
<1>3. Lifecycle!Withdraw(S)
    BY <1>1, <1>2, FinishAnswered DEF Lifecycle!Withdraw, Answered, Queued, Terminal
<1> QED
    BY <1>1, <1>3 DEF Lifecycle!Next

\* Steps that touch neither a status nor a future are stutters of the life cycle.
LEMMA StutterSimulated ==
    ASSUME UNCHANGED <<status, future>>
    PROVE  UNCHANGED Lifecycle!vars
BY DEF Lifecycle!vars

LEMMA StepSimulated ==
    ASSUME AnswerInv, Orderly, [Next]_vars, Orderly'
    PROVE  [Lifecycle!Next]_(Lifecycle!vars)
<1> USE DEF jobVars, queueVars, workerVars, stopVars
<1>0. HolderInv /\ TypeOK /\ Progress
    BY DEF AnswerInv, HolderInv
<1>1. ASSUME UNCHANGED <<status, future>>
      PROVE  [Lifecycle!Next]_(Lifecycle!vars)
    BY <1>1, StutterSimulated
<1>2. ASSUME NEW j \in Jobs, SubmitAccepted(j)
      PROVE  Lifecycle!Next
    <2>1. Answered' = Answered
        BY <1>0, <1>2 DEF SubmitAccepted, Answered, TypeOK, HolderInv, Holder
    <2>2. Lifecycle!Accept(j)
        BY <1>2, <2>1 DEF SubmitAccepted, Lifecycle!Accept, Answered
    <2> QED
        BY <2>2 DEF Lifecycle!Next
<1>3. ASSUME NEW j \in Jobs, SubmitRejected(j)
      PROVE  Lifecycle!Next
    <2>1. Answered' = Answered \cup {j}
        BY <1>0, <1>3 DEF SubmitRejected, Answered, TypeOK
    <2>2. Lifecycle!Refuse(j)
        BY <1>3, <2>1 DEF SubmitRejected, Lifecycle!Refuse, Answered
    <2> QED
        BY <2>2 DEF Lifecycle!Next
<1>4. ASSUME NEW j \in Jobs, CancelQueued(j)
      PROVE  Lifecycle!Next
    BY <1>0, <1>4, WithdrawSimulated DEF CancelQueued, Queued
<1>5. ASSUME NEW w \in Workers, Begin(w)
      PROVE  Lifecycle!Next
    <2>1. wjob[w] \in Jobs /\ status[wjob[w]] = "queued"
        BY <1>0, <1>5 DEF HolderInv, Holder, Progress, Begin, TypeOK, TaskAlive
    <2>2. Lifecycle!Begin(wjob[w])
        BY <1>5, <2>1 DEF Begin, Lifecycle!Begin
    <2> QED
        BY <2>1, <2>2 DEF Lifecycle!Next
<1>6. ASSUME NEW w \in Workers, wpc[w] \in {"running", "backoff"},
             NEW outcome \in Terminal, TaskReturns(w, outcome)
      PROVE  Lifecycle!Next
    <2>1. wjob[w] \in Jobs /\ status[wjob[w]] = "running"
        BY <1>0, <1>6 DEF HolderInv, Holder, Progress, TypeOK, TaskAlive
    <2>2. Finish({wjob[w]}, outcome)
        BY <1>6 DEF TaskReturns
    <2>3. /\ Answered' = Answered \cup {wjob[w]}
          /\ status' = [j \in Jobs |-> IF j \in {wjob[w]} THEN outcome ELSE status[j]]
        BY <1>0, <1>6, <2>1, <2>2, FinishAnswered
    <2>4. status' = [status EXCEPT ![wjob[w]] = outcome]
        BY <1>0, <2>1, <2>3 DEF TypeOK
    <2>5. Lifecycle!End(wjob[w], outcome)
        BY <2>1, <2>3, <2>4 DEF Lifecycle!End, Answered
    <2> QED
        BY <1>6, <2>1, <2>5 DEF Lifecycle!Next, Terminal
<1>7. CASE StopIdle
    BY <1>0, <1>7, WithdrawSimulated DEF StopIdle
<1>8. CASE StopBusy
    BY <1>0, <1>8, WithdrawSimulated DEF StopBusy
<1>9. CASE StopAborts
    BY <1>9 DEF StopAborts, Orderly
<1>10. ASSUME NEW w \in Workers,
              \/ Park(w) \/ Resume(w) \/ WorkerCancelled(w) \/ KilledBeforeBegin(w)
              \/ ToolFailsAndRetries(w) \/ BackoffEnds(w)
              \/ \E j \in Jobs : Take(w, j)
       PROVE  UNCHANGED <<status, future>>
    BY <1>10 DEF Park, Resume, WorkerCancelled, KilledBeforeBegin, ToolFailsAndRetries,
                 BackoffEnds, Take
<1>11. ASSUME NEW j \in Jobs, CancelActive(j) \/ CancelTooLate(j)
       PROVE  UNCHANGED <<status, future>>
    BY <1>11 DEF CancelActive, CancelTooLate
<1>12. ASSUME Start \/ StopCancelsWorkers \/ StopEnds \/ UNCHANGED vars
       PROVE  UNCHANGED <<status, future>>
    BY <1>12 DEF Start, StopCancelsWorkers, CancelWorkers, StopEnds, vars
<1> QED
    BY <1>1, <1>2, <1>3, <1>4, <1>5, <1>6, <1>7, <1>8, <1>9, <1>10, <1>11, <1>12,
       SchedulerAssumption
    DEF Next, LoopNext, Cancel, StopBegin, WorkerStep, TaskStep, ToolSucceeds, ToolFails,
        ToolTimesOut, CancelDelivered, Terminal

\* As long as stop() does not abort, each job goes through the life cycle of
\* JobLifecycle, whatever workers, caps, retries and shutdown do.
THEOREM LifecycleImplemented == Spec /\ []Orderly => ImplementsLifecycle
<1>1. Init => Lifecycle!Init
    BY DEF Init, Lifecycle!Init
<1>2. AnswerInv /\ Orderly /\ [Next]_vars /\ Orderly' => [Lifecycle!Next]_(Lifecycle!vars)
    BY StepSimulated
<1> QED
    BY <1>1, <1>2, AnswerInvariant, PTL DEF Spec, ImplementsLifecycle, Lifecycle!Spec

\* A status of the life cycle that is terminal is the last.
LEMMA LifecycleFinal ==
    ASSUME TypeOK, [Lifecycle!Next]_(Lifecycle!vars),
           NEW j \in Jobs, status[j] \in Terminal
    PROVE  status'[j] = status[j]
<1> USE DEF TypeOK, Statuses, Terminal
<1>1. ASSUME NEW k \in Jobs, Lifecycle!Accept(k) \/ Lifecycle!Refuse(k) \/ Lifecycle!Begin(k)
      PROVE  status'[j] = status[j]
    BY <1>1 DEF Lifecycle!Accept, Lifecycle!Refuse, Lifecycle!Begin
<1>2. ASSUME NEW k \in Jobs, NEW outcome \in Terminal, Lifecycle!End(k, outcome)
      PROVE  status'[j] = status[j]
    BY <1>2 DEF Lifecycle!End
<1>3. ASSUME NEW S \in SUBSET Jobs, Lifecycle!Withdraw(S)
      PROVE  status'[j] = status[j]
    BY <1>3 DEF Lifecycle!Withdraw
<1> QED
    BY <1>1, <1>2, <1>3 DEF Lifecycle!Next, Lifecycle!vars

\* As long as stop() does not abort, a job that has ended stays ended.
THEOREM EndedStaysEnded == Spec => TerminalIsFinal
<1>1. ASSUME AnswerInv, [Next]_vars
      PROVE  [Orderly' => \A j \in Jobs : status[j] \in Terminal => status'[j] = status[j]]_vars
    <2> SUFFICES ASSUME Orderly', NEW j \in Jobs, status[j] \in Terminal
                 PROVE  status'[j] = status[j]
        OBVIOUS
    <2>1. Orderly /\ TypeOK
        BY <1>1, OrderlyBefore DEF AnswerInv, HolderInv
    <2> QED
        BY <1>1, <2>1, StepSimulated, LifecycleFinal
<1> QED
    BY <1>1, AnswerInvariant, PTL DEF Spec, TerminalIsFinal

-------------------------------------------------------------------------------
(* The queue limit.                                                        *)

\* A step that queues no further job keeps the queue within its limit.
LEMMA QueueShrinks ==
    ASSUME TypeOK, QueueBounded, Queued' \subseteq Queued
    PROVE  QueueBounded'
<1>1. IsFiniteSet(Queued)
    BY QueuedFinite
<1>2. Cardinality(Queued') <= Cardinality(Queued)
    BY <1>1, FS_Subset
<1>3. Cardinality(Queued) \in Nat /\ Cardinality(Queued') \in Nat
    BY <1>1, FS_Subset, FS_CardinalityType
<1> QED
    BY <1>2, <1>3, SchedulerAssumption DEF QueueBounded

LEMMA QueuePreserved ==
    ASSUME TypeOK, QueueBounded, [Next]_vars
    PROVE  QueueBounded'
<1> USE DEF Queued, jobVars, queueVars, workerVars, stopVars
<1>1. ASSUME NEW j \in Jobs, SubmitAccepted(j)
      PROVE  QueueBounded'
    <2>1. Queued' = Queued \cup {j} /\ j \notin Queued
        BY <1>1 DEF SubmitAccepted, TypeOK
    <2>2. Cardinality(Queued') = Cardinality(Queued) + 1
        BY <2>1, FS_AddElement, QueuedFinite
    <2> QED
        BY <1>1, <2>2 DEF SubmitAccepted, QueueHasRoom, QueueBounded
<1>2. ASSUME NEW j \in Jobs, SubmitRejected(j)
      PROVE  Queued' \subseteq Queued
    BY <1>2 DEF SubmitRejected, TypeOK
<1>3. ASSUME NEW S, NEW outcome \in Terminal, Finish(S, outcome)
      PROVE  Queued' \subseteq Queued
    BY <1>3 DEF Finish, TypeOK, Terminal
<1>4. ASSUME NEW w \in Workers, Begin(w)
      PROVE  Queued' \subseteq Queued
    BY <1>4 DEF Begin, TypeOK
<1>5. ASSUME UNCHANGED <<status, jobs>>
      PROVE  Queued' \subseteq Queued
    BY <1>5
<1>6. ASSUME NEW w \in Workers,
             \/ Park(w) \/ Resume(w) \/ WorkerCancelled(w) \/ KilledBeforeBegin(w)
             \/ ToolFailsAndRetries(w) \/ BackoffEnds(w)
             \/ \E j \in Jobs : Take(w, j)
      PROVE  UNCHANGED <<status, jobs>>
    BY <1>6 DEF Park, Resume, WorkerCancelled, KilledBeforeBegin, ToolFailsAndRetries,
                BackoffEnds, Take
<1>7. ASSUME NEW j \in Jobs, CancelActive(j) \/ CancelTooLate(j)
      PROVE  UNCHANGED <<status, jobs>>
    BY <1>7 DEF CancelActive, CancelTooLate
<1>8. ASSUME Start \/ StopCancelsWorkers \/ StopEnds \/ UNCHANGED vars
      PROVE  UNCHANGED <<status, jobs>>
    BY <1>8 DEF Start, StopCancelsWorkers, CancelWorkers, StopEnds, vars
<1>9. ASSUME NEW j \in Jobs, CancelQueued(j)
      PROVE  Queued' \subseteq Queued
    <2>1. Finish({j}, "cancelled")
        BY <1>9 DEF CancelQueued
    <2> QED
        BY <2>1, <1>3 DEF Terminal
<1>10. ASSUME NEW w \in Workers, NEW outcome \in Terminal, TaskReturns(w, outcome)
       PROVE  Queued' \subseteq Queued
    <2>1. Finish({wjob[w]}, outcome)
        BY <1>10 DEF TaskReturns
    <2> QED
        BY <2>1, <1>3
<1>11. ASSUME StopBegin
       PROVE  Queued' \subseteq Queued
    <2>1. CASE StopIdle \/ StopBusy
        <3>1. Finish(Queued, "cancelled")
            BY <2>1 DEF StopIdle, StopBusy
        <3> HIDE DEF Queued
        <3> QED
            BY <3>1, <1>3 DEF Terminal
    <2>2. CASE StopAborts
        <3> DEFINE S == {j \in Queued : RankIn(Queued, j) <= Room + 1}
        <3>1. Finish(S, "cancelled")
            BY <2>2 DEF StopAborts
        <3> HIDE DEF S
        <3> QED
            BY <3>1, <1>3 DEF Terminal
    <2> QED
        BY <1>11, <2>1, <2>2 DEF StopBegin
<1>12. CASE \/ \E j \in Jobs : SubmitRejected(j) \/ CancelQueued(j)
            \/ \E w \in Workers : Begin(w)
            \/ \E w \in Workers, outcome \in Terminal : TaskReturns(w, outcome)
            \/ StopBegin
            \/ UNCHANGED <<status, jobs>>
    BY <1>12, <1>2, <1>4, <1>5, <1>9, <1>10, <1>11, QueueShrinks
<1> QED
    <2>1. CASE \E j \in Jobs : SubmitAccepted(j)
        BY <2>1, <1>1
    <2>2. CASE \E j \in Jobs : SubmitRejected(j)
        BY <2>2, <1>12
    <2>3. CASE \E j \in Cancellable : Cancel(j)
        BY <2>3, <1>7, <1>12, SchedulerAssumption DEF Cancel
    <2>4. CASE \E w \in Workers : WorkerStep(w)
        BY <2>4, <1>6, <1>12 DEF WorkerStep
    <2>5. CASE \E w \in Workers : TaskStep(w)
        BY <2>5, <1>6, <1>12
        DEF TaskStep, ToolSucceeds, ToolFails, ToolTimesOut, CancelDelivered, Terminal
    <2>6. CASE StopBegin \/ Start \/ StopCancelsWorkers \/ StopEnds \/ UNCHANGED vars
        BY <2>6, <1>8, <1>12
    <2> QED
        BY <2>1, <2>2, <2>3, <2>4, <2>5, <2>6 DEF Next, LoopNext

\* The queue limit holds at every moment, jobs taken but not begun included.
THEOREM QueueLimit == Spec => []QueueBounded
<1>1. Init => TypeOK /\ QueueBounded
    <2> SUFFICES ASSUME Init
                 PROVE  TypeOK /\ QueueBounded
        OBVIOUS
    <2>1. Queued = {}
        BY DEF Init, Queued
    <2>2. Cardinality(Queued) = 0
        BY <2>1, FS_EmptySet, Zenon
    <2> QED
        BY <2>2, InitTyped, SchedulerAssumption DEF QueueBounded
<1>2. TypeOK /\ QueueBounded /\ [Next]_vars => (TypeOK /\ QueueBounded)'
    BY TypePreserved, QueuePreserved
<1> QED
    BY <1>1, <1>2, PTL DEF Spec

-------------------------------------------------------------------------------
(* Retries.                                                                *)

LEMMA AttemptPreserved ==
    ASSUME HolderInv, Attempting, [Next]_vars
    PROVE  Attempting'
<1> USE SchedulerAssumption
    DEF HolderInv, Holder, OneHolder, Attempting, TypeOK, TaskAlive, TaskEnded, Terminal,
        Statuses, WorkerStates, jobVars, queueVars, workerVars, stopVars
<1>1. CASE Start
    BY <1>1 DEF Start
<1>2. ASSUME NEW j \in Jobs, SubmitAccepted(j)
      PROVE  Attempting'
    BY <1>2 DEF SubmitAccepted, Notified
<1>3. ASSUME NEW j \in Jobs, SubmitRejected(j)
      PROVE  Attempting'
    BY <1>3 DEF SubmitRejected
<1>4. ASSUME NEW j \in Jobs, CancelActive(j)
      PROVE  Attempting'
    BY <1>4 DEF CancelActive, CancelTaskOf
<1>5. ASSUME NEW j \in Jobs, CancelQueued(j)
      PROVE  Attempting'
    BY <1>5, FinishStatus DEF CancelQueued
<1>6. ASSUME NEW j \in Jobs, CancelTooLate(j)
      PROVE  Attempting'
    BY <1>6 DEF CancelTooLate
<1>7. ASSUME NEW w \in Workers, NEW j \in Jobs, Take(w, j)
      PROVE  Attempting'
    BY <1>7 DEF Take, Selectable
<1>8. ASSUME NEW w \in Workers, Park(w) \/ WorkerCancelled(w) \/ KilledBeforeBegin(w)
      PROVE  Attempting'
    BY <1>8 DEF Park, WorkerCancelled, KilledBeforeBegin
<1>9. ASSUME NEW w \in Workers, Resume(w)
      PROVE  Attempting'
    BY <1>9 DEF Resume, Notified
<1>10. ASSUME NEW w \in Workers, Begin(w)
       PROVE  Attempting'
    BY <1>10 DEF Begin
<1>11. ASSUME NEW w \in Workers, wpc[w] \in {"running", "backoff"},
              NEW outcome \in Terminal, TaskReturns(w, outcome)
       PROVE  Attempting'
    BY <1>11, FinishStatus DEF TaskReturns
<1>12. ASSUME NEW w \in Workers, ToolFailsAndRetries(w)
       PROVE  Attempting'
    BY <1>12 DEF ToolFailsAndRetries, ShouldRetry
<1>13. ASSUME NEW w \in Workers, BackoffEnds(w)
       PROVE  Attempting'
    BY <1>13 DEF BackoffEnds
<1>14. CASE StopIdle
    BY <1>14, FinishStatus DEF StopIdle, CancelWorkers, Queued
<1>15. CASE StopBusy
    BY <1>15, FinishStatus DEF StopBusy, Queued
<1>16. CASE StopAborts
    BY <1>16, FinishStatus DEF StopAborts, Queued
<1>17. CASE StopCancelsWorkers
    BY <1>17 DEF StopCancelsWorkers, CancelWorkers
<1>18. CASE StopEnds
    BY <1>18 DEF StopEnds
<1>19. CASE UNCHANGED vars
    BY <1>19 DEF vars
<1> QED
    BY <1>1, <1>2, <1>3, <1>4, <1>5, <1>6, <1>7, <1>8, <1>9, <1>10, <1>11, <1>12, <1>13,
       <1>14, <1>15, <1>16, <1>17, <1>18, <1>19
    DEF Next, LoopNext, Cancel, StopBegin, WorkerStep, TaskStep, ToolSucceeds, ToolFails,
        ToolTimesOut, CancelDelivered

LEMMA AttemptInvariant == Spec => []AttemptInv
<1>1. Init => AttemptInv
    BY InitTyped, InitHolder DEF AttemptInv, HolderInv, Attempting, Init
<1>2. AttemptInv /\ [Next]_vars => AttemptInv'
    BY TypePreserved, HolderPreserved, AttemptPreserved DEF AttemptInv, HolderInv
<1> QED
    BY <1>1, <1>2, PTL DEF Spec

\* Only the first step of a task and the end of a backoff count an attempt.
LEMMA AttemptsCounted ==
    ASSUME [Next]_vars, attempts' # attempts
    PROVE  \E w \in Workers : Begin(w) \/ BackoffEnds(w)
BY SchedulerAssumption
DEF Next, LoopNext, Start, StopBegin, StopIdle, StopBusy, StopAborts, StopCancelsWorkers,
    StopEnds, SubmitAccepted, SubmitRejected, WorkerStep, Take, Park, Resume, WorkerCancelled,
    TaskStep, KilledBeforeBegin, ToolSucceeds, ToolFails, ToolFailsAndRetries, ToolTimesOut,
    CancelDelivered, TaskReturns, Cancel, CancelActive, CancelQueued, CancelTooLate, vars

\* The tool of a job is not called again once its cancellation was asked for.
THEOREM CancelStopsRetries == Spec => NoRetryAfterCancel
<1>1. ASSUME AttemptInv, [Next]_vars
      PROVE  [\A j \in Jobs : attempts'[j] > attempts[j] /\ attempts[j] > 0
                                  => ~cancelAsked[j]]_vars
    <2> SUFFICES ASSUME NEW j \in Jobs, attempts'[j] > attempts[j], attempts[j] > 0
                 PROVE  ~cancelAsked[j]
        OBVIOUS
    <2> USE DEF AttemptInv, HolderInv, TypeOK, Attempting
    <2>1. PICK w \in Workers : Begin(w) \/ BackoffEnds(w)
        BY <1>1, AttemptsCounted
    <2>2. wjob[w] = j
        BY <1>1, <2>1 DEF Begin, BackoffEnds
    <2>3. CASE Begin(w)
        BY <1>1, <2>2, <2>3 DEF Begin
    <2>4. CASE BackoffEnds(w)
        BY <1>1, <2>2, <2>4 DEF BackoffEnds
    <2> QED
        BY <2>1, <2>3, <2>4
<1> QED
    BY <1>1, AttemptInvariant, PTL DEF Spec, NoRetryAfterCancel

-------------------------------------------------------------------------------
(* The caps.                                                               *)

\* Between its selection and its first step a job is in _starting_job_ids; a
\* job that was never submitted, or waits in the queue, is not.
Marked ==
    /\ \A w \in Workers : wpc[w] = "created" => wjob[w] \in starting
    /\ \A j \in Jobs : j \in pending \/ status[j] = "new" => j \notin starting

\* The jobs of group S that _job_is_eligible_to_start counts.
CountedIn(S) == ActiveOrStarting \cap S

CapInv ==
    /\ AnswerInv
    /\ Marked
    /\ Orderly =>
           /\ Cardinality(CountedIn({j \in Jobs : Lane[j] = "background"})) <= BackgroundLimit
           /\ \A k \in DOMAIN CapLimit :
                  CapLimit[k] > 0 =>
                      Cardinality(CountedIn({j \in Jobs : CapKey[j] = k})) <= CapLimit[k]

LEMMA CountedFinite ==
    ASSUME TypeOK, NEW S \in SUBSET Jobs
    PROVE  /\ IsFiniteSet(CountedIn(S))
           /\ Cardinality(CountedIn(S)) \in Nat
<1>1. CountedIn(S) \in SUBSET Jobs
    BY DEF CountedIn
<1> QED
    BY <1>1, FS_Subset, FS_CardinalityType, SchedulerAssumption

LEMMA BackgroundLimitTyped ==
    /\ BackgroundLimit \in Nat
    /\ Workers # {} => BackgroundLimit > 0
<1>1. Cardinality(Workers) \in Nat
    BY FS_CardinalityType, SchedulerAssumption
<1>2. Workers # {} => Cardinality(Workers) # 0
    BY FS_EmptySet, SchedulerAssumption
<1> QED
    BY <1>1, <1>2 DEF BackgroundLimit

LEMMA MarkedPreserved ==
    ASSUME HolderInv, Marked, [Next]_vars
    PROVE  Marked'
<1> USE SchedulerAssumption
    DEF HolderInv, Holder, OneHolder, Marked, TypeOK, TaskAlive, TaskEnded, Terminal,
        Statuses, WorkerStates, jobVars, queueVars, workerVars, stopVars
<1>1. CASE Start
    BY <1>1 DEF Start
<1>2. ASSUME NEW j \in Jobs, SubmitAccepted(j)
      PROVE  Marked'
    BY <1>2 DEF SubmitAccepted, Notified
<1>3. ASSUME NEW j \in Jobs, SubmitRejected(j)
      PROVE  Marked'
    BY <1>3 DEF SubmitRejected
<1>4. ASSUME NEW j \in Jobs, CancelActive(j)
      PROVE  Marked'
    BY <1>4 DEF CancelActive
<1>5. ASSUME NEW j \in Jobs, CancelQueued(j)
      PROVE  Marked'
    BY <1>5, FinishStatus DEF CancelQueued
<1>6. ASSUME NEW j \in Jobs, CancelTooLate(j)
      PROVE  Marked'
    BY <1>6 DEF CancelTooLate
<1>7. ASSUME NEW w \in Workers, NEW j \in Jobs, Take(w, j)
      PROVE  Marked'
    BY <1>7 DEF Take, Selectable
<1>8. ASSUME NEW w \in Workers,
             Park(w) \/ WorkerCancelled(w) \/ KilledBeforeBegin(w) \/ ToolFailsAndRetries(w)
      PROVE  Marked'
    BY <1>8 DEF Park, WorkerCancelled, KilledBeforeBegin, ToolFailsAndRetries
<1>9. ASSUME NEW w \in Workers, Resume(w)
      PROVE  Marked'
    BY <1>9 DEF Resume, Notified
<1>10. ASSUME NEW w \in Workers, Begin(w)
       PROVE  Marked'
    BY <1>10 DEF Begin
<1>11. ASSUME NEW w \in Workers, wpc[w] \in {"running", "backoff"},
              NEW outcome \in Terminal, TaskReturns(w, outcome)
       PROVE  Marked'
    BY <1>11, FinishStatus DEF TaskReturns
<1>12. ASSUME NEW w \in Workers, BackoffEnds(w)
       PROVE  Marked'
    BY <1>12 DEF BackoffEnds
<1>13. CASE StopIdle
    BY <1>13, FinishStatus DEF StopIdle, CancelWorkers, Queued
<1>14. CASE StopBusy
    BY <1>14, FinishStatus DEF StopBusy, Queued
<1>15. CASE StopAborts
    BY <1>15, FinishStatus DEF StopAborts, Queued
<1>16. CASE StopCancelsWorkers \/ StopEnds
    BY <1>16 DEF StopCancelsWorkers, CancelWorkers, StopEnds
<1>17. CASE UNCHANGED vars
    BY <1>17 DEF vars
<1> QED
    BY <1>1, <1>2, <1>3, <1>4, <1>5, <1>6, <1>7, <1>8, <1>9, <1>10, <1>11, <1>12, <1>13,
       <1>14, <1>15, <1>16, <1>17
    DEF Next, LoopNext, Cancel, StopBegin, WorkerStep, TaskStep, ToolSucceeds, ToolFails,
        ToolTimesOut, CancelDelivered


\* Finishing jobs never makes one count that did not.
LEMMA FinishCounts ==
    ASSUME TypeOK, NEW S, NEW outcome \in Terminal, Finish(S, outcome),
           starting' \subseteq starting
    PROVE  ActiveOrStarting' \subseteq ActiveOrStarting
BY DEF Finish, TypeOK, Terminal, ActiveOrStarting

\* Only a selection adds to the jobs that count.
LEMMA OnlyTakeCounts ==
    ASSUME AnswerInv, Marked, Orderly, [Next]_vars,
           ~ \E w \in Workers, j \in Jobs : Take(w, j)
    PROVE  ActiveOrStarting' \subseteq ActiveOrStarting
<1> DEFINE Shrinks == ActiveOrStarting' \subseteq ActiveOrStarting
<1> USE DEF jobVars, queueVars, workerVars, stopVars
<1>0. TypeOK /\ OneHolder /\ Holder /\ Progress
    BY DEF AnswerInv, HolderInv
<1>1. ASSUME UNCHANGED <<jobs, status, starting>>
      PROVE  Shrinks
    BY <1>1 DEF ActiveOrStarting
<1>2. ASSUME NEW j \in Jobs, SubmitAccepted(j) \/ SubmitRejected(j)
      PROVE  Shrinks
    BY <1>2, <1>0 DEF SubmitAccepted, SubmitRejected, Marked, TypeOK, ActiveOrStarting
<1>3. ASSUME NEW j \in Jobs, CancelQueued(j)
      PROVE  Shrinks
    BY <1>3, <1>0, FinishCounts DEF CancelQueued, Terminal
<1>4. ASSUME NEW w \in Workers, Begin(w)
      PROVE  Shrinks
    <2>1. wjob[w] \in Jobs /\ status[wjob[w]] = "queued" /\ wjob[w] \in starting
        BY <1>4, <1>0 DEF Begin, Progress, Marked, Holder, TypeOK, TaskAlive
    <2>2. wjob[w] \in jobs
        BY <2>1 DEF AnswerInv, FutureFollowsStatus, Live
    <2> QED
        BY <1>4, <1>0, <2>1, <2>2 DEF Begin, TypeOK, ActiveOrStarting
<1>5. ASSUME NEW w \in Workers, NEW outcome \in Terminal, TaskReturns(w, outcome)
      PROVE  Shrinks
    BY <1>5, <1>0, FinishCounts DEF TaskReturns
<1>6. CASE StopIdle \/ StopBusy
    BY <1>6, <1>0, FinishCounts DEF StopIdle, StopBusy, Terminal
<1>7. CASE StopAborts
    BY <1>7, <1>0, FinishCounts DEF StopAborts, Terminal
<1>8. CASE StopEnds
    BY <1>8 DEF StopEnds, ActiveOrStarting
<1>9. ASSUME NEW w \in Workers,
             \/ Park(w) \/ Resume(w) \/ WorkerCancelled(w) \/ KilledBeforeBegin(w)
             \/ ToolFailsAndRetries(w) \/ BackoffEnds(w)
      PROVE  UNCHANGED <<jobs, status, starting>>
    BY <1>9 DEF Park, Resume, WorkerCancelled, KilledBeforeBegin, ToolFailsAndRetries,
                BackoffEnds
<1>10. ASSUME NEW j \in Jobs, CancelActive(j) \/ CancelTooLate(j)
       PROVE  UNCHANGED <<jobs, status, starting>>
    BY <1>10 DEF CancelActive, CancelTooLate
<1>11. ASSUME Start \/ StopCancelsWorkers \/ UNCHANGED vars
       PROVE  UNCHANGED <<jobs, status, starting>>
    BY <1>11 DEF Start, StopCancelsWorkers, CancelWorkers, vars
<1> QED
    <2>1. CASE \E j \in Jobs : SubmitAccepted(j) \/ SubmitRejected(j)
        BY <2>1, <1>2
    <2>2. CASE \E j \in Cancellable : Cancel(j)
        BY <2>2, <1>1, <1>3, <1>10, SchedulerAssumption DEF Cancel
    <2>3. CASE \E w \in Workers : WorkerStep(w)
        BY <2>3, <1>1, <1>9 DEF WorkerStep
    <2>4. CASE \E w \in Workers : TaskStep(w)
        BY <2>4, <1>1, <1>4, <1>5, <1>9
        DEF TaskStep, ToolSucceeds, ToolFails, ToolTimesOut, CancelDelivered, Terminal
    <2>5. CASE StopBegin \/ Start \/ StopCancelsWorkers \/ StopEnds \/ UNCHANGED vars
        BY <2>5, <1>1, <1>6, <1>7, <1>8, <1>11 DEF StopBegin
    <2> QED
        BY <2>1, <2>2, <2>3, <2>4, <2>5 DEF Next, LoopNext

\* The limit N of a group S survives a step if a job of S is only selected
\* while fewer than N of S count.
LEMMA LimitPreserved ==
    ASSUME AnswerInv, Marked, Orderly, [Next]_vars, NEW S \in SUBSET Jobs, NEW N \in Nat,
           Cardinality(CountedIn(S)) <= N,
           \A w \in Workers, j \in S : Take(w, j) => Cardinality(CountedIn(S)) < N
    PROVE  Cardinality(CountedIn(S)') <= N
<1>0. TypeOK
    BY DEF AnswerInv, HolderInv
<1>1. IsFiniteSet(CountedIn(S)) /\ Cardinality(CountedIn(S)) \in Nat
    BY <1>0, CountedFinite
<1>2. ASSUME CountedIn(S)' \subseteq CountedIn(S)
      PROVE  Cardinality(CountedIn(S)') <= N
    <2>1. /\ IsFiniteSet(CountedIn(S)')
          /\ Cardinality(CountedIn(S)') <= Cardinality(CountedIn(S))
        BY <1>1, <1>2, FS_Subset
    <2>2. Cardinality(CountedIn(S)') \in Nat
        BY <2>1, FS_CardinalityType
    <2> QED
        BY <1>1, <2>1, <2>2
<1>3. CASE ~ \E w \in Workers, j \in Jobs : Take(w, j)
    BY <1>3, <1>2, OnlyTakeCounts DEF CountedIn
<1>4. ASSUME NEW w \in Workers, NEW j \in Jobs, Take(w, j)
      PROVE  Cardinality(CountedIn(S)') <= N
    <2>1. ActiveOrStarting' \subseteq ActiveOrStarting \cup {j}
        BY <1>4 DEF Take, ActiveOrStarting, jobVars
    <2>2. CASE j \notin S
        BY <1>2, <2>1, <2>2 DEF CountedIn
    <2>3. CASE j \in S
        <3>1. CountedIn(S)' \subseteq CountedIn(S) \cup {j}
            BY <2>1 DEF CountedIn
        <3>2. Cardinality(CountedIn(S)) < N
            BY <1>4, <2>3
        <3>3. /\ IsFiniteSet(CountedIn(S) \cup {j})
              /\ Cardinality(CountedIn(S) \cup {j}) \in Nat
              /\ Cardinality(CountedIn(S) \cup {j}) <= Cardinality(CountedIn(S)) + 1
            <4>1. CASE j \in CountedIn(S)
                <5>1. CountedIn(S) \cup {j} = CountedIn(S)
                    BY <4>1
                <5> QED
                    BY <1>1, <5>1
            <4>2. CASE j \notin CountedIn(S)
                <5>1. /\ IsFiniteSet(CountedIn(S) \cup {j})
                      /\ Cardinality(CountedIn(S) \cup {j}) = Cardinality(CountedIn(S)) + 1
                    BY <1>1, <4>2, FS_AddElement
                <5> QED
                    BY <1>1, <5>1
            <4> QED
                BY <4>1, <4>2
        <3>4. /\ Cardinality(CountedIn(S)') <= Cardinality(CountedIn(S) \cup {j})
              /\ Cardinality(CountedIn(S)') \in Nat
            BY <3>1, <3>3, FS_Subset, FS_CardinalityType
        <3> QED
            BY <1>1, <3>2, <3>3, <3>4
    <2> QED
        BY <2>2, <2>3
<1> QED
    BY <1>3, <1>4

LEMMA CapInvariant == Spec => []CapInv
<1>1. Init => CapInv
    <2> SUFFICES ASSUME Init
                 PROVE  CapInv
        OBVIOUS
    <2>1. AnswerInv
        BY InitTyped, InitHolder, InitAnswer DEF AnswerInv, HolderInv
    <2>2. Marked
        BY DEF Init, Marked
    <2>3. ASSUME NEW S
          PROVE  Cardinality(CountedIn(S)) = 0
        <3>1. CountedIn(S) = {}
            BY DEF Init, CountedIn, ActiveOrStarting
        <3> QED
            BY <3>1, FS_EmptySet, Zenon
    <2>4. Cardinality(CountedIn({j \in Jobs : Lane[j] = "background"})) <= BackgroundLimit
        BY <2>3, BackgroundLimitTyped
    <2>5. ASSUME NEW k \in DOMAIN CapLimit
          PROVE  Cardinality(CountedIn({j \in Jobs : CapKey[j] = k})) <= CapLimit[k]
        BY <2>3, SchedulerAssumption
    <2> QED
        BY <2>1, <2>2, <2>4, <2>5 DEF CapInv
<1>2. ASSUME CapInv, [Next]_vars
      PROVE  CapInv'
    <2>1. AnswerInv' /\ Marked'
        BY <1>2, AnswerStep, MarkedPreserved DEF CapInv, AnswerInv
    <2> SUFFICES ASSUME Orderly'
                 PROVE  /\ Cardinality(CountedIn({j \in Jobs : Lane[j] = "background"})')
                               <= BackgroundLimit
                        /\ \A k \in DOMAIN CapLimit :
                               CapLimit[k] > 0 =>
                                   Cardinality(CountedIn({j \in Jobs : CapKey[j] = k})')
                                       <= CapLimit[k]
        BY <2>1 DEF CapInv
    <2>2. Orderly
        BY <1>2, OrderlyBefore
    <2>4. Cardinality(CountedIn({j \in Jobs : Lane[j] = "background"})') <= BackgroundLimit
        <3> DEFINE S == {j \in Jobs : Lane[j] = "background"}
        <3>1. ASSUME NEW w \in Workers, NEW j \in S, Take(w, j)
              PROVE  Cardinality(CountedIn(S)) < BackgroundLimit
            <4>1. Eligible(j)
                BY <3>1 DEF Take, Selectable
            <4>2. {k \in ActiveOrStarting : Lane[k] = "background"} = CountedIn(S)
                BY <1>2 DEF CountedIn, ActiveOrStarting, CapInv, AnswerInv, HolderInv, TypeOK
            <4> QED
                BY <3>1, <4>1, <4>2, BackgroundLimitTyped DEF Eligible
        <3>2. Cardinality(CountedIn(S)) <= BackgroundLimit
            BY <1>2, <2>2 DEF CapInv
        <3>3. S \in SUBSET Jobs
            OBVIOUS
        <3> HIDE DEF S
        <3>4. Cardinality(CountedIn(S)') <= BackgroundLimit
            BY <1>2, <2>2, <3>1, <3>2, <3>3, LimitPreserved, BackgroundLimitTyped DEF CapInv
        <3> QED
            BY <3>4 DEF S
    <2>5. ASSUME NEW k \in DOMAIN CapLimit, CapLimit[k] > 0
          PROVE  Cardinality(CountedIn({j \in Jobs : CapKey[j] = k})') <= CapLimit[k]
        <3> DEFINE S == {j \in Jobs : CapKey[j] = k}
        <3>1. ASSUME NEW w \in Workers, NEW j \in S, Take(w, j)
              PROVE  Cardinality(CountedIn(S)) < CapLimit[k]
            <4>1. Eligible(j)
                BY <3>1 DEF Take, Selectable
            <4>2. {i \in ActiveOrStarting : CapKey[i] = CapKey[j]} = CountedIn(S)
                BY <1>2, <3>1
                DEF CountedIn, ActiveOrStarting, CapInv, AnswerInv, HolderInv, TypeOK
            <4> QED
                BY <2>5, <3>1, <4>1, <4>2 DEF Eligible
        <3>2. Cardinality(CountedIn(S)) <= CapLimit[k]
            BY <1>2, <2>2, <2>5 DEF CapInv
        <3>3. S \in SUBSET Jobs /\ CapLimit[k] \in Nat
            BY SchedulerAssumption
        <3> HIDE DEF S
        <3>4. Cardinality(CountedIn(S)') <= CapLimit[k]
            BY <1>2, <2>2, <3>1, <3>2, <3>3, LimitPreserved DEF CapInv
        <3> QED
            BY <3>4 DEF S
    <2> QED
        BY <2>4, <2>5
<1> QED
    BY <1>1, <1>2, PTL DEF Spec

\* No more tasks execute the jobs of a group than jobs of the group count.
LEMMA ExecutingBounded ==
    ASSUME AnswerInv, Marked, Orderly, NEW S \in SUBSET Jobs, NEW N \in Nat,
           Cardinality(CountedIn(S)) <= N
    PROVE  Cardinality(ExecutingIn(S)) <= N
<1>0. TypeOK /\ OneHolder /\ Holder /\ Progress
    BY DEF AnswerInv, HolderInv
<1> DEFINE job == [w \in ExecutingIn(S) |-> wjob[w]]
<1>1. ASSUME NEW w \in ExecutingIn(S)
      PROVE  /\ w \in Workers
             /\ wjob[w] \in CountedIn(S)
             /\ active[wjob[w]] = w
    <2>1. /\ w \in Workers
          /\ wjob[w] \in S
          /\ wjob[w] \in Jobs
          /\ wjob[w] # NoJob
        BY SchedulerAssumption DEF ExecutingIn, Executing
    <2>2. \/ status[wjob[w]] = "running"
          \/ status[wjob[w]] = "queued" /\ wjob[w] \in starting
        BY <1>0, <2>1 DEF ExecutingIn, Executing, Progress, Marked
    <2>3. wjob[w] \in jobs
        BY <2>1, <2>2 DEF AnswerInv, FutureFollowsStatus, Live
    <2> QED
        BY <1>0, <2>1, <2>2, <2>3 DEF OneHolder, CountedIn, ActiveOrStarting
<1>2. job \in Injection(ExecutingIn(S), CountedIn(S))
    BY <1>1 DEF Injection, IsInjective
<1>3. /\ IsFiniteSet(ExecutingIn(S))
      /\ Cardinality(ExecutingIn(S)) <= Cardinality(CountedIn(S))
    BY <1>0, <1>2, CountedFinite, FS_Injection
<1> QED
    BY <1>0, <1>3, CountedFinite, FS_CardinalityType

\* Background work never occupies more workers than the policy leaves to it.
THEOREM BackgroundLimited == Spec => []BackgroundBound
<1>1. CapInv => BackgroundBound
    <2> DEFINE S == {j \in Jobs : Lane[j] = "background"}
    <2> SUFFICES ASSUME CapInv, Orderly
                 PROVE  Cardinality(ExecutingIn(S)) <= BackgroundLimit
        BY DEF BackgroundBound
    <2>1. S \in SUBSET Jobs /\ Cardinality(CountedIn(S)) <= BackgroundLimit
        BY DEF CapInv
    <2> HIDE DEF S
    <2> QED
        BY <2>1, ExecutingBounded, BackgroundLimitTyped DEF CapInv
<1> QED
    BY <1>1, CapInvariant, PTL

\* No two jobs of a capped subsystem overlap beyond its cap.
THEOREM CapsHold == Spec => []CapRespected
<1>1. CapInv => CapRespected
    <2> SUFFICES ASSUME CapInv, Orderly, NEW k \in DOMAIN CapLimit, CapLimit[k] > 0
                 PROVE  Cardinality(ExecutingIn({j \in Jobs : CapKey[j] = k})) <= CapLimit[k]
        BY DEF CapRespected
    <2> DEFINE S == {j \in Jobs : CapKey[j] = k}
    <2>1. S \in SUBSET Jobs /\ Cardinality(CountedIn(S)) <= CapLimit[k]
        BY DEF CapInv
    <2>2. CapLimit[k] \in Nat
        BY SchedulerAssumption
    <2> HIDE DEF S
    <2>3. Cardinality(ExecutingIn(S)) <= CapLimit[k]
        BY <2>1, <2>2, ExecutingBounded DEF CapInv
    <2> QED
        BY <2>3 DEF S
<1> QED
    BY <1>1, CapInvariant, PTL

-------------------------------------------------------------------------------
(* Wakeups.                                                                *)

\* More jobs that count and fewer that wait leave fewer to select.
LEMMA FewerSelectable ==
    ASSUME TypeOK, TypeOK', ActiveOrStarting \subseteq ActiveOrStarting',
           pending' \subseteq pending,
           \A j \in pending' : status'[j] = "queued" => status[j] = "queued"
    PROVE  Selectable' \subseteq Selectable
<1>1. IsFiniteSet(ActiveOrStarting')
    <2>1. ActiveOrStarting' \in SUBSET Jobs
        BY DEF ActiveOrStarting, TypeOK
    <2> QED
        BY <2>1, FS_Subset, SchedulerAssumption
<1>2. ASSUME NEW A \in SUBSET ActiveOrStarting, NEW B \in SUBSET ActiveOrStarting',
             A \subseteq B
      PROVE  /\ Cardinality(A) \in Nat /\ Cardinality(B) \in Nat
             /\ Cardinality(A) <= Cardinality(B)
    BY <1>1, <1>2, FS_Subset, FS_CardinalityType
<1>3. ASSUME NEW j \in Selectable'
      PROVE  j \in Selectable
    <2>1. j \in pending /\ status[j] = "queued" /\ j \in Jobs /\ Eligible(j)'
        BY <1>3 DEF Selectable, TypeOK
    <2>2. BackgroundLimit \in Nat /\ CapLimit[CapKey[j]] \in Nat
        BY <2>1, BackgroundLimitTyped, SchedulerAssumption
    <2> DEFINE A == {k \in ActiveOrStarting : Lane[k] = "background"}
               B == {k \in ActiveOrStarting' : Lane[k] = "background"}
               C == {k \in ActiveOrStarting : CapKey[k] = CapKey[j]}
               D == {k \in ActiveOrStarting' : CapKey[k] = CapKey[j]}
    <2>3. /\ Cardinality(A) \in Nat /\ Cardinality(B) \in Nat
          /\ Cardinality(A) <= Cardinality(B)
        BY <1>2
    <2>4. /\ Cardinality(C) \in Nat /\ Cardinality(D) \in Nat
          /\ Cardinality(C) <= Cardinality(D)
        BY <1>2
    <2>5. /\ Lane[j] = "background" /\ BackgroundLimit > 0 => Cardinality(B) < BackgroundLimit
          /\ CapLimit[CapKey[j]] > 0 => Cardinality(D) < CapLimit[CapKey[j]]
        BY <2>1 DEF Eligible
    <2>6. /\ Lane[j] = "background" /\ BackgroundLimit > 0 => Cardinality(A) < BackgroundLimit
          /\ CapLimit[CapKey[j]] > 0 => Cardinality(C) < CapLimit[CapKey[j]]
        <3> HIDE DEF A, B, C, D
        <3> QED
            BY <2>2, <2>3, <2>4, <2>5
    <2>7. Eligible(j)
        BY <2>6 DEF Eligible
    <2> QED
        BY <2>1, <2>7 DEF Selectable
<1> QED
    BY <1>3

\* A step that leaves nobody asleep, or nothing to select, or somebody about to
\* notify, or that wakes nobody and gives no more to select.
LEMMA WakeupKept ==
    ASSUME NoLostWakeup, Orderly,
           \/ \A w \in Workers : wpc'[w] # "wait"
           \/ Selectable' = {}
           \/ AboutToNotify' # {}
           \/ /\ \A w \in Workers : wpc'[w] = "wait" => wpc[w] = "wait"
              /\ Selectable' \subseteq Selectable
              /\ AboutToNotify \subseteq AboutToNotify'
              /\ Leaked' = {} => Leaked = {}
    PROVE  NoLostWakeup'
BY DEF NoLostWakeup

\* When submit() or cancel() prunes records, the jobs that count are not among
\* them, unless an entry was leaked or a worker is about to notify.
LEMMA PrunedNotCounted ==
    ASSUME TypeOK, TypeOK', Holder', Orderly', Progress', UNCHANGED <<starting, wpc>>,
           Leaked' = {}, AboutToNotify' = {},
           \A j \in jobs : status'[j] \in Live => j \in jobs',
           \A j \in Jobs : status[j] = "running" => status'[j] = "running"
    PROVE  ActiveOrStarting \subseteq ActiveOrStarting'
<1> SUFFICES ASSUME NEW j \in ActiveOrStarting
             PROVE  j \in ActiveOrStarting'
    OBVIOUS
<1>1. j \in jobs /\ j \in Jobs /\ (status'[j] = "running" \/ j \in starting')
    BY DEF ActiveOrStarting, TypeOK
<1>2. status'[j] \in Live
    <2>1. CASE status'[j] = "running"
        BY <2>1 DEF Live
    <2>2. CASE j \in starting'
        <3>1. PICK w \in Workers : wjob'[w] = j
            BY <2>2 DEF Leaked
        <3>2. wpc'[w] \in TaskAlive /\ ~(wpc'[w] = "created" /\ w \in taskCancel')
            BY <3>1, <1>1, SchedulerAssumption DEF Holder, AboutToNotify
        <3> QED
            BY <3>1, <3>2 DEF Progress, Live, TaskAlive
    <2> QED
        BY <1>1, <2>1, <2>2
<1>3. j \in jobs'
    BY <1>1, <1>2
<1> QED
    BY <1>1, <1>3 DEF ActiveOrStarting

LEMMA WakeupPreserved ==
    ASSUME CapInv, CapInv', NoLostWakeup, [Next]_vars
    PROVE  NoLostWakeup'
<1> SUFFICES ASSUME Orderly'
             PROVE  NoLostWakeup'
    BY DEF NoLostWakeup
<1> USE DEF jobVars, queueVars, workerVars, stopVars
<1>0. /\ TypeOK /\ TypeOK' /\ Holder /\ Holder' /\ Progress /\ Progress'
      /\ OneHolder /\ Marked /\ Orderly
    BY OrderlyBefore DEF CapInv, AnswerInv, HolderInv
<1>1. ASSUME Start \/ StopEnds
      PROVE  NoLostWakeup'
    <2>1. \A w \in Workers : wpc'[w] # "wait"
        BY <1>1, <1>0 DEF Start, StopEnds
    <2> QED
        BY <1>0, <2>1, WakeupKept
<1>2. ASSUME NEW j \in Jobs, SubmitAccepted(j)
      PROVE  NoLostWakeup'
    BY <1>2, <1>0, WakeupKept DEF SubmitAccepted, Notified, TypeOK
<1>3. ASSUME NEW w \in Workers, Resume(w)
      PROVE  NoLostWakeup'
    BY <1>3, <1>0, WakeupKept DEF Resume, Notified, TypeOK
<1>4. ASSUME NEW w \in Workers, Park(w)
      PROVE  NoLostWakeup'
    <2>1. Selectable' = {}
        BY <1>4 DEF Park, Selectable, Eligible, ActiveOrStarting
    <2> QED
        BY <1>0, <2>1, WakeupKept
<1>5. ASSUME StopIdle \/ StopBusy
      PROVE  NoLostWakeup'
    <2>1. Selectable' = {}
        BY <1>5 DEF StopIdle, StopBusy, Selectable
    <2> QED
        BY <1>0, <2>1, WakeupKept
<1>6. ASSUME NEW w \in Workers, NEW outcome \in Terminal, TaskReturns(w, outcome)
      PROVE  NoLostWakeup'
    <2>1. w \in AboutToNotify'
        BY <1>6, <1>0 DEF TaskReturns, TypeOK, AboutToNotify, TaskEnded
    <2> QED
        BY <1>0, <2>1, WakeupKept
<1>7. ASSUME NEW w \in Workers, KilledBeforeBegin(w)
      PROVE  NoLostWakeup'
    <2>1. w \in AboutToNotify'
        BY <1>7, <1>0 DEF KilledBeforeBegin, TypeOK, AboutToNotify, TaskEnded
    <2> QED
        BY <1>0, <2>1, WakeupKept
<1>8. ASSUME NEW w \in Workers, NEW j \in Jobs, Take(w, j)
      PROVE  NoLostWakeup'
    <2>1. j \in pending /\ j \notin starting /\ wpc[w] = "scan" /\ wjob[w] = NoJob
        BY <1>8, <1>0 DEF Take, Selectable, Marked, Holder, TaskAlive, TaskEnded
    <2>2. Selectable' \subseteq Selectable
        BY <1>8, <1>0, FewerSelectable DEF Take, ActiveOrStarting
    <2>3. \A v \in Workers : wpc'[v] = "wait" => wpc[v] = "wait"
        BY <1>8, <1>0 DEF Take, TypeOK
    <2>4. AboutToNotify \subseteq AboutToNotify'
        BY <1>8, <1>0, <2>1 DEF Take, TypeOK, AboutToNotify, TaskEnded
    <2>5. Leaked' = {} => Leaked = {}
        <3> SUFFICES ASSUME Leaked' = {}, NEW k \in starting
                     PROVE  \E v \in Workers : wjob[v] = k
            BY DEF Leaked
        <3>1. PICK v \in Workers : wjob'[v] = k
            BY <1>8 DEF Take, Leaked
        <3> QED
            BY <1>8, <1>0, <2>1, <3>1 DEF Take, TypeOK
    <2> QED
        BY <1>0, <2>2, <2>3, <2>4, <2>5, WakeupKept
<1>9. ASSUME NEW w \in Workers, Begin(w)
      PROVE  NoLostWakeup'
    <2>1. wjob[w] \in Jobs
        BY <1>9, <1>0 DEF Begin, Holder, TypeOK, TaskAlive
    <2>2. ActiveOrStarting \subseteq ActiveOrStarting'
        BY <1>9, <1>0, <2>1 DEF Begin, TypeOK, ActiveOrStarting
    <2>3. Selectable' \subseteq Selectable
        <3>1. \A j \in Jobs : status'[j] = "queued" => status[j] = "queued"
            BY <1>9, <1>0 DEF Begin, TypeOK
        <3>2. pending' = pending
            BY <1>9 DEF Begin
        <3> QED
            BY <1>0, <2>2, <3>1, <3>2, FewerSelectable DEF TypeOK
    <2>4. \A v \in Workers : wpc'[v] = "wait" => wpc[v] = "wait"
        BY <1>9, <1>0 DEF Begin, TypeOK
    <2>5. AboutToNotify \subseteq AboutToNotify'
        BY <1>9, <1>0 DEF Begin, TypeOK, AboutToNotify, TaskEnded
    <2>6. Leaked' = {} => Leaked = {}
        BY <1>9, <2>1 DEF Begin, Leaked
    <2> QED
        BY <1>0, <2>3, <2>4, <2>5, <2>6, WakeupKept
<1>10. ASSUME NEW j \in Jobs, SubmitRejected(j) \/ CancelQueued(j)
       PROVE  NoLostWakeup'
    <2> SUFFICES ASSUME Leaked' = {}, AboutToNotify' = {}
                 PROVE  NoLostWakeup'
        BY DEF NoLostWakeup
    <2>1. UNCHANGED <<starting, wpc, wjob, taskCancel>>
        BY <1>10 DEF SubmitRejected, CancelQueued
    <2>2. \A k \in jobs : status'[k] \in Live => k \in jobs'
        BY <1>10 DEF SubmitRejected, CancelQueued, Finish, Prunable
    <2>3. \A k \in Jobs : /\ status[k] = "running" => status'[k] = "running"
                          /\ status'[k] = "queued" => status[k] = "queued"
        BY <1>10, <1>0 DEF SubmitRejected, CancelQueued, Finish, TypeOK
    <2>4. pending' \subseteq pending
        BY <1>10 DEF SubmitRejected, CancelQueued
    <2>5. ActiveOrStarting \subseteq ActiveOrStarting'
        BY <1>0, <2>1, <2>2, <2>3, PrunedNotCounted
    <2>6. Selectable' \subseteq Selectable
        BY <1>0, <2>3, <2>4, <2>5, FewerSelectable DEF TypeOK
    <2>7. Leaked = {} /\ AboutToNotify = {}
        BY <2>1 DEF Leaked, AboutToNotify
    <2> QED
        BY <1>0, <2>1, <2>6, <2>7, WakeupKept
<1>11. ASSUME UNCHANGED <<jobs, status, pending, seq, starting, wjob>>,
              \A w \in Workers : wpc'[w] = "wait" => wpc[w] = "wait",
              AboutToNotify \subseteq AboutToNotify'
       PROVE  NoLostWakeup'
    <2>1. Selectable' = Selectable /\ Leaked' = Leaked
        BY <1>11 DEF Selectable, Eligible, ActiveOrStarting, Leaked
    <2> QED
        BY <1>0, <1>11, <2>1, WakeupKept
<1>12. ASSUME NEW j \in Jobs, CancelActive(j) \/ CancelTooLate(j)
       PROVE  NoLostWakeup'
    BY <1>12, <1>11 DEF CancelActive, CancelTaskOf, CancelTooLate, AboutToNotify
<1>13. ASSUME NEW w \in Workers,
              WorkerCancelled(w) \/ ToolFailsAndRetries(w) \/ BackoffEnds(w)
       PROVE  NoLostWakeup'
    <2>1. UNCHANGED <<jobs, status, pending, seq, starting, wjob>>
        BY <1>13 DEF WorkerCancelled, ToolFailsAndRetries, BackoffEnds
    <2>2. \A v \in Workers : wpc'[v] = "wait" => wpc[v] = "wait"
        BY <1>13, <1>0 DEF WorkerCancelled, ToolFailsAndRetries, BackoffEnds, TypeOK
    <2>3. AboutToNotify \subseteq AboutToNotify'
        BY <1>13, <1>0
        DEF WorkerCancelled, ToolFailsAndRetries, BackoffEnds, TypeOK, AboutToNotify, TaskEnded
    <2> QED
        BY <1>11, <2>1, <2>2, <2>3
<1>14. ASSUME StopCancelsWorkers \/ UNCHANGED vars
       PROVE  NoLostWakeup'
    BY <1>14, <1>11 DEF StopCancelsWorkers, CancelWorkers, vars, AboutToNotify, TaskAlive
<1>15. ~StopAborts
    BY DEF StopAborts, Orderly
<1> QED
    <2>1. CASE \E j \in Jobs : SubmitAccepted(j) \/ SubmitRejected(j)
        BY <2>1, <1>2, <1>10
    <2>2. CASE \E j \in Cancellable : Cancel(j)
        BY <2>2, <1>10, <1>12, SchedulerAssumption DEF Cancel
    <2>3. CASE \E w \in Workers : WorkerStep(w)
        BY <2>3, <1>3, <1>4, <1>8, <1>13 DEF WorkerStep
    <2>4. CASE \E w \in Workers : TaskStep(w)
        BY <2>4, <1>6, <1>7, <1>9, <1>13
        DEF TaskStep, ToolSucceeds, ToolFails, ToolTimesOut, CancelDelivered, Terminal
    <2>5. CASE StopBegin \/ Start \/ StopCancelsWorkers \/ StopEnds \/ UNCHANGED vars
        BY <2>5, <1>1, <1>5, <1>14, <1>15 DEF StopBegin
    <2> QED
        BY <2>1, <2>2, <2>3, <2>4, <2>5 DEF Next, LoopNext

\* No wakeup is lost, unless an entry of _starting_job_ids was leaked: a worker
\* sleeps beside a job that could start only while another is about to notify.
THEOREM WakeupNotLost == Spec => []NoLostWakeup
<1>1. Init => NoLostWakeup
    BY DEF Init, NoLostWakeup
<1>2. CapInv /\ CapInv' /\ NoLostWakeup /\ [Next]_vars => NoLostWakeup'
    BY WakeupPreserved
<1> QED
    BY <1>1, <1>2, CapInvariant, PTL DEF Spec
===============================================================================
