-------------------------- MODULE JobManagerThreaded --------------------------
(***************************************************************************)
(* The scheduler with cancel() where the HTTP endpoint really runs it: the *)
(* handler of POST /jobs/{id}/cancel (core/api/app.py) is a plain `def`,   *)
(* so it runs in a thread of the server's pool, and JobManager.cancel is   *)
(* interleaved, statement by statement, with the steps of the event loop.  *)
(*                                                                         *)
(* tpc[c] is the next statement of caller c:                               *)
(*   idle    not in cancel()                                               *)
(*   test    about to compare job.status with QUEUED                       *)
(*   filter  about to build the list of _remove_pending_job                *)
(*   assign  about to store that list in _pending_jobs                     *)
(*   mark    about to set CANCELLED and finalize                           *)
(***************************************************************************)
EXTENDS JobManager

CONSTANT Callers  \* the pool's threads that may be in cancel()

VARIABLES
    tpc,       \* see above
    tjob,      \* the job a caller cancels
    filtered   \* the list a caller built and has not stored yet

threadVars == <<tpc, tjob, filtered>>

InitThreaded ==
    /\ Init
    /\ tpc = [c \in Callers |-> "idle"]
    /\ tjob = [c \in Callers |-> NoJob]
    /\ filtered = [c \in Callers |-> {}]

Goto(c, label) == tpc' = [tpc EXCEPT ![c] = label]

\* Up to the lookup in _active_tasks: cancel the task when there is one.
Ask(c, j) ==
    /\ tpc[c] = "idle"
    /\ j \in jobs
    /\ cancelAsked' = [cancelAsked EXCEPT ![j] = TRUE]
    /\ IF active[j] # NoWorker
       THEN taskCancel' = CancelTaskOf(j) /\ UNCHANGED <<tpc, tjob>>
       ELSE Goto(c, "test") /\ tjob' = [tjob EXCEPT ![c] = j] /\ UNCHANGED taskCancel
    /\ UNCHANGED <<filtered, stopVars, jobVars, queueVars, starting, active, attempts, wpc, wjob,
                   wcancel>>

TestQueued(c) ==
    /\ tpc[c] = "test"
    /\ Goto(c, IF status[tjob[c]] = "queued" THEN "filter" ELSE "idle")
    /\ UNCHANGED <<tjob, filtered, vars>>

FilterPending(c) ==
    /\ tpc[c] = "filter"
    /\ filtered' = [filtered EXCEPT ![c] = pending \ {tjob[c]}]
    /\ Goto(c, "assign")
    /\ UNCHANGED <<tjob, vars>>

AssignPending(c) ==
    /\ tpc[c] = "assign"
    /\ pending' = filtered[c]
    /\ Goto(c, "mark")
    /\ UNCHANGED <<tjob, filtered, stopVars, jobVars, seq, submitted, starting, active, attempts,
                   cancelAsked, workerVars>>

MarkCancelled(c) ==
    /\ tpc[c] = "mark"
    /\ Finish({tjob[c]}, "cancelled")
    /\ Goto(c, "idle")
    /\ UNCHANGED <<tjob, filtered, stopVars, queueVars, starting, active, attempts, cancelAsked,
                   workerVars>>

CallerStep(c) ==
    \/ \E j \in Cancellable : Ask(c, j)
    \/ TestQueued(c)
    \/ FilterPending(c)
    \/ AssignPending(c)
    \/ MarkCancelled(c)

NextThreaded ==
    \/ LoopNext /\ UNCHANGED threadVars
    \/ \E c \in Callers : CallerStep(c)

SpecThreaded == InitThreaded /\ [][NextThreaded]_<<vars, threadVars>>

\* docs/latency-tracing.md:477 says queued cancellation and running cancellation
\* are separate states: a job cancelled while queued does not go on to run.
CancelledStaysCancelled ==
    [][\A j \in Jobs : status[j] = "cancelled" => status'[j] # "running"]_vars
===============================================================================
