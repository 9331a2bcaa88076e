----------------------------- MODULE JobLifecycle -----------------------------
(***************************************************************************)
(* What the scheduler promises its callers about one job at a time         *)
(* (core/jobs/models.py, JobStatus, and the futures behind wait()): a job  *)
(* is accepted or refused, begins at most once, ends once, and is answered *)
(* in the step that ends it.  Queues, workers and caps do not appear.      *)
(***************************************************************************)
CONSTANT Jobs

VARIABLES
    status,   \* where each job is
    answered  \* the jobs whose submitter has been given the outcome

vars == <<status, answered>>

Init ==
    /\ status = [j \in Jobs |-> "new"]
    /\ answered = {}

Accept(j) ==
    /\ status[j] = "new"
    /\ status' = [status EXCEPT ![j] = "queued"]
    /\ UNCHANGED answered

Refuse(j) ==
    /\ status[j] = "new"
    /\ status' = [status EXCEPT ![j] = "failed"]
    /\ answered' = answered \cup {j}

Begin(j) ==
    /\ status[j] = "queued"
    /\ status' = [status EXCEPT ![j] = "running"]
    /\ UNCHANGED answered

End(j, outcome) ==
    /\ status[j] = "running"
    /\ status' = [status EXCEPT ![j] = outcome]
    /\ answered' = answered \cup {j}

\* A shutdown withdraws every queued job in one step, a cancel one job.
Withdraw(S) ==
    /\ \A j \in S : status[j] = "queued"
    /\ status' = [j \in Jobs |-> IF j \in S THEN "cancelled" ELSE status[j]]
    /\ answered' = answered \cup S

Next ==
    \/ \E j \in Jobs :
           \/ Accept(j)
           \/ Refuse(j)
           \/ Begin(j)
           \/ \E outcome \in {"completed", "failed", "cancelled", "timed_out"} : End(j, outcome)
    \/ \E S \in SUBSET Jobs : Withdraw(S)

Spec == Init /\ [][Next]_vars
===============================================================================
