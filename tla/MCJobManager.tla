----------------------------- MODULE MCJobManager -----------------------------
(* Instances of JobManager for TLC: a background job and a normal job of one   *)
(* capped subsystem, and a second background job, on two workers.              *)
EXTENDS JobManager, TLC

CONSTANTS b1, b2, n1

MCJobs == {b1, b2, n1}
MCLane == [j \in MCJobs |-> IF j = n1 THEN "normal" ELSE "background"]
MCPriority == [j \in MCJobs |-> IF j = n1 THEN "normal" ELSE "maintenance"]
MCCapKey == [j \in MCJobs |-> IF j = b2 THEN "none" ELSE "verify"]
MCCapLimit == [verify |-> 1, none |-> 0]
MCCancellable == {b1, n1}

MCSymmetry == Permutations(Workers)

MCMaxAttempts == [j \in MCJobs |-> IF j = n1 THEN 2 ELSE 1]
===============================================================================
