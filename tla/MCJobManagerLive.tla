--------------------------- MODULE MCJobManagerLive ---------------------------
(* JobManager with two jobs of one capped subsystem on two workers, small      *)
(* enough for temporal properties: the second job to be taken waits for the    *)
(* first, the normal one may be retried, and both may be cancelled.            *)
EXTENDS JobManager

CONSTANTS b1, n1

MCJobs == {b1, n1}
MCLane == [j \in MCJobs |-> IF j = n1 THEN "normal" ELSE "background"]
MCPriority == [j \in MCJobs |-> IF j = n1 THEN "normal" ELSE "maintenance"]
MCCapKey == [j \in MCJobs |-> "verify"]
MCCapLimit == [verify |-> 1]
MCMaxAttempts == [j \in MCJobs |-> IF j = n1 THEN 2 ELSE 1]
===============================================================================
