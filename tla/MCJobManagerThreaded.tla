------------------------- MODULE MCJobManagerThreaded -------------------------
(* Two uncapped jobs, one worker and one thread that cancels.                  *)
EXTENDS JobManagerThreaded

CONSTANTS n1, n2

MCJobs == {n1, n2}
MCLane == [j \in MCJobs |-> "normal"]
MCPriority == [j \in MCJobs |-> "normal"]
MCCapKey == [j \in MCJobs |-> "none"]
MCCapLimit == [none |-> 0]
MCMaxAttempts == [j \in MCJobs |-> 1]
===============================================================================
