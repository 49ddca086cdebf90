----------------------------- MODULE MCJobQueue -----------------------------
(* The job queue with a low-priority task and more urgent rows.            *)
EXTENDS JobQueue

CONSTANTS task, urgent

TaskIsLeastUrgent == [j \in Jobs |-> IF j = task THEN 0 ELSE 1]
=============================================================================
