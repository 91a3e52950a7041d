--------------------------- MODULE MCTeamMonitor ---------------------------
(* TeamMonitor on one task or two, with waiting tasks only.                 *)
EXTENDS TeamMonitor, TLC

\* Independent tasks that wait for any worker.
MCInitTasks ==
  {[t \in Task |-> [status |-> "pending", owner |-> None, deps |-> {}]]}
=============================================================================
