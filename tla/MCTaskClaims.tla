---------------------------- MODULE MCTaskClaims ----------------------------
(* TaskClaims on two tasks, the second depending on the first or on none.   *)
EXTENDS TaskClaims, TLC

CONSTANTS t1, t2

\* The first task waits for any worker; the second depends on it and is set
\* aside for one worker.
MCInitTasks ==
  {[t \in {t1, t2} |->
      IF t = t1 THEN [status |-> "pending", owner |-> None, deps |-> {}]
                ELSE [status |-> "blocked", owner |-> w, deps |-> {t1}]] :
     w \in Worker}

MCDepSets == {{t1}}

\* Processes are interchangeable, and so are workers.
Symmetry == Permutations(Actor) \cup Permutations(Worker)
=============================================================================
