------------------------------- MODULE Mutex -------------------------------
(***************************************************************************)
(* What the file locks of the team state promise their callers: the body   *)
(* passed to a with...Lock function runs while no other process runs a     *)
(* body under the same lock.  This is the abstract specification that      *)
(* DirLock (the mkdir / owner-file protocol) implements, and the lock that *)
(* TaskClaims takes for granted.                                           *)
(***************************************************************************)
CONSTANT Proc           \* the processes that may take the lock

VARIABLE holders        \* the processes now running a body under the lock

Init == holders = {}

\* The body of p starts: only when nobody runs one.
Enter(p) == holders = {} /\ holders' = {p}

\* The body of p ends (return, exception or death of the process).
Leave(p) == p \in holders /\ holders' = holders \ {p}

Next == \E p \in Proc : Enter(p) \/ Leave(p)

Spec == Init /\ [][Next]_holders

=============================================================================
