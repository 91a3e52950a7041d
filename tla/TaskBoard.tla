----------------------------- MODULE TaskBoard -----------------------------
(***************************************************************************)
(* What the task API of the team state promises: a board of tasks on which *)
(* every call takes effect at one instant, on the board as it is then, or  *)
(* not at all.  There are no locks, no files read earlier and written      *)
(* later, and no processes; a task is started under a lease exactly when   *)
(* all it depends on is completed, and only its end, its return or the     *)
(* lapse of the lease takes it from the worker.  This is the abstract      *)
(* specification that TaskClaims implements, for workers alone and beside  *)
(* the passes of TeamMonitor.                                              *)
(***************************************************************************)
EXTENDS Naturals

CONSTANTS Worker, Task, None

VARIABLES
  board,   \* board[t]: its status and owner, its lease or None, what it needs
  drawn,   \* leases granted so far: 1 .. drawn
  lapsed,  \* the leases whose time is over
  spent    \* the leases that their holders have ended or returned

bvars == <<board, drawn, lapsed, spent>>

Init ==
  /\ board \in [Task -> [status : {"pending", "blocked"}, owner : Worker \cup {None},
                         lease : {None}, deps : SUBSET Task]]
  /\ drawn = 0
  /\ lapsed = {}
  /\ spent = {}

Waiting(t) == board[t].status \in {"pending", "blocked"}
Leased(t) == board[t].lease # None
Abandoned(t) == Leased(t) /\ board[t].lease \in lapsed
Ready(t) == \A d \in board[t].deps : board[d].status = "completed"

\* A worker takes a task that waits for it, or that another has abandoned.
Take(t, w) ==
  /\ Ready(t)
  /\ \/ Waiting(t) /\ board[t].owner \in {None, w}
     \/ Abandoned(t)
  /\ drawn' = drawn + 1
  /\ board' = [board EXCEPT ![t] =
                  [@ EXCEPT !.status = "in_progress", !.owner = w, !.lease = drawn + 1]]
  /\ UNCHANGED <<lapsed, spent>>

\* Its holder ends it ...
End(t, end) ==
  /\ Leased(t)
  /\ board' = [board EXCEPT ![t] = [@ EXCEPT !.status = end, !.lease = None]]
  /\ spent' = spent \cup {board[t].lease}
  /\ UNCHANGED <<drawn, lapsed>>

\* ... or puts it back for anyone; or it is put back because it was abandoned.
PutBack(t) ==
  /\ Leased(t)
  /\ board' = [board EXCEPT ![t] =
                  [@ EXCEPT !.status = "pending", !.owner = None, !.lease = None]]
  /\ \/ spent' = spent \cup {board[t].lease}
     \/ Abandoned(t) /\ spent' = spent
  /\ UNCHANGED <<drawn, lapsed>>

\* What a task depends on may be edited at any time.
Edit(t, deps) ==
  /\ board' = [board EXCEPT ![t] = [@ EXCEPT !.deps = deps]]
  /\ UNCHANGED <<drawn, lapsed, spent>>

Lapse(t) ==
  /\ Leased(t)
  /\ lapsed' = lapsed \cup {board[t].lease}
  /\ UNCHANGED <<board, drawn, spent>>

Next ==
  \E t \in Task :
    \/ \E w \in Worker : Take(t, w)
    \/ \E end \in {"completed", "failed"} : End(t, end)
    \/ PutBack(t)
    \/ \E deps \in SUBSET Task : Edit(t, deps)
    \/ Lapse(t)

Spec == Init /\ [][Next]_bvars
=============================================================================
