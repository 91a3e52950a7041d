---------------------------- MODULE TaskClaims ----------------------------
(***************************************************************************)
(* Team tasks and the leases workers hold on them: the task API of         *)
(* src/src/team/state/tasks.ts (claimTask, transitionTaskStatus,           *)
(* releaseTaskClaim, reclaimExpiredTaskClaim) and updateTask of            *)
(* src/src/team/state.ts, called by any number of processes.               *)
(*                                                                         *)
(* A call takes the claim lock of its task, reads the task file, checks    *)
(* its conditions, writes the file whole from what it read, appends an     *)
(* event, releases the lock; a completing transition then marks the task   *)
(* in the monitor snapshot, outside any lock.  Each of these is a step of  *)
(* its own, since each is an await.  The lock is the abstract one of Mutex *)
(* (see DirLock for how far the code provides it).                         *)
(*                                                                         *)
(* Left out: the texts of a task, its result and its error.                *)
(***************************************************************************)
EXTENDS Naturals, FiniteSets

CONSTANTS
  Actor,          \* processes that call the API, one call at a time each
  Worker,         \* worker names of the team
  Task,           \* task ids
  None,           \* an absent owner, claim, snapshot, ...
  InitTasks,      \* the possible [status, owner, deps] of the tasks at creation
  DepSets,        \* the dependency sets that an update may ask for
  NeedsEvidence,  \* tasks whose delegation plan demands compliance evidence
  MaxToken,       \* bound on claims granted
  MaxUpdates,     \* bound on update-task calls
  MaxCrashes      \* bound on processes dying inside a call

ASSUME NoneAssumption == None \notin Actor \cup Worker \cup Task
ASSUME OrphanAssumption == "orphan" \notin Actor
ASSUME InitAssumption ==
  InitTasks \subseteq
    [Task -> [status : {"pending", "blocked"}, owner : Worker \cup {None},
              deps : SUBSET Task]]
ASSUME DepsAssumption == DepSets \subseteq SUBSET Task
ASSUME BoundAssumption == MaxToken \in Nat /\ MaxUpdates \in Nat /\ MaxCrashes \in Nat
ASSUME EvidenceAssumption == NeedsEvidence \subseteq Task

TaskStatus == {"pending", "blocked", "in_progress", "completed", "failed"}
Terminal == {"completed", "failed"}
Token == 1 .. MaxToken
Claim == [owner : Worker, token : Token]
TaskRecord == [status : TaskStatus, owner : Worker \cup {None},
               claim : Claim \cup {None}, deps : SUBSET Task,
               version : Nat \ {0}]

ClaimRequest == [op : {"claim"}, task : Task, worker : Worker, expected : Nat]
EndRequest == [op : {"end"}, task : Task, token : Token, to : Terminal]
ReleaseRequest == [op : {"release"}, task : Task, token : Token]
ReclaimRequest == [op : {"reclaim"}, task : Task]
UpdateRequest == [op : {"update"}, task : Task, deps : SUBSET Task]
TouchRequest == [op : {"touch"}, task : Task]
Request == ClaimRequest \cup EndRequest \cup ReleaseRequest
             \cup ReclaimRequest \cup UpdateRequest \cup TouchRequest

\* What readMonitorSnapshot returns, as far as tasks are concerned: the status
\* last seen (None if never) and completedEventTaskIds.
Snapshot == [known : [Task -> TaskStatus \cup {None}], flagged : SUBSET Task]

ASSUME AbsentAssumption ==
  None \notin TaskRecord \cup TaskStatus \cup Claim \cup Token \cup Request \cup Snapshot

EventCap == 2  \* counting to two tells a duplicate from a single event

VARIABLES
  task,      \* task[t]: the contents of task-<t>.json
  lock,      \* lock[t]: the actor in the claim lock of t, None, or "orphan"
  issued,    \* claim tokens drawn so far: 1 .. issued
  lapsed,    \* the tokens whose leased_until has passed
  step,      \* step[p]: the next step of the call of p
  req,       \* req[p]: the arguments of the call
  view,      \* view[p]: the task as the call read it under the lock
  events,    \* events[t][e]: task_completed / task_failed events of t
  snapshot,  \* the monitor snapshot file
  base,      \* base[p]: the snapshot as a completing transition read it
  updates,   \* update-task calls so far
  crashes,   \* processes that died inside a call
  grant,     \* history: grant[k] is the task that token k was drawn for
  spent      \* history: the tokens whose holder ended or released the task

files == <<task, events, snapshot>>
local == <<step, req, view, base>>
counts == <<updates, crashes>>
history == <<grant, spent>>
vars == <<task, lock, issued, lapsed, step, req, view, events,
          snapshot, base, updates, crashes, grant, spent>>

Steps == {"idle", "acquire", "check", "write", "append", "unlock",
          "markRead", "markWrite"}
Locked == {"check", "write", "append", "unlock"}

TypeOK ==
  /\ task \in [Task -> TaskRecord]
  /\ lock \in [Task -> Actor \cup {None, "orphan"}]
  /\ issued \in 0 .. MaxToken
  /\ lapsed \subseteq 1 .. issued
  /\ step \in [Actor -> Steps]
  /\ req \in [Actor -> Request \cup {None}]
  /\ view \in [Actor -> TaskRecord \cup {None}]
  /\ events \in [Task -> [Terminal -> 0 .. EventCap]]
  /\ snapshot \in Snapshot \cup {None}
  /\ base \in [Actor -> Snapshot \cup {None}]
  /\ updates \in 0 .. MaxUpdates
  /\ crashes \in 0 .. MaxCrashes
  /\ grant \in [Token -> Task \cup {None}]
  /\ spent \subseteq 1 .. issued

\* The tasks as createTask leaves them: unclaimed, perhaps assigned to a
\* worker or declared blocked.
Init ==
  /\ \E init \in InitTasks :
       task = [t \in Task |->
                 [status |-> init[t].status, owner |-> init[t].owner,
                  claim |-> None, deps |-> init[t].deps, version |-> 1]]
  /\ lock = [t \in Task |-> None]
  /\ issued = 0
  /\ lapsed = {}
  /\ step = [p \in Actor |-> "idle"]
  /\ req = [p \in Actor |-> None]
  /\ view = [p \in Actor |-> None]
  /\ events = [t \in Task |-> [e \in Terminal |-> 0]]
  /\ snapshot = None
  /\ base = [p \in Actor |-> None]
  /\ updates = 0
  /\ crashes = 0
  /\ grant = [k \in Token |-> None]
  /\ spent = {}

-----------------------------------------------------------------------------
(* The conditions of the API.                                              *)

\* computeTaskReadiness: every dependency is completed, by its file now.
Ready(t) == \A d \in task[t].deps : task[d].status = "completed"

\* Mutation of Expired: any claim counts as lapsed.
ExpiredWithAnyClaim(v) == v.claim # None

\* The lease of the claim v carries has run out (isClaimLeaseExpired: false
\* when there is no claim).
Expired(v) == v.claim # None /\ v.claim.token \in lapsed

\* Mutation of Claimable: finished tasks can be claimed again.
ClaimableOnceFinished(v, w) ==
  \/ v.status \in {"in_progress", "completed", "failed"} /\ (v.claim # None => Expired(v))
  \/ v.status \in {"pending", "blocked"} /\ v.owner \in {None, w}

\* claimTask on the task v for worker w: an unfinished task whose claim, if
\* any, has lapsed.  One in progress gives up its owner with the lapsed claim,
\* and without a claim stays with it; a waiting one is kept for its owner.
Claimable(v, w) ==
  \/ v.status = "in_progress" /\ Expired(v)
  \/ /\ v.status \in {"pending", "blocked"}
     /\ v.claim = None \/ Expired(v)
     /\ v.owner \in {None, w}

\* The caller presents the token of the claim on v, in time.
HoldsLease(v, k) ==
  /\ v.owner # None
  /\ v.claim # None
  /\ v.claim.owner = v.owner
  /\ v.claim.token = k
  /\ k \notin lapsed

\* Mutation of ClaimAllowed: readiness is not checked again under the lock.
ClaimAllowedUnchecked(r, v) ==
  (r.expected # 0 => v.version = r.expected) /\ Claimable(v, r.worker)

\* What each operation r demands of the task v it has read: claimTask ...
ClaimAllowed(r, v) ==
  /\ r.expected # 0 => v.version = r.expected
  /\ Ready(r.task)
  /\ Claimable(v, r.worker)

\* ... transitionTaskStatus, releaseTaskClaim ...
EndAllowed(r, v) == v.status = "in_progress" /\ HoldsLease(v, r.token)
ReleaseAllowed(r, v) == v.status \notin Terminal /\ HoldsLease(v, r.token)

\* Mutation of ReclaimAllowed: the age test is inverted.
ReclaimAllowedWhileLive(r, v) ==
  v.status = "in_progress" /\ v.claim # None /\ ~Expired(v)

\* ... and reclaimExpiredTaskClaim: nothing but a lapsed claim is taken back.
ReclaimAllowed(r, v) == v.status = "in_progress" /\ Expired(v)

\* The checks that the call of p makes before it writes.
Accepts(p) ==
  LET r == req[p]
      v == view[p]
  IN CASE r.op = "claim"   -> ClaimAllowed(r, v)
       [] r.op = "end"     -> EndAllowed(r, v)
       [] r.op = "release" -> ReleaseAllowed(r, v)
       [] r.op = "reclaim" -> ReclaimAllowed(r, v)
       [] r.op \in {"update", "touch"} -> TRUE

\* Mutation of Granted: the claim names the previous owner.
GrantedForOldOwner(v, w) ==
  [v EXCEPT !.status = "in_progress", !.owner = w,
            !.claim = [owner |-> v.owner, token |-> issued + 1]]

\* The task v under a new lease for worker w.
Granted(v, w) ==
  [v EXCEPT !.status = "in_progress", !.owner = w,
            !.claim = [owner |-> w, token |-> issued + 1]]

\* The record that the call of p writes, built from its view.
Updated(p) ==
  LET r == req[p]
      v == [view[p] EXCEPT !.version = @ + 1]
  IN CASE r.op = "claim" -> Granted(v, r.worker)
       [] r.op = "end" -> [v EXCEPT !.status = r.to, !.claim = None]
       [] r.op \in {"release", "reclaim"} ->
            [v EXCEPT !.status = "pending", !.owner = None, !.claim = None]
       [] r.op = "update" -> [v EXCEPT !.deps = r.deps]
       [] r.op = "touch" -> v

-----------------------------------------------------------------------------
(* The steps of a call.                                                    *)

Goto(p, s) == step' = [step EXCEPT ![p] = s]

\* The call of p returns.
Return(p) ==
  /\ Goto(p, "idle")
  /\ req' = [req EXCEPT ![p] = None]
  /\ view' = [view EXCEPT ![p] = None]
  /\ base' = [base EXCEPT ![p] = None]

Begin(p, r) ==
  /\ step[p] = "idle"
  /\ Goto(p, "acquire")
  /\ req' = [req EXCEPT ![p] = r]
  /\ UNCHANGED <<files, lock, issued, lapsed, view, base, crashes, history>>

\* claimTask, up to its lock: refused when a dependency is still open.  An
\* expected version of 0 stands for null.
CallClaim(p) ==
  /\ issued < MaxToken
  /\ UNCHANGED updates
  /\ \E t \in Task, w \in Worker :
       /\ Ready(t)
       /\ \E e \in {0, task[t].version} :
            Begin(p, [op |-> "claim", task |-> t, worker |-> w, expected |-> e])

\* transitionTaskStatus(in_progress -> to); any other pair is turned down
\* before the lock.  Callers present tokens they were once given for the task.
CallEnd(p) ==
  /\ UNCHANGED updates
  /\ \E t \in Task, k \in 1 .. issued, to \in Terminal :
    /\ grant[k] = t
    /\ Begin(p, [op |-> "end", task |-> t, token |-> k, to |-> to])

CallRelease(p) ==
  /\ UNCHANGED updates
  /\ \E t \in Task, k \in 1 .. issued :
    /\ grant[k] = t
    /\ Begin(p, [op |-> "release", task |-> t, token |-> k])

\* reclaimExpiredTaskClaim, which monitorTeam calls for a task that it has
\* listed as in progress under a lapsed claim.
CallReclaim(p) ==
  /\ UNCHANGED updates
  /\ \E t \in Task :
    /\ task[t].status = "in_progress" /\ Expired(task[t])
    /\ Begin(p, [op |-> "reclaim", task |-> t])

\* The update-task operation, which may change what a task depends on but not
\* its lifecycle fields.
CallUpdate(p) ==
  \E t \in Task, deps \in DepSets :
    /\ updates < MaxUpdates
    /\ updates' = updates + 1
    /\ Begin(p, [op |-> "update", task |-> t, deps |-> deps])

\* Mutation of Acquire: the lock is entered whoever holds it.
AcquireUnderAny(p) ==
  /\ step[p] = "acquire"
  /\ lock' = [lock EXCEPT ![req[p].task] = p]
  /\ view' = [view EXCEPT ![p] = task[req[p].task]]
  /\ Goto(p, "check")
  /\ UNCHANGED <<files, issued, lapsed, req, base, counts, history>>

\* withTaskClaimLock: enter, or give up after five seconds.  The task file is
\* read at once: only the holder of the lock writes it.
Acquire(p) ==
  /\ step[p] = "acquire"
  /\ LET t == req[p].task
     IN /\ lock[t] = None
        /\ lock' = [lock EXCEPT ![t] = p]
        /\ view' = [view EXCEPT ![p] = task[t]]
  /\ Goto(p, "check")
  /\ UNCHANGED <<files, issued, lapsed, req, base, counts, history>>

TimeOut(p) ==
  /\ step[p] = "acquire"
  /\ lock[req[p].task] # None
  /\ Return(p)
  /\ UNCHANGED <<files, lock, issued, lapsed, counts, history>>

\* The report of p lacks the evidence that the task's plan asks for.
MissingEvidence(p) ==
  req[p].op = "end" /\ req[p].to = "completed" /\ req[p].task \in NeedsEvidence

\* The checks; claimTask reads the dependencies once more here, after it has
\* read the task.
Check(p) ==
  /\ step[p] = "check"
  /\ \/ Accepts(p) /\ Goto(p, "write")
     \/ ~Accepts(p) /\ Goto(p, "unlock")
     \/ MissingEvidence(p) /\ Goto(p, "unlock")
  /\ UNCHANGED <<files, lock, issued, lapsed, req, view, base, counts,
                 history>>

\* writeAtomic of the whole record; a claim draws its token for it.
WriteTask(p) ==
  /\ step[p] = "write"
  /\ LET r == req[p]
     IN /\ r.op = "claim" => issued < MaxToken
        /\ task' = [task EXCEPT ![r.task] = Updated(p)]
        /\ issued' = IF r.op = "claim" THEN issued + 1 ELSE issued
        /\ grant' = IF r.op = "claim"
                      THEN [grant EXCEPT ![issued + 1] = r.task] ELSE grant
        /\ spent' = IF r.op \in {"end", "release"}
                      THEN spent \cup {r.token} ELSE spent
        /\ Goto(p, IF r.op = "end" THEN "append" ELSE "unlock")
  /\ UNCHANGED <<lock, lapsed, req, view, events, snapshot, base, counts>>

\* Mutation of AppendEvent: every transition is logged as task_completed.
AppendCompleted(p) ==
  /\ step[p] = "append"
  /\ events' = [events EXCEPT ![req[p].task]["completed"] =
                  IF @ < EventCap THEN @ + 1 ELSE @]
  /\ Goto(p, "unlock")
  /\ UNCHANGED <<task, snapshot, lock, issued, lapsed, req, view, base,
                 counts, history>>

\* appendTeamEvent, still under the lock.
AppendEvent(p) ==
  /\ step[p] = "append"
  /\ LET r == req[p]
     IN events' = [events EXCEPT ![r.task][r.to] =
                     IF @ < EventCap THEN @ + 1 ELSE @]
  /\ Goto(p, "unlock")
  /\ UNCHANGED <<task, snapshot, lock, issued, lapsed, req, view, base,
                 counts, history>>

\* The lock is released; a transition to completed goes on to the snapshot,
\* whether it was accepted or not.
Unlock(p) ==
  /\ step[p] = "unlock"
  /\ lock' = [lock EXCEPT ![req[p].task] = None]
  /\ IF req[p].op = "end" /\ req[p].to = "completed"
       THEN Goto(p, "markRead") /\ UNCHANGED <<req, view, base>>
       ELSE Return(p)
  /\ UNCHANGED <<files, issued, lapsed, counts, history>>

MarkRead(p) ==
  /\ step[p] = "markRead"
  /\ base' = [base EXCEPT ![p] = snapshot]
  /\ Goto(p, "markWrite")
  /\ UNCHANGED <<files, lock, issued, lapsed, req, view, counts,
                 history>>

\* writeMonitorSnapshot of the snapshot read before, with the task flagged.
MarkWrite(p) ==
  /\ step[p] = "markWrite"
  /\ snapshot' =
       IF base[p] = None
         THEN [known |-> [t \in Task |-> None], flagged |-> {req[p].task}]
         ELSE [base[p] EXCEPT !.flagged = @ \cup {req[p].task}]
  /\ Return(p)
  /\ UNCHANGED <<task, events, lock, issued, lapsed, counts, history>>

-----------------------------------------------------------------------------
(* The environment.                                                        *)

\* Fifteen minutes pass since the claim on t was granted.
Lapse(t) ==
  /\ task[t].claim # None
  /\ task[t].claim.token \notin lapsed
  /\ lapsed' = lapsed \cup {task[t].claim.token}
  /\ UNCHANGED <<files, lock, issued, local, counts, history>>

\* The process of p dies in the middle of its call; its lock stays behind.
Crash(p) ==
  /\ crashes < MaxCrashes
  /\ step[p] # "idle"
  /\ crashes' = crashes + 1
  /\ lock' = IF step[p] \in Locked
               THEN [lock EXCEPT ![req[p].task] = "orphan"] ELSE lock
  /\ Return(p)
  /\ UNCHANGED <<files, issued, lapsed, updates, history>>

\* A contender removes a lock directory older than LOCK_STALE_MS.
RecoverLock(t) ==
  /\ lock[t] = "orphan"
  /\ lock' = [lock EXCEPT ![t] = None]
  /\ UNCHANGED <<files, issued, lapsed, local, counts, history>>

Call(p) ==
  CallClaim(p) \/ CallEnd(p) \/ CallRelease(p) \/ CallReclaim(p) \/ CallUpdate(p)

Step(p) ==
  \/ Acquire(p) \/ TimeOut(p) \/ Check(p) \/ WriteTask(p)
  \/ AppendEvent(p) \/ Unlock(p) \/ MarkRead(p) \/ MarkWrite(p)

Environment ==
  \/ \E t \in Task : Lapse(t) \/ RecoverLock(t)
  \/ \E p \in Actor : Crash(p)

Next == Environment \/ \E p \in Actor : Call(p) \/ Step(p)

Spec == Init /\ [][Next]_vars

-----------------------------------------------------------------------------
\* A worker that was granted a lease, has not handed it back and is still
\* within its time owns the task: no other call has reclaimed, reassigned or
\* finished the task under it.
LiveLeaseStands ==
  \A k \in 1 .. issued :
    k \notin lapsed \cup spent =>
      LET v == task[grant[k]]
      IN v.status = "in_progress" /\ v.claim # None /\ v.claim.token = k

\* A task starts only when everything it then depends on is completed, though
\* dependencies are read without their locks and edited while claims run.
StartsWhenReady ==
  [][\A t \in Task :
       task'[t].status = "in_progress" /\ task[t].status # "in_progress"
         => Ready(t)]_task

\* No write to a task file is lost: every write builds on the version before
\* it, whatever the other processes do between its read and its write.
NoLostUpdate ==
  [][\A t \in Task :
       task'[t] # task[t] => task'[t].version = task[t].version + 1]_task

\* A finished task stays finished with the worker that finished it, against
\* late, repeated and crashed calls alike.
FinishedForGood ==
  [][\A t \in Task :
       task[t].status \in Terminal =>
         /\ task'[t].status = task[t].status
         /\ task'[t].owner = task[t].owner]_task

\* The event log tells the truth about a task and tells it once.
EventsMatchOutcome ==
  \A t \in Task :
    /\ \A e \in Terminal : events[t][e] > 0 => task[t].status = e
    /\ events[t]["completed"] + events[t]["failed"] <= 1

\* state.ts:1835, of completedEventTaskIds: "Task IDs for which a
\* task_completed event has already been emitted (from any path)".
FlaggedTasksWereAnnounced ==
  snapshot # None =>
    \A t \in snapshot.flagged : events[t]["completed"] > 0

-----------------------------------------------------------------------------
(* What the calls amount to.                                               *)

\* The task v as the board shows it.
OnBoard(v) ==
  [status |-> v.status, owner |-> v.owner, deps |-> v.deps,
   lease |-> IF v.claim = None THEN None ELSE v.claim.token]

Board == INSTANCE TaskBoard WITH
           board <- [t \in Task |-> OnBoard(task[t])], drawn <- issued

\* However calls overlap, wait, time out or die, each takes effect at once on the
\* board as it is at that moment, or not at all.
ImplementsBoard == Board!Spec

=============================================================================
