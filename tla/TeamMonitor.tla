---------------------------- MODULE TeamMonitor ----------------------------
(***************************************************************************)
(* The leader's polling pass over a team, monitorTeam of                   *)
(* src/src/team/runtime.ts, next to the workers' calls of TaskClaims.      *)
(* `omx team` and its runtime CLI both run it, so passes may overlap.      *)
(*                                                                         *)
(* A pass reads the monitor snapshot, lists the tasks, reclaims those with *)
(* a lapsed claim, assigns waiting ones to idle workers (a claim, undone   *)
(* when the worker cannot be told), emits the completions it derives from  *)
(* the two and writes the snapshot back.  It takes no lock of its own.     *)
(*                                                                         *)
(* Left out: the phase (see TeamPhase), mail and commits of the team, which *)
(* a pass also looks after and on which no task depends.                   *)
(***************************************************************************)
EXTENDS TaskClaims

CONSTANT Monitor  \* the actors that run passes; the others are workers

ASSUME MonitorAssumption == Monitor \subseteq Actor

VARIABLE
  pass  \* pass[m]: the local variables of the pass of m:
        \*   at       where it stands
        \*   prev     the snapshot as it began (previousSnapshot)
        \*   list     the tasks as last listed (taskView)
        \*   todo     the tasks still to visit in this part of it
        \*   changed  it has reclaimed or assigned since it listed
        \*   won      the token of an assignment not yet made known, or 0

mvars == <<vars, pass>>

Stages == {"off", "list", "reclaim", "relist", "assign", "won", "dispatch",
           "listAgain", "events"}
Listing == {"list", "relist", "listAgain"}

\* What a pass uses of a task that it has listed.
SeenTask == [status : TaskStatus, owner : Worker \cup {None},
             deps : SUBSET Task, claim : Claim \cup {None}]
Seen(v) == [status |-> v.status, owner |-> v.owner, deps |-> v.deps,
            claim |-> v.claim]

MonitorTypeOK ==
  /\ TypeOK
  /\ pass \in [Monitor -> [at : Stages, prev : Snapshot \cup {None},
                           list : [Task -> SeenTask \cup {None}],
                           todo : SUBSET Task, changed : BOOLEAN,
                           won : 0 .. MaxToken]]

NoPass == [at |-> "off", prev |-> None, list |-> [t \in Task |-> None],
           todo |-> {}, changed |-> FALSE, won |-> 0]

MonitorInit == Init /\ pass = [m \in Monitor |-> NoPass]

\* m is at stage s of its pass and not inside a call.
At(m, s) == pass[m].at = s /\ step[m] = "idle"

-----------------------------------------------------------------------------
(* The steps of a pass.                                                    *)

BeginPass(m) ==
  /\ At(m, "off")
  /\ pass' = [pass EXCEPT ![m].at = "list", ![m].prev = snapshot,
                          ![m].todo = Task]
  /\ UNCHANGED vars

\* The tasks of the listing ts whose claim reclaiming looks at.
Claimed(ts) == {t \in Task : ts[t].status = "in_progress" /\ ts[t].claim # None}

\* listTasks: each file is read for itself, in any order.
ListTask(m) ==
  /\ \E s \in Listing : At(m, s)
  /\ \E t \in pass[m].todo :
       LET ts == [pass[m].list EXCEPT ![t] = Seen(task[t])]
           rest == pass[m].todo \ {t}
           q == [pass[m] EXCEPT !.list = ts, !.todo = rest]
       IN pass' = [pass EXCEPT ![m] =
            CASE rest # {}                  -> q
              [] rest = {} /\ q.at = "list" ->
                   [q EXCEPT !.at = "reclaim", !.todo = Claimed(ts)]
              [] rest = {} /\ q.at = "relist" ->
                   [q EXCEPT !.at = "assign", !.todo = Task]
              [] rest = {} /\ q.at = "listAgain" ->
                   [q EXCEPT !.at = "events", !.todo = Task]]
  /\ UNCHANGED vars

\* One turn of the reclaiming loop, which goes by the listing and the clock.
Visit(m) ==
  /\ At(m, "reclaim")
  /\ \E t \in pass[m].todo :
       /\ pass' = [pass EXCEPT ![m].todo = @ \ {t}]
       /\ IF Expired(pass[m].list[t])
            THEN Begin(m, [op |-> "reclaim", task |-> t]) /\ UNCHANGED updates
            ELSE UNCHANGED vars

\* The tasks are listed anew if one was reclaimed.
EndReclaim(m) ==
  /\ At(m, "reclaim")
  /\ pass[m].todo = {}
  /\ pass' = [pass EXCEPT ![m].at = IF pass[m].changed THEN "relist" ELSE "assign",
                          ![m].todo = Task, ![m].changed = FALSE]
  /\ UNCHANGED vars

\* Work that rebalancing hands out: waiting, nobody's, all it depends on done.
Assignable(ts) ==
  {t \in Task : /\ ts[t].status = "pending"
                /\ ts[t].owner = None
                /\ \A d \in ts[t].deps : ts[d].status = "completed"}

\* assignTask for some worker, from the version of the task it reads.
Assign(m) ==
  /\ At(m, "assign")
  /\ issued < MaxToken
  /\ \E t \in pass[m].todo \cap Assignable(pass[m].list), w \in Worker :
       /\ Ready(t)
       /\ Begin(m, [op |-> "claim", task |-> t, worker |-> w,
                    expected |-> task[t].version])
       /\ pass' = [pass EXCEPT ![m].todo = @ \ {t}]
  /\ UNCHANGED updates

\* The assigned task gets a delegation plan if it has none.
Delegate(m) ==
  /\ At(m, "won")
  /\ Begin(m, [op |-> "touch", task |-> grant[pass[m].won]])
  /\ pass' = [pass EXCEPT ![m].at = "dispatch"]
  /\ UNCHANGED updates

\* The worker is told of its task.
Dispatch(m) ==
  /\ At(m, "won") \/ At(m, "dispatch")
  /\ pass' = [pass EXCEPT ![m].at = "assign", ![m].won = 0, ![m].changed = TRUE]
  /\ UNCHANGED vars

\* It could not be told, and the claim is given back.
RollBack(m) ==
  /\ At(m, "won") \/ At(m, "dispatch")
  /\ LET k == pass[m].won
     IN Begin(m, [op |-> "release", task |-> grant[k], token |-> k])
  /\ pass' = [pass EXCEPT ![m].at = "assign", ![m].won = 0]
  /\ UNCHANGED updates

\* No further worker is idle, or no further task may be handed out.
EndAssign(m) ==
  /\ At(m, "assign")
  /\ pass' = [pass EXCEPT ![m].at = IF pass[m].changed THEN "listAgain" ELSE "events",
                          ![m].todo = Task, ![m].changed = FALSE]
  /\ UNCHANGED vars

\* Mutation of Derived: a failed task is announced as completed.
DerivedFromAnyEnd(q, t) ==
  /\ q.prev # None
  /\ q.prev.known[t] \notin {None, "completed"}
  /\ q.list[t].status \in Terminal
  /\ t \notin q.prev.flagged

\* Mutation of Derived: only tasks seen in progress are announced.
DerivedOnceStarted(q, t) ==
  /\ q.prev # None
  /\ q.prev.known[t] = "in_progress"
  /\ q.list[t].status = "completed"
  /\ t \notin q.prev.flagged

\* emitMonitorDerivedEvents: t was seen before, unfinished, is listed as
\* completed, and is not known to have been announced.
Derived(q, t) ==
  /\ q.prev # None
  /\ q.prev.known[t] \notin {None, "completed"}
  /\ q.list[t].status = "completed"
  /\ t \notin q.prev.flagged

Emit(m) ==
  /\ At(m, "events")
  /\ \E t \in pass[m].todo :
       /\ Derived(pass[m], t)
       /\ events' = [events EXCEPT ![t]["completed"] =
                       IF @ < EventCap THEN @ + 1 ELSE @]
       /\ pass' = [pass EXCEPT ![m].todo = @ \ {t}]
  /\ UNCHANGED <<task, snapshot, lock, issued, lapsed, local, counts, history>>

\* The flags carried over, as the pass began.
Flags(q) == IF q.prev = None THEN {} ELSE q.prev.flagged

\* Mutation of Saved: owners are saved for statuses.
SavedWithOwners(q) ==
  [known |-> [t \in Task |-> q.list[t].owner], flagged |-> Flags(q)]

\* Mutation of Saved: flagged tasks are saved as completed, unseen.
SavedByFlags(q) ==
  [known |-> [t \in Task |-> IF t \in Flags(q) THEN "completed" ELSE q.list[t].status],
   flagged |-> Flags(q)]

\* What the pass saves: the statuses listed last, and these flags.
Saved(q) ==
  [known |-> [t \in Task |-> q.list[t].status], flagged |-> Flags(q)]

\* writeMonitorSnapshot, at the end of the pass.
Save(m) ==
  /\ At(m, "events")
  /\ \A t \in pass[m].todo : ~Derived(pass[m], t)
  /\ snapshot' = Saved(pass[m])
  /\ pass' = [pass EXCEPT ![m] = NoPass]
  /\ UNCHANGED <<task, events, lock, issued, lapsed, local, counts, history>>

-----------------------------------------------------------------------------
\* A step inside a call of m, whose outcome the pass goes on with.
CallStep(m) ==
  /\ Step(m)
  /\ pass' = IF step[m] # "write" THEN pass
             ELSE CASE req[m].op = "reclaim" -> [pass EXCEPT ![m].changed = TRUE]
                    [] req[m].op = "claim" ->
                         [pass EXCEPT ![m].at = "won", ![m].won = issued + 1]
                    [] OTHER -> pass

\* The process of a monitor dies, in a call or between two.
CrashPass(m) ==
  /\ pass[m].at # "off"
  /\ pass' = [pass EXCEPT ![m] = NoPass]
  /\ IF step[m] # "idle"
       THEN Crash(m)
       ELSE /\ crashes < MaxCrashes
            /\ crashes' = crashes + 1
            /\ UNCHANGED <<files, lock, issued, lapsed, local, updates, history>>

Pass(m) ==
  \/ BeginPass(m) \/ ListTask(m) \/ Visit(m) \/ EndReclaim(m)
  \/ Assign(m) \/ Delegate(m) \/ Dispatch(m) \/ RollBack(m) \/ EndAssign(m)
  \/ Emit(m) \/ Save(m)

MonitorNext ==
  \/ \E m \in Monitor : Pass(m) \/ CallStep(m) \/ CrashPass(m)
  \/ \E p \in Actor \ Monitor : (Call(p) \/ Step(p) \/ Crash(p)) /\ UNCHANGED pass
  \/ \E t \in Task : (Lapse(t) \/ RecoverLock(t)) /\ UNCHANGED pass

MonitorSpec == MonitorInit /\ [][MonitorNext]_mvars

\* Leaders poll in a loop and calls go on once begun; a contender that tries
\* again and again gets into a lock that is free again and again; leases run
\* out with time, and stale locks are removed.
MonitorFairness ==
  /\ \A m \in Monitor :
       /\ WF_mvars(Pass(m))
       /\ WF_mvars(CallStep(m))
       /\ SF_mvars(Acquire(m) /\ UNCHANGED pass)
  /\ \A p \in Actor \ Monitor : WF_mvars(Step(p) /\ UNCHANGED pass)
  /\ \A t \in Task :
       /\ WF_mvars(Lapse(t) /\ UNCHANGED pass)
       /\ WF_mvars(RecoverLock(t) /\ UNCHANGED pass)

FairMonitorSpec == MonitorSpec /\ MonitorFairness

-----------------------------------------------------------------------------
\* Every event in the log is true of its task, however late or crashed the
\* process that wrote it: a stale listing never announces what is not so.
EventsAreTrue ==
  \A t \in Task, e \in Terminal : events[t][e] > 0 => task[t].status = e

\* The snapshot never gets ahead of the tasks: what it holds for finished is
\* finished so, though overlapping passes write it back in any order.
SnapshotIsNotAhead ==
  snapshot # None =>
    \A t \in Task : snapshot.known[t] \in Terminal => task[t].status = snapshot.known[t]

\* A holder keeps the lock of a task for milliseconds and a contender tries for
\* five seconds: a leader is turned away by a live holder finitely often.
LeaderNotOutrun ==
  <>[][\A m \in Monitor :
         step[m] = "acquire" /\ lock[req[m].task] \in Actor => step'[m] # "idle"]_mvars

\* No claim keeps a task for good: whatever becomes of the worker or of the
\* leader that assigned it, the task is finished or open to others again.
NoTaskIsStuck ==
  LeaderNotOutrun =>
    \A t \in Task, k \in Token :
      (task[t].claim # None /\ task[t].claim.token = k)
        ~> (task[t].claim = None \/ task[t].claim.token # k)

\* The snapshot, and the readings of it that passes and markings will write back.
Readings ==
  {snapshot} \cup {base[p] : p \in {q \in Actor : step[q] = "markWrite"}}
    \cup {pass[m].prev : m \in {n \in Monitor : pass[n].at # "off"}}

\* All that is known of t is that it is not completed yet.
Open(s, t) == s # None /\ s.known[t] \notin {None, "completed"}
KnownOpen(t) == \A s \in Readings : Open(s, t)

\* That a task was open is forgotten, by the saving of a pass, only once its
\* completion is in the log or flagged, whoever saves which reading when.
NoCompletionIsDropped ==
  [][\A t \in Task :
       KnownOpen(t) /\ ~KnownOpen(t)' =>
         \/ events'[t]["completed"] > 0
         \/ \E s \in Readings : t \in s.flagged]_mvars

\* A completion whose worker died before it could log it is announced by a later
\* pass, through deaths of the leader and through stale snapshots written back,
\* provided that t was known before to be open; or it stands flagged in the
\* snapshot, as rejected completions wrongly are (FlaggedTasksWereAnnounced).
LostCompletionIsAnnounced ==
  \A t \in Task :
    task[t].status = "completed" /\ KnownOpen(t)
      ~> \/ events[t]["completed"] > 0
         \/ snapshot # None /\ t \in snapshot.flagged

\* runtime.ts:4061: "Skip if a task_completed event was already emitted by
\* transitionTaskStatus (issue #161)".
CompletionAnnouncedOnce == \A t \in Task : events[t]["completed"] <= 1

=============================================================================
