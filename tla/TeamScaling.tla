---------------------------- MODULE TeamScaling ----------------------------
(***************************************************************************)
(* The team configuration and what is counted in it: the task ids that     *)
(* createTask of src/src/team/state.ts gives out, and the workers that     *)
(* scaleUp and scaleDown of src/src/team/scaling.ts add and remove while   *)
(* the team runs.  All of them read the configuration, go on for a while   *)
(* and write it back whole; createTask does so under the team lock,        *)
(* scaling under the scaling lock, and scaleUp calls createTask inside.    *)
(*                                                                         *)
(* Only manifest.v2.json is modelled, which readTeamConfig prefers to      *)
(* config.json; it does not hold max_workers, so the limit is the default  *)
(* one.  The locks are those of Mutex (see DirLock for how far the code    *)
(* provides it).  Left out: the texts of tasks, worktrees, the draining of *)
(* workers before scale-down closes their panes, panes that close by       *)
(* themselves or do not close when told to, or whose id tmux does not      *)
(* print, and the start and the shutdown of the team, which save the       *)
(* configuration outside these locks.                                      *)
(***************************************************************************)
EXTENDS Naturals, FiniteSets

CONSTANTS
  Actor,        \* processes, one call at a time each
  None,         \* nothing
  DefaultMax,   \* DEFAULT_MAX_WORKERS
  InitWorkers,  \* workers that the team was started with
  MaxAdd,       \* bound on the workers of one scale-up
  MaxAsk,       \* bound on the tasks of one scale-up
  MaxCalls,     \* bound on calls
  MaxCrashes    \* bound on processes dying inside a call

ASSUME ActorAssumption == None \notin Actor /\ "orphan" \notin Actor /\ None # "orphan"
ASSUME LimitAssumption ==
  /\ DefaultMax \in Nat /\ InitWorkers \in Nat
  /\ 1 <= InitWorkers /\ InitWorkers <= DefaultMax
ASSUME BoundAssumption ==
  MaxAdd \in Nat /\ MaxAsk \in Nat /\ MaxCalls \in Nat /\ MaxCrashes \in Nat

Positive == Nat \ {0}

\* A worker is named by its index and runs in a pane of its own.
Worker == [index : Positive, pane : Positive]
Config == [nextTask : Positive, workers : SUBSET Worker, nextIndex : Positive]

\* The local variables of a scale-up (of a scale-down: copy and hand alone).
Scaling == [goal : Nat,              \* workers still to add
            ask : Nat,               \* tasks still to create
            copy : Config \cup {None}, \* config, from its reading on
            first : Nat,             \* initialNextIndex
            added : SUBSET Worker,   \* addedWorkers
            hand : SUBSET Worker,    \* started and not yet saved; or to be removed
            made : SUBSET Positive]  \* createdTaskIds

ASSUME NoneAssumption == None \notin Config \cup Scaling

VARIABLES
  config,     \* manifest.v2.json
  tasks,      \* the task files: id, and who made it
  live,       \* the workers whose panes run
  panes,      \* panes opened so far
  taskLock,   \* who is in .lock.create-task: an actor, None, or "orphan"
  scaleLock,  \* the same of .lock.scaling
  at,         \* at[p]: the next step of p
  scale,      \* scale[p]: the local variables of its scaling, or None
  copy,       \* copy[p]: cfg of its createTask, or None
  id,         \* id[p]: nextNumeric of its createTask
  calls,      \* calls so far
  crashes,    \* processes that died inside a call
  mishaps     \* history: what has put the roster at odds with the panes

vars == <<config, tasks, live, panes, taskLock, scaleLock, at, scale, copy, id,
          calls, crashes, mishaps>>
creation == <<copy, id>>
counts == <<calls, crashes>>

CreateSteps == {"lockTasks", "readConfig", "pick", "writeTask", "saveConfig", "unlockTasks"}
ScaleSteps == {"lockScale", "plan", "adopt", "up", "greet", "rollback", "remove",
               "close", "saveDown", "leave"}

TypeOK ==
  /\ config \in Config
  /\ tasks \subseteq [id : Positive, maker : Actor]
  /\ live \subseteq Worker
  /\ panes \in Nat
  /\ taskLock \in Actor \cup {None, "orphan"}
  /\ scaleLock \in Actor \cup {None, "orphan"}
  /\ at \in [Actor -> {"idle"} \cup CreateSteps \cup ScaleSteps]
  /\ scale \in [Actor -> Scaling \cup {None}]
  /\ copy \in [Actor -> Config \cup {None}]
  /\ id \in [Actor -> Nat]
  /\ calls \in 0 .. MaxCalls
  /\ crashes \in 0 .. MaxCrashes
  /\ mishaps \subseteq {"lostWrite", "strayPane", "deadScaler"}

\* The team as initTeamState leaves it, with the panes of its workers open.
Init ==
  /\ live = {[index |-> i, pane |-> i] : i \in 1 .. InitWorkers}
  /\ config = [nextTask |-> 1, workers |-> live, nextIndex |-> InitWorkers + 1]
  /\ tasks = {}
  /\ panes = InitWorkers
  /\ taskLock = None
  /\ scaleLock = None
  /\ at = [p \in Actor |-> "idle"]
  /\ scale = [p \in Actor |-> None]
  /\ copy = [p \in Actor |-> None]
  /\ id = [p \in Actor |-> 0]
  /\ calls = 0
  /\ crashes = 0
  /\ mishaps = {}

Goto(p, s) == at' = [at EXCEPT ![p] = s]

\* A call of p begins.
Enter(p, s) ==
  /\ at[p] = "idle"
  /\ calls < MaxCalls
  /\ calls' = calls + 1
  /\ Goto(p, s)
  /\ UNCHANGED <<config, tasks, live, panes, taskLock, scaleLock, creation, crashes,
                 mishaps>>

-----------------------------------------------------------------------------
(* createTask, alone or inside a scale-up.                                 *)

CallCreate(p) == Enter(p, "lockTasks") /\ UNCHANGED scale

LockTasks(p) ==
  /\ at[p] = "lockTasks"
  /\ taskLock = None
  /\ taskLock' = p
  /\ Goto(p, "readConfig")
  /\ UNCHANGED <<config, tasks, live, panes, scaleLock, scale, creation, counts, mishaps>>

\* The lock is not had in time and the call throws; so does the scale-up
\* around it, past its roll-back.
TasksTimeOut(p) ==
  /\ at[p] = "lockTasks"
  /\ taskLock # None
  /\ Goto(p, IF scale[p] = None THEN "idle" ELSE "leave")
  /\ UNCHANGED <<config, tasks, live, panes, taskLock, scaleLock, scale, creation,
                 counts, mishaps>>

ReadConfig(p) ==
  /\ at[p] = "readConfig"
  /\ copy' = [copy EXCEPT ![p] = config]
  /\ Goto(p, "pick")
  /\ UNCHANGED <<config, tasks, live, panes, taskLock, scaleLock, scale, id, counts,
                 mishaps>>

\* Mutation of NextId: the counter is trusted.
NextIdByCounter(c) == c.nextTask

\* The id after the counter of c and the files there are
\* (computeNextTaskIdFromDisk).
NextId(c) ==
  LET ids == {c.nextTask} \cup {x.id + 1 : x \in tasks}
  IN CHOOSE n \in ids : \A m \in ids : n >= m

Pick(p) ==
  /\ at[p] = "pick"
  /\ id' = [id EXCEPT ![p] = NextId(copy[p])]
  /\ Goto(p, "writeTask")
  /\ UNCHANGED <<config, tasks, live, panes, taskLock, scaleLock, scale, copy, counts,
                 mishaps>>

\* writeAtomic of the task file, over one that has its name.
WriteTask(p) ==
  /\ at[p] = "writeTask"
  /\ tasks' = {x \in tasks : x.id # id[p]} \cup {[id |-> id[p], maker |-> p]}
  /\ Goto(p, "saveConfig")
  /\ UNCHANGED <<config, live, panes, taskLock, scaleLock, scale, creation, counts,
                 mishaps>>

Roster(c) == <<c.workers, c.nextIndex>>

\* Mutation of SaveConfig: only the counter is written.
SaveCounterOnly(p) ==
  /\ at[p] = "saveConfig"
  /\ config' = [nextTask |-> id[p] + 1]
  /\ Goto(p, "unlockTasks")
  /\ UNCHANGED <<tasks, live, panes, taskLock, scaleLock, scale, creation, counts, mishaps>>

\* writeConfig of the configuration as it was read, with the counter moved on.
SaveConfig(p) ==
  /\ at[p] = "saveConfig"
  /\ config' = [copy[p] EXCEPT !.nextTask = id[p] + 1]
  /\ mishaps' = IF Roster(copy[p]) = Roster(config) THEN mishaps
                ELSE mishaps \cup {"lostWrite"}
  /\ Goto(p, "unlockTasks")
  /\ UNCHANGED <<tasks, live, panes, taskLock, scaleLock, scale, creation, counts>>

UnlockTasks(p) ==
  /\ at[p] = "unlockTasks"
  /\ taskLock' = None
  /\ copy' = [copy EXCEPT ![p] = None]
  /\ id' = [id EXCEPT ![p] = 0]
  /\ IF scale[p] = None
       THEN Goto(p, "idle") /\ UNCHANGED scale
       ELSE Goto(p, "up") /\ scale' = [scale EXCEPT ![p].made = @ \cup {id[p]}]
  /\ UNCHANGED <<config, tasks, live, panes, scaleLock, counts, mishaps>>

-----------------------------------------------------------------------------
(* scaleUp and scaleDown.                                                  *)

\* A scaling that has n workers to add and k tasks to create, and has read nothing.
Work(n, k) == [goal |-> n, ask |-> k, copy |-> None, first |-> 0, added |-> {}, hand |-> {},
               made |-> {}]

CallUp(p) ==
  \E n \in 1 .. MaxAdd, k \in 0 .. MaxAsk :
    /\ Enter(p, "lockScale")
    /\ scale' = [scale EXCEPT ![p] = Work(n, k)]

CallDown(p) ==
  /\ Enter(p, "lockScale")
  /\ scale' = [scale EXCEPT ![p] = Work(0, 0)]

\* Mutation of LockScale: the lock is entered whoever holds it.
LockScaleUnderAny(p) ==
  /\ at[p] = "lockScale"
  /\ scaleLock' = p
  /\ Goto(p, "plan")
  /\ UNCHANGED <<config, tasks, live, panes, taskLock, scale, creation, counts, mishaps>>

LockScale(p) ==
  /\ at[p] = "lockScale"
  /\ scaleLock = None
  /\ scaleLock' = p
  /\ Goto(p, "plan")
  /\ UNCHANGED <<config, tasks, live, panes, taskLock, scale, creation, counts, mishaps>>

ScaleTimesOut(p) ==
  /\ at[p] = "lockScale"
  /\ scaleLock # None
  /\ Goto(p, "idle")
  /\ scale' = [scale EXCEPT ![p] = None]
  /\ UNCHANGED <<config, tasks, live, panes, taskLock, scaleLock, creation, counts, mishaps>>

\* max_workers, which readTeamConfig fills in with the default.
Fits(c, n) == Cardinality(c.workers) + n <= DefaultMax

\* The configuration is read; without room the call returns at once.
PlanUp(p) ==
  /\ at[p] = "plan"
  /\ scale[p].goal > 0
  /\ scale' = [scale EXCEPT ![p].copy = config, ![p].first = config.nextIndex]
  /\ \/ Fits(config, scale[p].goal) /\ \E s \in {"adopt", "up"} : Goto(p, s)
     \/ Goto(p, "leave")  \* no room, or an approved plan forbids it
  /\ UNCHANGED <<config, tasks, live, panes, taskLock, scaleLock, creation, counts, mishaps>>

\* A team without a worktree mode gets the one that its workers show.
Adopt(p) ==
  /\ at[p] = "adopt"
  /\ config' = scale[p].copy
  /\ Goto(p, "up")
  /\ UNCHANGED <<tasks, live, panes, taskLock, scaleLock, scale, creation, counts, mishaps>>

AskTask(p) ==
  /\ at[p] = "up"
  /\ scale[p].ask > 0
  /\ scale' = [scale EXCEPT ![p].ask = @ - 1]
  /\ Goto(p, "lockTasks")
  /\ UNCHANGED <<config, tasks, live, panes, taskLock, scaleLock, creation, counts, mishaps>>

AboutToOpen(p) == at[p] = "up" /\ scale[p].ask = 0 /\ scale[p].goal > 0

\* The next worker starts in a new pane; tmux may fail to open one.
OpenPane(p) ==
  /\ AboutToOpen(p)
  /\ LET w == [index |-> scale[p].copy.nextIndex, pane |-> panes + 1]
     IN /\ live' = live \cup {w}
        /\ scale' = [scale EXCEPT ![p].hand = {w}]
  /\ panes' = panes + 1
  /\ Goto(p, "greet")
  /\ UNCHANGED <<config, tasks, taskLock, scaleLock, creation, counts, mishaps>>

NoPane(p) ==
  /\ AboutToOpen(p)
  /\ Goto(p, "rollback")
  /\ UNCHANGED <<config, tasks, live, panes, taskLock, scaleLock, scale, creation,
                 counts, mishaps>>

\* config with the worker just started.
Joined(s) == [s.copy EXCEPT !.workers = s.copy.workers \cup s.hand,
                            !.nextIndex = s.copy.nextIndex + 1]

Greeted(s) == [s EXCEPT !.copy = Joined(s), !.goal = s.goal - 1, !.hand = {},
                        !.added = s.added \cup s.hand]

\* The worker has been told of its tasks and enters the roster.
Join(p) ==
  /\ at[p] = "greet"
  /\ config' = Joined(scale[p])
  /\ scale' = [scale EXCEPT ![p] = Greeted(scale[p])]
  /\ Goto(p, IF scale[p].goal = 1 THEN "leave" ELSE "up")
  /\ UNCHANGED <<tasks, live, panes, taskLock, scaleLock, creation, counts, mishaps>>

\* It could not be told.
NotGreeted(p) ==
  /\ at[p] = "greet"
  /\ Goto(p, "rollback")
  /\ UNCHANGED <<config, tasks, live, panes, taskLock, scaleLock, scale, creation,
                 counts, mishaps>>

\* An exception, of a worktree, a worker's file or the dispatch lock, ends the
\* scale-up without a roll-back; a worker just started keeps its pane.
Throw(p) ==
  /\ AboutToOpen(p) \/ at[p] = "greet"
  /\ Goto(p, "leave")
  /\ mishaps' = IF at[p] = "greet" THEN mishaps \cup {"strayPane"} ELSE mishaps
  /\ UNCHANGED <<config, tasks, live, panes, taskLock, scaleLock, scale, creation, counts>>

\* Mutation of Undone: the counter goes back and the roster does not.
UndoneCounter(s) == [s.copy EXCEPT !.nextIndex = s.first]

\* config without the workers of this scale-up.
Undone(s) == [s.copy EXCEPT !.workers = s.copy.workers \ s.added, !.nextIndex = s.first]

\* Mutation of RollBack: the pane that is not saved yet is forgotten.
RollBackSavedOnly(p) ==
  /\ at[p] = "rollback"
  /\ live' = live \ scale[p].added
  /\ scale' = [scale EXCEPT ![p].copy = Undone(scale[p])]
  /\ Goto(p, "remove")
  /\ UNCHANGED <<config, tasks, panes, taskLock, scaleLock, creation, counts, mishaps>>

\* rollbackScaleUp closes the panes of the new workers ...
RollBack(p) ==
  /\ at[p] = "rollback"
  /\ live' = live \ (scale[p].added \cup scale[p].hand)
  /\ scale' = [scale EXCEPT ![p].copy = Undone(scale[p])]
  /\ Goto(p, "remove")
  /\ UNCHANGED <<config, tasks, panes, taskLock, scaleLock, creation, counts, mishaps>>

\* ... removes the files of the new tasks, without a lock, one by one ...
RemoveTask(p) ==
  /\ at[p] = "remove"
  /\ \E i \in scale[p].made :
       /\ tasks' = {x \in tasks : x.id # i}
       /\ scale' = [scale EXCEPT ![p].made = @ \ {i}]
  /\ UNCHANGED <<config, live, panes, taskLock, scaleLock, at, creation, counts, mishaps>>

\* ... and writes the configuration back.
SaveRollBack(p) ==
  /\ at[p] = "remove"
  /\ scale[p].made = {}
  /\ config' = scale[p].copy
  /\ Goto(p, "leave")
  /\ UNCHANGED <<tasks, live, panes, taskLock, scaleLock, scale, creation, counts, mishaps>>

\* scaleDown takes workers of those it reads, and leaves one at least.
PlanDown(p) ==
  /\ at[p] = "plan"
  /\ scale[p].goal = 0
  /\ \/ \E gone \in SUBSET config.workers :
          /\ gone # {} /\ gone # config.workers
          /\ scale' = [scale EXCEPT ![p].copy = config, ![p].hand = gone]
          /\ Goto(p, "close")
     \/ UNCHANGED scale /\ Goto(p, "leave")
  /\ UNCHANGED <<config, tasks, live, panes, taskLock, scaleLock, creation, counts, mishaps>>

\* Their panes are closed; when their worktrees cannot be removed the call
\* returns, and the roster keeps them.
ClosePanes(p) ==
  /\ at[p] = "close"
  /\ live' = live \ scale[p].hand
  /\ \E s \in {"saveDown", "leave"} : Goto(p, s)
  /\ UNCHANGED <<config, tasks, panes, taskLock, scaleLock, scale, creation, counts, mishaps>>

SaveDown(p) ==
  /\ at[p] = "saveDown"
  /\ config' = [scale[p].copy EXCEPT !.workers = @ \ scale[p].hand]
  /\ Goto(p, "leave")
  /\ UNCHANGED <<tasks, live, panes, taskLock, scaleLock, scale, creation, counts, mishaps>>

\* The scaling lock is released and the call returns.
Leave(p) ==
  /\ at[p] = "leave"
  /\ scaleLock' = None
  /\ scale' = [scale EXCEPT ![p] = None]
  /\ Goto(p, "idle")
  /\ UNCHANGED <<config, tasks, live, panes, taskLock, creation, counts, mishaps>>

-----------------------------------------------------------------------------
(* The environment.                                                        *)

\* The process of p dies inside a call; its locks stay behind.
Crash(p) ==
  /\ at[p] # "idle"
  /\ crashes < MaxCrashes
  /\ crashes' = crashes + 1
  /\ taskLock' = IF taskLock = p THEN "orphan" ELSE taskLock
  /\ scaleLock' = IF scaleLock = p THEN "orphan" ELSE scaleLock
  /\ mishaps' = IF scaleLock = p THEN mishaps \cup {"deadScaler"} ELSE mishaps
  /\ Goto(p, "idle")
  /\ scale' = [scale EXCEPT ![p] = None]
  /\ copy' = [copy EXCEPT ![p] = None]
  /\ id' = [id EXCEPT ![p] = 0]
  /\ UNCHANGED <<config, tasks, live, panes, calls>>

\* Contenders remove lock directories older than LOCK_STALE_MS.
RecoverLock ==
  /\ \/ taskLock = "orphan" /\ taskLock' = None /\ UNCHANGED scaleLock
     \/ scaleLock = "orphan" /\ scaleLock' = None /\ UNCHANGED taskLock
  /\ UNCHANGED <<config, tasks, live, panes, at, scale, creation, counts, mishaps>>

Create(p) ==
  \/ CallCreate(p) \/ LockTasks(p) \/ TasksTimeOut(p) \/ ReadConfig(p) \/ Pick(p)
  \/ WriteTask(p) \/ SaveConfig(p) \/ UnlockTasks(p)

Up(p) ==
  \/ CallUp(p) \/ PlanUp(p) \/ Adopt(p) \/ AskTask(p) \/ OpenPane(p) \/ NoPane(p)
  \/ Join(p) \/ NotGreeted(p) \/ Throw(p) \/ RollBack(p) \/ RemoveTask(p)
  \/ SaveRollBack(p)

Down(p) == CallDown(p) \/ PlanDown(p) \/ ClosePanes(p) \/ SaveDown(p)

Next ==
  \/ \E p \in Actor :
       \/ Create(p) \/ Up(p) \/ Down(p)
       \/ LockScale(p) \/ ScaleTimesOut(p) \/ Leave(p) \/ Crash(p)
  \/ RecoverLock

Spec == Init /\ [][Next]_vars

-----------------------------------------------------------------------------
\* A task file, once written, goes only with the scale-up that made it: no other
\* task is written over it, though the counter falls behind whenever a scale-up
\* saves the configuration it read before, or a process dies between file and
\* counter, and no roll-back takes the task of another.
TasksStay ==
  [][\A x \in tasks :
       \/ x \in tasks'
       \/ at[x.maker] = "remove" /\ x.id \in scale[x.maker].made]_tasks

\* In every state that a lost write or a roll-back restores the roster is within
\* the limit and not empty, its names differ, so that scale-down finds by its name
\* the worker that is meant, and the counter is past them all.
RosterIsSound ==
  /\ Cardinality(config.workers) \in 1 .. DefaultMax
  /\ \A v \in config.workers :
       /\ v.index < config.nextIndex
       /\ \A w \in config.workers : v.index = w.index => v = w

\* Until a mishap no two running workers have one name, though a roll-back gives
\* indices back.
NamesAreUnique ==
  mishaps = {} => \A v, w \in live : v.index = w.index => v = w

\* Until a mishap every running worker is in the roster when no scaling is under
\* way, so that later scalings and the shutdown find it.
EveryWorkerIsListed == mishaps = {} /\ scaleLock = None => live \subseteq config.workers
=============================================================================
