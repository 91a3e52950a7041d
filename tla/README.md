# Verification of the oh-my-codex team state

TLA+ modules, TLC model-checking runs and TLAPS proofs for oh-my-codex (OMX),
the orchestration layer around the Codex CLI. The paths below are relative to
the repository's root (`src/team/...`); `PROJECT.json` gives, for every
definition, the file and the lines it stands for.

## 1. The system

OMX runs a *team*: a leader and some workers, each a Codex session in a
terminal pane or a process of its own, that share work through files under
`.omx/state/team/<name>/`. There is no server. Every `omx team ...` call, every
hook that Codex runs and every watcher is a process that reads, checks and
rewrites these files. What makes the system hard is therefore the file system
as shared memory: locks made of directories, read-modify-write of whole files
across awaits, processes that die or are restarted anywhere, and leaders that
poll while others poll too.

### Components

| Component | State | Operations | Interacts with |
|---|---|---|---|
| Directory locks (`team/state/locks.ts`, `dispatch-lock.ts`) | a lock directory with an `owner` file | acquire, recover when stale, time out, release | every store below |
| Tasks and leases (`team/state/tasks.ts`, `team/state.ts`) | `tasks/task-<id>.json`, `config.json` (next id) | create, claim, transition, release, reclaim, update, list | task-claim lock, event log, monitor snapshot |
| Monitor pass (`team/runtime.ts`, `rebalance-policy.ts`, `state/monitor.ts`) | `monitor-snapshot.json` | `monitorTeam`: list, reclaim, assign, derive events, write the snapshot | tasks, phase, mail, workers' panes |
| Team phase (`team/orchestrator.ts`, `phase-controller.ts`) | `phase.json` | infer a target, walk the legal path, reopen | monitor pass, native hook, root mode state |
| Team events and approvals (`state/events.ts`, `approvals.ts`) | `events/events.ndjson`, `approvals/*.json` | append, await, read | tasks, monitor |
| Dispatch queue (`state/dispatch.ts`, `mcp-comm.ts`) | `dispatch/requests.json`, or the Rust runtime's view | enqueue, mark notified / delivered / failed | dispatch lock, runtime, notify hook |
| Mailbox (`state/mailbox.ts`) | `mailbox/<worker>.json` | send, broadcast, mark notified / delivered | mailbox lock, runtime |
| Rust runtime (`crates/omx-runtime-core`, `omx-runtime`, `src/runtime/bridge.ts`) | event log, snapshot, compatibility view | `exec`: load, process one command, compact, persist | dispatch queue, mailbox |
| Workflow modes (`state/workflow-transition*.ts`, `operations.ts`, `modes/base.ts`) | `<mode>-state.json`, `skill-active-state.json` | start, update, transition, reconcile | run state, hooks |
| Run state, run loop (`runtime/run-*.ts`) | `run-state.json` | begin, record an outcome | modes |
| Start, shutdown, scaling (`team/runtime.ts`, `scaling.ts`, `worktree.ts`) | `config.json`, worktrees, panes | start, scale, integrate commits, shut down | scaling lock, git, tmux |
| Notify hooks and watchers (`scripts/`) | cursors and cool-downs | drain dispatches, nudge, mark a dead transport | dispatch queue, phase |
| Notifications, pipeline, autoresearch, ralph, ultragoal, HUD, CLI, winmux, MCP servers | session files | see the code | stores above |

What makes each of them correct:

- **Locks**: bodies under one lock exclude each other; a holder's lock is not
  taken away; a dead holder's lock is; every call returns.
- **Tasks**: one worker at a time owns a task and stays its owner while its
  lease lasts; no write is lost; a task starts only after what it depends on; a
  finished task stays finished; the log agrees with the tasks.
- **Monitor**: what a pass concludes from its listings stays true although the
  tasks move on under it; passes that overlap do no harm; no task is stuck.
- **Phase**: only legal steps; fix rounds bounded; the phase follows the work.
- **Dispatch, mail, runtime**: an accepted message is not lost; a status never
  moves backwards; a restart restores what was acknowledged.
- **Modes**: no two modes that exclude each other are active together.
- **Scaling and creation**: a task's file is never another's; the roster lists who runs, within
  the limit and under names of their own, also after failures and roll-backs.

The hazards, each at its line, are listed in `PROJECT.json`.

## 2. Plan

In the order of their weight: whatever the team does rests on the locks, then
on the tasks, then on the leader's loop.

1. `Mutex`, `DirLock`: the lock protocol and the lock it implements. **Done and proved.**
2. `TaskBoard`, `TaskClaims`: the task store on top of `Mutex`, and the board with atomic
   calls that it implements. **Done and proved.**
3. `TeamMonitor`: composes the polling pass with `TaskClaims`. **Done and proved** for tasks.
4. `TeamPhase`: the phase file under overlapping polls and the hook. **Done and proved.**
5. `RuntimeEngine`, `CommandLog`, `RuntimeExec`: the Rust runtime as concurrent `exec`
   processes (load, process, compact, persist file by file, compatibility view; a
   crash between any two), and the atomic log it implements. **Done and proved.**
6. `DispatchQueue`: the dispatch requests of a team between senders, hooks and the
   runtime's engine. **Done and proved**, but for broadcasts and the mailbox files of workers.
7. `WorkflowModes`: modes started, changed, cancelled and cleared by overlapping
   calls; exclusion of the modes that must not overlap. **Done and proved**, but for
   three writers (section 7).

8. `TeamScaling`: task creation, scale-up and scale-down on one configuration. **Done and
   proved**, up to the mishaps that the properties name.

Left: an abstract specification of `DispatchQueue` (its promises hold up to so many mishaps that
the single properties say more than a refinement would), worktrees and the draining of workers,
and the components that section 7 lists. The modules hold no RECURSIVE operator, so that each
can be proved about.

## 3. Modules

| Module | Models | Lines it stands for |
|---|---|---|
| `Mutex` | what a lock promises: one body at a time | the call of `fn` in each `with...Lock` |
| `DirLock` | the mkdir / owner-file protocol | `locks.ts`, `dispatch-lock.ts` |
| `DirLockProofs` | theorems about `DirLock` | |
| `TaskBoard` | what the task API promises: a board on which each call is atomic | `tasks.ts`, `state.ts` |
| `TaskClaims` | task files, leases, claim locks, event log, the flag in the snapshot | `tasks.ts`, `state.ts`, `api-interop.ts` |
| `TaskClaimsProofs` | theorems about `TaskClaims` | |
| `TeamMonitor` | the polling pass, composed with `TaskClaims` | `monitorTeam`, `assignTask`, `rebalance-policy.ts`, `state/monitor.ts` |
| `TeamMonitorProofs` | theorems about `TeamMonitor`, from lemmas of `TaskClaimsProofs` | |
| `TeamPhase` | `phase.json`, polls, the transport-failure hook | `orchestrator.ts`, `phase-controller.ts`, `codex-native-hook.ts` |
| `TeamPhaseProofs` | theorems about `TeamPhase` | |
| `RuntimeEngine` | the engine as a pure object: legal commands, effects, replay, compaction | `engine.rs`, `dispatch.rs`, `authority.rs`, `mailbox.rs` |
| `CommandLog` | what the runtime promises: one log, every command at once or not at all | `engine.rs`, `main.rs` |
| `RuntimeExec` | `omx-runtime exec` and `init` on one state directory | `main.rs`, `engine.rs`, `bridge.ts` |
| `RuntimeExecProofs` | theorems about `RuntimeExec`, with the inductions over logs (replay, compaction, the authority) they rest on | |
| `DispatchQueue` | dispatch requests between senders, hooks and the engine | `state/dispatch.ts`, `mcp-comm.ts`, `team/runtime.ts`, `notify-hook/team-dispatch.ts` |
| `DispatchQueueProofs` | theorems about `DispatchQueue` | |
| `WorkflowModes` | mode files and the lists of active skills | `modes/base.ts`, `state/operations.ts`, `state/workflow-transition*.ts`, `state/skill-active.ts` |
| `WorkflowModesProofs` | theorems about `WorkflowModes` | |
| `TeamScaling` | the configuration: task creation, scale-up, scale-down | `scaling.ts`, `state.ts` |
| `TeamScalingProofs` | theorems about `TeamScaling` | |
| `MC...` (one for each of the eight state machines) | small instances | |

**DirLock.** The five lock functions are the same protocol with other
time-outs. A process is at one await of it (`pc`): `Mkdir`, `WriteOwner`, `Undo`,
`Stat`, `Recover`, `CheckDeadline`, `FinishBody`, `ReadOwner`, `Rm`. Time is `Age`
(a directory nobody works under becomes older than LOCK_STALE_MS), `Overrun` (a
live body does), and `PassDeadline`. `Crash` and `ReleaseFails` leave the
directory behind. `maker` is a history variable: the live call that made the
directory. `breach` records the two ways in which a live call can lose it: the
recovery of another directory than the one found stale ("race") and a body longer
than five minutes ("overrun").

**TaskClaims.** A call goes through `Acquire` (lock and read), `Check`, `WriteTask`,
`AppendEvent`, `Unlock`, and for completions `MarkRead` and `MarkWrite`, each an
await of the code; leases lapse, processes die, and orphaned locks are recovered in
between. The lock is the one of `Mutex`; that `DirLock` implements it up to a breach is
what justifies this, and a breach is out of this module's scope. A lease is a token;
the fifteen minutes are the action `Lapse`. The token that the code draws at random is
the next number. `Updated` is the record a call writes, built from what it read.

**TaskBoard.** No locks, no processes and no earlier readings: `Take`, `End`, `PutBack`, `Edit` and
`Lapse` act on the board as it is. `TaskClaims` maps a task file to its status, owner, lease and
dependencies (`OnBoard`). A call's write is its one step on the board; locks, checks,
events, flags, time-outs and deaths are none. What a plan with `touch` writes is not on the board.

**TeamScaling.** `createTask`, `scaleUp` and `scaleDown`, a step for each read, write and change of
a pane. All three read the configuration (`manifest.v2.json`, which `readTeamConfig` prefers)
and write it back whole later: `createTask` under the team lock, scaling under the scaling lock,
so that they overlap; `scaleUp` calls `createTask` inside. A worker is its index (the
name is made of it) and its pane. `mishaps` names what puts roster and panes at odds: "lostWrite" (a
task's creation writes back an older roster), "strayPane" (a scale-up throws with a pane open) and
"deadScaler" (a process dies in a scaling). In the repository only tests call the two scaling
functions; they are exported for use beside running teams.

**TeamMonitor.** `monitorTeam` step by step, its local variables in `pass`. A pass
makes calls of `TaskClaims` (`reclaim`, `claim`, `release`, `touch` for the
delegation plan), so its calls and those of workers interleave at every await.
Which idle worker gets which task is left open, as are the workers' panes: telling a
worker succeeds (`Dispatch`) or fails (`RollBack`).

**TeamPhase.** The tasks are reduced to what a poll infers from them. `Path`, `Transition`
and `Reconcile` are the code's functions; `Look`, `ReadPhase` and `WritePhase` the awaits.

**RuntimeExec.** Each call of the executable loads `events.json` and `mailbox.json` under a
shared flock and processes its command in memory (`Exec`), persists under the exclusive
flock (`LockAndTruncate`, `WriteEvents`, `TruncateMailbox`, `WriteMailbox`) and renders the
view for the TypeScript side without any lock (`TruncateDispatch` to `WriteMailboxView`).
The files are written in place, so each is truncated for a moment; a file is the set of
the texts in it, empty when truncated, and of two elements after two writers collided. The
flock never covers load and persist together: a call may persist an engine over a log that
it did not load. This and the other ways in which a promise can be lost are recorded in
`mishap` ("writeback", "lost", "init", "view"), and each property names the ones it excuses.
The engine is `RuntimeEngine`; a command and the event it leaves are one record. The
abstract `CommandLog` is generic in the engine; `RuntimeExec` instantiates it.

**DispatchQueue.** One `exec` is one step here; `RuntimeExec` says when it may be taken
as one, and `Accepted`, `Refused`, `NotRun`, `RunUnreported` are its outcomes for the caller.
Every accepted command renders the view (`dispatch.json`) from the engine, in which the
attempt count of a request does not exist and a status that only TypeScript has written is
unknown; the senders and hooks read this list under the dispatch lock and write it back as
a whole. A sender goes from `Enqueue` and `QueueExec` (or `Push`, when the runtime fails)
over the wait for a receipt to `Notify`, `NotifyFailed`, `Fail` or `Transition`; a hook
from `Claim` over the injector (`InjectConfirmed`, `InjectUnconfirmed`, `CannotInject`) to
`Finalize`, `Record` and `WriteFinal`, under a lease of 30 seconds. `typed` and `direct`
are history: what really reached the pane. `Teams` chooses who sends how, and how many
faults (failed execs, deaths, lapsed leases, lock time-outs) a behaviour may have.

**WorkflowModes.** A call of `startMode`, `updateModeState`, `cancelMode`, `state_write` or
`state_clear` reads and decides in one step (`Start`, `Update`, `Deactivate`, `Clear`,
`ClearAll`), and then writes: the modes that complete to make room (`Complete`), the mode's
file (`WriteFile`, `Unlink`), and for each of them the lists of active skills (`Sync` computes
them, `WriteRoot`, `WriteOwn` and `Refresh` write them). There is no lock between processes, so
calls overlap anywhere, and a call dies anywhere, possibly leaving a file cut short. `alone`
says that a call has not overlapped with any other; a step of a call that has is the mishap "race".
An update never switches on a mode that its file shows inactive: callers of `updateModeState` set `active: true`
only on a mode that is on or that they have just started.
"borrowed" is an update in a session that takes over a mode of the root: the code
checks no rule there. Callers that the code runs one after the other in
one process are separate processes here, which only adds interleavings.

## 4. Runs

| Run | Module / cfg | States | Shows |
|---|---|---|---|
| `dir_lock` | `MCDirLock` | 99 thousand | exclusion, intact holders, refinement of `Mutex`, every call returns, abandoned locks are recovered |
| `dir_lock_race` | `MCDirLockRace` | violation | stat and rm of a recovery are not atomic |
| `task_claims` | `MCTaskClaims` | 4.7 million | leases, readiness, finality, truth of the log, refinement of `TaskBoard` |
| `task_flags` | `MCTaskFlags` | violation | a rejected completion is flagged |
| `monitor_live` | `MCMonitorLive` | 199 thousand | no task is stuck; completions lost with their worker are announced; events and snapshot are true under interleaved passes and calls, through two deaths |
| `monitor_twice` | `MCMonitorTwice` | violation | a completion is announced twice |
| `team_scaling` | `MCTeamScaling` | 3.0 million | tasks are not overwritten, rosters are sound and within the limit, names differ, workers are listed |
| `team_phase` | `MCTeamPhase` | 285 thousand | legal steps only, bounded rounds, the phase settles |
| `phase_revived` | `MCPhaseRevived` | violation | a team that gave up is revived without new work |
| `runtime_exec` | `MCRuntimeExec` | 738 thousand | the event log survives overlapping and dying calls, and is an atomic log up to the named mishaps; calls end |
| `dispatch` | `MCDispatchQueue` | 555 thousand | receipts are true, hooks take turns, retries are bounded, statuses only move forward, requests settle |
| `workflow_modes` | `MCWorkflowModes` | 2.5 million | no incompatible modes, files and lists agree at rest, clearing always works |

Every property of a passing run has a *mutant*: an operator, kept beside the one it
changes, in which the code has a plausible bug, and under which TLC finds that
property violated. They are marked "Mutation of" and used by nothing else.

No run repeats what is proved and follows from something else that it checks: `NoLostUpdate`
(a write over another's is no step of the task board) and the type invariants of `DirLock`,
`RuntimeExec`, `DispatchQueue` and `WorkflowModes` are stated by theorems alone.

### Bounds

- `dir_lock`: three processes are the least for the recovery race (a dead
  holder, two contenders) with a third that still contends; one fault is enough to
  leave a directory behind, and calls repeat without bound. The theorems
  cover any number of each.
- `task_claims`: two processes, so that any two steps interleave; two workers, so that a
  task can change hands; two claims, so that a second lease follows a first that
  lapsed, was released or was reclaimed; one edit of dependencies; one crash. Task
  t1 waits for anybody, t2 is blocked by it and kept for one worker. Tasks whose
  dependencies never complete, or depend on themselves after an edit, rightly wait for good:
  deadlock is not checked here nor in the runs built on it. The edit makes t1 depend on itself, with
  t2 waiting behind it: such a ring never starts, which is `StartsWhenReady`, and only another edit opens it.
- `team_scaling`: two processes overlap; a limit of three with one worker at the start lets a scale-up of
  two fit, and another not; four calls are a scale-up, a scale-down and a creation beside each other and
  one more on what they left; one death.
- `monitor_live`: a pass is interleaved with the calls of a worker on one task and one lease, and two
  deaths may strike either: one that loses an event, and one of the leader that is about to make up for it.
  One leader, since liveness over two is too large an instance; overlapping passes of any
  number of leaders are covered by the theorems, which state each invariant of this run, the
  refinement, and the safety part of `LostCompletionIsAnnounced`. Tasks meet only through
  dependencies, which `task_claims` covers.
- `EventCap` (2) saturates the counting of events: two tell a duplicate.
- `team_phase`: two polls and one report overlap; one fix round is enough to reach
  the limit; workers may die and come back without bound. `phase_revived` keeps the
  code's limit of three rounds.
- `runtime_exec`: two processes, so that any two steps of two calls interleave; three
  calls, so that one may load what the other two have left; one crash. One request, one
  message and two owners: a second request would be handled independently of the first.
  The directory starts with both under way (what earlier calls left), and `init` leads to the empty one.
- `dispatch`: two teams of two requests each. In the first, two hooks meet each other and a
  sender that types itself, with one fault; in the second two senders queue the same
  instruction beside one hook, without faults. `MaxAttempts` is 2 (3 in the code): a first attempt,
  a retry, and the end of retries all occur. The instance with all of it at once is too large.
- `workflow_modes`: two callers in one session and the root; the three modes are the least with
  a pair that may overlap (team, ralph), a pair that may not, and one that makes room for both
  (ralplan). Four calls let two overlap on what two others left behind, and two crashes make
  the bound of `CompatibleModes` count; the theorems cover any number of each. After a mishap calls no longer overlap, and
  after a race or a loan only clearing calls begin, since nothing is claimed of others then.
- Calls stop at their bounds in the last three runs and in `team_scaling`, so deadlock is not checked
  there; that no call waits for ever is `ExecsFinish` and `RequestsSettle`.
- `SYMMETRY` is used only in runs without liveness: invariants, action properties and safety refinements.

### Fairness

- `DirLock`: the steps of a call, ageing, and the passing of a deadline are weakly fair: a
  live process runs its continuations, bodies end, time passes. Beginning a call,
  crashing and failing are not fair. `AbandonedLockIsRecovered` assumes, in the
  property, that somebody tries again and again.
- `TeamMonitor`: a leader polls in a loop (weak fairness of its steps), calls once
  begun go on, leases lapse, orphaned locks are recovered. Entering a free lock is strongly
  fair: a contender retries every 25 ms for five seconds, a holder stays
  for milliseconds. For the same reason `NoTaskIsStuck` assumes that a leader is turned away
  by a live holder finitely often (`LeaderNotOutrun`); being turned away by a dead one is not
  excluded, and is survived.
- `RuntimeExec`: a process that has begun a call goes on with it (weak fairness of its
  steps); `flock` hands the lock on when its holder drops it or dies.
- `DispatchQueue`: a sender that has begun goes on, hooks run on every turn of an agent and a
  watcher polls beside them, and a lease lapses. Sending, faults and deaths are not fair.
- `WorkflowModes`, `TeamScaling`: none; they have no liveness property.
- `TeamPhase`: leaders poll, a hook that has begun goes on. That the work changes is not
  fair; `PhaseFollowsWork` is about what happens once it no longer does.

## 5. Findings

1. **Stale-lock recovery may remove a live lock** (`dir_lock_race`). `maybeRecoverStaleLock`
   removes by path what it judged by an earlier `stat`. With one dead holder and two
   contenders, both run their bodies at once. Everything above the locks is proved or
   checked for the case that this does not happen.
2. **A rejected completion is flagged as announced** (`task_flags`). The flag in
   `completedEventTaskIds` is set whenever the lock was had, rejected or not.
3. **A completion may be announced twice** (`monitor_twice`). The pass reads the snapshot
   before the tasks, so the flag of a completion in between is not seen.
4. **A team that failed for good is revived by the next poll** (`phase_revived`). The limit
   of fix rounds ends in `failed`, failed tasks call for `team-fix`, and that counts as
   "reopened" with the count at zero. (The runtime CLI ends its loop on `failed`; the
   other callers of `monitorTeam` do not look.)

What the passing runs had to excuse, each as a named mishap in the property, is as telling:

- *An acknowledged command may be lost* ("writeback", `AcksAreDurable`, `OneAuthority`): two
  `exec` calls load the same log and the second persists over the first. Both callers were
  told of success; two owners may both believe that they have the authority.
- *A call killed while it fills `events.json` empties the engine* ("lost"): the next call finds a log
  that does not parse and starts from nothing. Callers kill their calls after 5 or 10 seconds.
- *A failed dispatch may come back* ("behind", `ViewMovesForward`): a status that only TypeScript
  wrote is overwritten by the next rendering, as pending, and the hooks type the request again;
  the attempt count is reset in the same way ("reset", `AttemptsAreBounded`).
- *Two calls may start modes that exclude each other* ("race", `CompatibleModes`): each decides on what
  it read before the other wrote. The same without any race by an update in a session
  that takes over a mode of the root ("borrowed").
- *Two crashes may bring back a mode that has ended* (`crashes <= 1` in `CompatibleModes`): a start
  of ralplan in a session dies after the root's list and before the session's own; clearing
  ralplan, which the session does not list, dies before the lists; the root's list now names
  a mode that has ended. A start of team, allowed, copies the stale entry into the session's list,
  and a start of ralplan is then allowed because it is "already active": both are on, although no
  two calls overlapped. One crash cannot do this (section 6).
- *A worker's name may be given out twice* ("strayPane", `NamesAreUnique`): `scaleUp` saves the
  counter of names only after the new worker has been told of its tasks (scaling.ts:677). An exception in
  between (a time-out of the dispatch lock is one) ends it without its roll-back; the worker runs on
  unlisted, and the next scale-up starts another under its name, with the same inbox and tasks, although
  scaling.ts:8 promises unique names. TLC finds this in three calls if the excuse is taken away.
- *A task's creation may take a worker out of the roster* ("lostWrite", `EveryWorkerIsListed`,
  `NamesAreUnique`): `createTask` writes back the configuration it read before a scaling saved its
  own. The worker runs on unlisted, and the counter of names goes back with the roster.
- *A configured limit of workers is forgotten* (no run: the model has it built in). `initTeamState` writes
  `max_workers` to `config.json` (state.ts:778), but the manifest has no such field, `readTeamConfig` prefers the
  manifest, and fills the field with the default (state.ts:892), so that a lower
  limit has no effect on `scaleUp`, although state.ts:81 says "configurable up to 20".
  `DefaultMax` stands for that default.
- *A completion may be announced by nobody* (`LostCompletionIsAnnounced`): its worker dies before the
  event, and either no pass had seen the task open (a first pass saves it as completed at once, or a flag was
  written over a snapshot read before there was one), or the task stands wrongly flagged
  (finding 2). A failed end that was lost is never announced: passes derive completions only.
- *A denied start may have written its file* when the lists changed since it decided: the second
  check is made after the file is written.

## 6. Proofs

`DirLockProofs`, from `ProcAssumption` (the null process is no process) and
`FaultAssumption` (the bound is a number), for any set of processes:

- `TypeCorrect`, `Exclusion`, `HeldIntact`: `Spec => []TypeOK`, `[]MutualExclusion`,
  `[]HeldLockIsIntact`. Exclusion alone is not inductive: two processes that both hold
  the lock without a common directory are not excluded by it. The invariant `IInv` says that as
  long as there was no breach, a call between its mkdir and its release is the `maker`
  of the directory, that a directory with a maker is fresh, and that from the body on the
  owner file holds its token. As there is one maker, there is one holder.
- `FaultFreeExclusion`: with no faults, exclusion holds without the exception, since
  nothing ever grows stale.
- `Refinement`: `Spec => ImplementsMutex`; every step up to the first breach is a step
  `Enter` or `Leave` of `Mutex` or leaves the holders alone.

`TaskClaimsProofs`, for any processes, workers, tasks, initial tasks and bounds, from the
assumptions that `TaskClaims` names (the bounds are numbers, the null value and
"orphan" are no processes, the initial tasks are unfinished):

- `TypeCorrect`, `LeasesStand`, `LogTrue`: `TypeOK`, `LiveLeaseStands` and
  `EventsMatchOutcome` are invariants. None is inductive alone, since each depends on
  what a call knows between its awaits. `Core` adds, for each call (`CallInv`): from the
  checks to the unlocking it holds the lock of its task; until its write the task is
  as it read it; between its checks and its write the conditions that nobody can
  undo still hold (`Cleared`); between its write and its event the task has
  ended as the event will say. `Tokens` says that claims carry drawn tokens. `IInv` adds
  that an unfinished task has no end in the log (`Quiet`), nor one that is about to be
  logged (`Unlogged`). `Core` is kept by `Moves`, calls with any request, so that
  it serves for the calls of monitor passes too.
- The steps of others keep a call's knowledge (`OthersKept`) because they write only
  the task whose lock they hold; what a claim knows of *other* tasks, that they are
  completed, lasts because completed tasks stay so (`Lasting`). This is the
  argument for why claimTask may read dependencies without their locks.
- `UpdatesKept`, `FinalityHolds`, `StartIsReady`: the action properties, from
  `WriteEffect`, which says what a write does to its task under `IInv`.
- `Refinement`: `Spec => ImplementsBoard`. `WriteRefines` shows for each kind of call that its
  write is one action of the board: what the checks found (`Cleared`) still holds when the write
  happens, which is the whole point of locks and tokens. Every other step leaves the board alone
  (`StepRefines`). It is shown for `Moves`, so that it serves the monitor passes as well.

`TeamMonitorProofs`, for any leaders among any processes, from the same assumptions:

- `MonitorTypeCorrect`, `EventsTrue`, `SnapshotBehind`: `MonitorTypeOK`, `EventsAreTrue` and
  `SnapshotIsNotAhead`. The invariant `MInv` extends `Core` by what the local variables of a pass
  still tell rightly of the files (`Fine`): a task that was listed as ended has ended so, a
  snapshot that was read holds nothing for finished that is not (`Behind`), and an
  assignment names a token that was drawn. All of it lasts because the end of a task
  does (`Lasts`), which is why stale listings and overwritten snapshots do no
  harm here; that an event may be logged twice is finding 3. `Calling` says that a pass
  makes its calls after it has listed the tasks.
- `NothingDropped`: `NoCompletionIsDropped`, an action property and the safety part of
  `LostCompletionIsAnnounced`. Besides `MInv` it needs that a pass has logged whatever it has done with among
  the events it derives (`Announced`), and `Readings`: since any reading of the snapshot may be written back
  later, the claim is about all of them, not about the file. That a pass comes at all is left to TLC.
- `MonitorRefinement`: `MonitorSpec => ImplementsBoard`: reclaims, assignments and roll-backs of
  overlapping passes are atomic on the task board, too.

`TeamPhaseProofs`, from the assumption that the limit of fix rounds is a number, for any
polls and hooks: `PhaseTypeCorrect` and `NoThrow`. The two are inductive together; the work is in
`ReconcileLegal`: from every phase that may be in the file, stale or not, to every target
that may be inferred, `Path` is a legal path (`PathLegal`), and walking a legal path
stays legal even where a round of team-fix turns into failed (`WalkLegal`).

`RuntimeExecProofs`, for any processes, commands, initial logs and bounds, from
`CommandsAssumption` (init is no command), `InitLogsAssumption` and `BoundsAssumption`:

- `WritersExclude`: at most one process is between the exclusive flock and its release,
  crashes included.
- `LogReadable`: `LogIsReadable`. While nobody fills `events.json` it holds the log committed
  last, or nothing after a call died there.
- `Refinement`: `Spec => ImplementsCommandLog`. The invariant adds to the two above what a call that
  is about to write holds (`Offers`): its log is the log it started from with its command
  appended, possibly compacted, its command was legal there, and as long as there was no
  mishap a log it did not start from cannot be there when it writes.
- `TypeCorrect` and `ReplaysWhole`: `TypeOK` and `LogReplaysCleanly`, by `SInv`: whatever logs
  overlap, what a call has computed is what its log stands for, and each log that may be
  written replays without a refused event. That compacting keeps this is `ReplayWithout`. The
  assumption on `InitLogs` says that the logs left by earlier calls replay so, too.
- `AcknowledgedKept`, `AuthorityExclusive`: `AcksAreDurable` and `OneAuthority`, by `KInv`: until a
  mishap, each log that a call has yet to write keeps what has been accepted (`Kept`). Two
  owners that were both told they have the authority would then be in one log, which `OneOwner`
  excludes.
- `ViewsCurrent`: `QuietViewIsCurrent`, by `VInv`: whoever will write the view last has it from the
  log that was committed last.

The first part of the module holds what these rest on. `Replay` and `Without` are recursive functions on the
positions of a log; `Recursion` and `OnSequences` reduce what is to be said of them to a step
that appends one event, by the least element of a set of lengths at which it fails:

- `ReplayWithout`: with the events of some requests left out, a log replays to the same state
  but for these requests, and as cleanly, since what an event does to its record depends on that record.
- `OneOwner`: in a log that replays cleanly all acquires and renewals name one owner.

`DispatchQueueProofs`, for any requests, equivalences, hooks, teams and bounds. Each invariant rests on
those before it:

- `TypeCorrect`: `TypeOK`, by `TInv`, which adds what the locked sections establish: the attempt
  counts within their bound, and that a hook or sender which is to write a status has read a
  list from which the code lets it do so.
- `WorkAlone`: `HooksWorkAlone`, by `LInv`: the hook at work is the one whose lease the request carries.
- `ReceiptsTrue`: `ReceiptsAreTrue`, by `RInv`: whoever is to report a request as typed, and every list
  and engine that says so, is preceded by somebody who typed it. No mishap is excused.
- `ForwardOnly`: `ViewMovesForward`, an action property, by `BInv` (the view and the list in a
  holder's hands hold every request that the engine has, and differ only where an `exec` has
  rendered in between) and `FInv` (the view, and the list a hook is about to write over it, are
  never behind the engine). Hence a rendering of the engine, too, moves a status forward at most.
- `AttemptsBounded`: `AttemptsAreBounded`, by `AInv`: the count in the view covers what hooks have
  typed, but for one attempt that its hook has yet to record.
- `OnePendingOnly`: `OnePendingPerInstruction`, by `OInv`: until a sender that found no pending
  equivalent has queued its own request there is none. This needs that both requests match each
  other: the code's match of an inbox instruction is not symmetric, and of a pair that matches one way
  only, both may be pending.

`WorkflowModesProofs`, for any callers, sessions, modes among the tracked ones and bounds, from
`ModeAssumption`, `ScopeAssumption` and `BoundsAssumption`:

- `TypeCorrect`: `TypeOK`, from the shape of each call's record at each of its steps (`Shapes`)
  and the fact that a call that is alone is the only one under way (`Sole`).
- `ClearWorks`: `ClearingWorks`, by what a lone clearing call has achieved so far
  (`ClearedFiles`, `ClearedLists`). It assumes nothing about the files it finds.
- `QuietAgree` (`QuietListsAgree`) and `ModesFit` (`CompatibleModes`). Before any mishap they are
  inductive only together: the lists agree
  because the second check of a start does not throw, and it does not throw because the modes
  that files and lists show are compatible. `Peace` says how far lists and files agree at each step
  of the lone call (`Knows`) and that what is visible without the modes about to complete is compatible
  with the mode asked for (`Fits`). `ResultFits` is the rule behind it: an allowed
  start among compatible modes leaves compatible modes.
- After the first crash lists and files no longer agree, files may be torn, and a start
  may end in a refusal. What is left (`Rest`) is weaker: a mode that the root's list names for a
  session is still visible in that session (`Backed`), so that copying entries from the root
  makes nothing visible that was not. `CrashRests` shows that every crash out of `Peace` leaves
  this, whatever it cuts short, because a call that rewrites a session's list has the files
  on its side; the lemmas `Steady...` show that each step of the calls after it keeps it. A second
  crash breaks `Backed`, as the behaviour in section 5 does.

`TeamScalingProofs`, for any actors, limits, initial workers and bounds, from the assumptions that
`TeamScaling` names (the null values are none of the others, the team starts with one worker or
more, at most the limit):

- `Typing`: `TypeOK`, by `TInv`, which adds which local variables a call has set at each of its steps
  (`Fits1`), that a scale-up has workers left to add where it opens a pane, and that the ids of the
  tasks are bounded (`Bounded`), so that there is a greatest to count on from.
- `TasksAreKept`: `TasksStay`, an action property, by `NInv`: ids differ, an id that was picked is still
  free when its file is written, and the tasks that a scale-up will remove in its roll-back
  are files that it made itself (`Kept`). It holds through any mishap: the ids come from the files,
  not from the counter alone.
- `RostersAreSound`: `RosterIsSound`, by `RInv`. Any
  copy of the configuration may be written at any time later, so *every* copy must be
  sound (`Good`): between one worker and the limit, distinct indices below the counter. For
  a scale-up, the copy has room for the workers still to come, and its workers are the added ones or have
  indices below the first that it gave out (`Rosters`), so that its roll-back, which gives the indices back,
  leaves a sound copy again. No mishap is excused.
- `WorkersAreListed` and `NamesDiffer`: `EveryWorkerIsListed` and `NamesAreUnique`, by `LInv`: until
  a mishap, whoever runs is in the roster or in the hands of the one scaling under way (`Sees`), whose
  copy of the roster is still that of the file.

Only model-checked:

- All liveness (`NoCallHangs`, `AbandonedLockIsRecovered`, `NoTaskIsStuck`, `LostCompletionIsAnnounced`,
  `PhaseFollowsWork`, `ExecsFinish`, `RequestsSettle`), which is out of the prover's reach.

The theorems about `TaskClaims`, `TeamMonitor` and `TeamScaling` rest on the abstract lock: they hold until a breach of `DirLock`.
`DispatchQueue` rests on it too, and takes an `exec` for one step, which the refinement
of `CommandLog` justifies until a mishap of `RuntimeExec`.

## 7. Not modelled

Texts and layouts (task descriptions, inboxes, prompts, HUD), terminal and git I/O, the
transport of notifications, installation and the CLI's argument handling; the reasons are
given for each component in `PROJECT.json`.

Left out of the modelled components: listings by other callers; worker-state
events, commit integration and mail delivery in the monitor pass; the copy of the phase in the root mode
state; broadcasts, cooldowns, the delivery log and the legacy `requests.json` of the dispatch queue; the
per-worker mailbox files; the runtime's files that nobody loads, its readiness and replay cursor; the
phases and metadata of a workflow mode, `run-state.json`, the writer of the mode lists in
`hooks/keyword-detector.ts`, the clean-up after a launch (`cli/index.ts`), and the end of a team's shutdown
(`persistExactTeamModeState`, `cli/team.ts:71`), three more writers that overlap in the same unguarded
way. The last switches the team's mode file off, in the root and in the session, and does not touch the lists,
so `QuietListsAgree` is a statement about the modelled calls and not about a directory in which a team
was shut down. In scaling the draining of workers, worktrees, panes that do not obey, and
`config.json` beside the manifest. Start, shutdown and commit integration are mostly git and tmux I/O; what
they save in the configuration outside the two locks is not covered by the theorems about `TeamScaling`.

External to the repository and assumed: `mkdir` and `rename` are atomic, `rm -r` of a
directory with one file is one step.
