----------------------------- MODULE TeamPhase -----------------------------
(***************************************************************************)
(* The phase of a team: the transition rules of src/src/team/orchestrator.ts *)
(* and phase-controller.ts, as polling passes (monitorTeam) and the        *)
(* transport-failure hook apply them to phase.json.                        *)
(*                                                                         *)
(* A poll lists the tasks, infers the phase they call for, reads the       *)
(* persisted phase, moves it along the legal path and writes it back.  The *)
(* file has no lock, so polls and the hook may overlap anywhere.           *)
(*                                                                         *)
(* The tasks are known by what a poll infers from them.  As a finished task *)
(* stays finished (FinishedForGood of TaskClaims), a failure among them    *)
(* stays, and so does a completed one that lacks its evidence.             *)
(*                                                                         *)
(* Left out: the copy of a terminal phase in the root mode state, which no *)
(* poll reads back, and the log of transitions.                            *)
(***************************************************************************)
EXTENDS Naturals, Sequences

CONSTANTS
  Poller,          \* processes that run monitorTeam
  Hook,            \* processes that may report a dead transport
  MaxFixAttempts,  \* max_fix_attempts of the team
  PromptMode,      \* the workers run in prompt mode, where dead ones are seen
  MaxReports       \* bound on reports of a dead transport

ASSUME PollerAssumption == Poller \cap Hook = {}
ASSUME FixAssumption == MaxFixAttempts \in Nat /\ MaxReports \in Nat
ASSUME ModeAssumption == PromptMode \in BOOLEAN

StagePhase == {"team-plan", "team-prd", "team-exec", "team-verify", "team-fix"}
TerminalPhase == {"complete", "failed", "cancelled"}
Phase == StagePhase \cup TerminalPhase
Target == {"team-exec", "team-verify", "team-fix", "complete", "failed"}
PhaseState == [phase : Phase, attempt : 0 .. MaxFixAttempts]

VARIABLES
  open,        \* some task is pending, blocked or in progress
  failing,     \* some task has failed
  unverified,  \* some completed task lacks its verification evidence
  dead,        \* all workers of a prompt-mode team are dead
  phase,       \* phase.json
  at,          \* at[p]: the next step of the poll or report of p
  target,      \* target[p]: the phase that the tasks called for
  base,        \* base[p]: phase.json as p read it
  reports      \* reports of a dead transport so far

work == <<open, failing, unverified, dead>>
vars == <<work, phase, at, target, base, reports>>

Start == [phase |-> "team-exec", attempt |-> 0]

PhaseTypeOK ==
  /\ open \in BOOLEAN /\ failing \in BOOLEAN
  /\ unverified \in BOOLEAN /\ dead \in BOOLEAN
  /\ phase \in PhaseState
  /\ at \in [Poller \cup Hook -> {"off", "read", "write", "threw"}]
  /\ target \in [Poller -> Target]
  /\ base \in [Poller \cup Hook -> PhaseState]
  /\ reports \in 0 .. MaxReports

Init ==
  /\ open = TRUE /\ failing = FALSE /\ unverified = FALSE /\ dead = FALSE
  /\ phase = Start
  /\ at = [p \in Poller \cup Hook |-> "off"]
  /\ target = [p \in Poller |-> "team-exec"]
  /\ base = [p \in Poller \cup Hook |-> Start]
  /\ reports = 0

-----------------------------------------------------------------------------
(* The transition rules.                                                   *)

\* TRANSITIONS.
Allowed ==
  [f \in StagePhase |->
     CASE f = "team-plan"   -> {"team-prd"}
       [] f = "team-prd"    -> {"team-exec"}
       [] f = "team-exec"   -> {"team-verify"}
       [] f = "team-verify" -> {"team-fix", "complete", "failed"}
       [] f = "team-fix"    -> {"team-exec", "team-verify", "complete", "failed"}]

\* Mutation of Transition: rounds of team-fix have no limit.
TransitionUncounted(s, to) ==
  IF to \notin Allowed[s.phase] THEN [phase |-> "illegal"]
  ELSE [s EXCEPT !.phase = to, !.attempt = IF to = "team-fix" THEN @ + 1 ELSE @]

\* transitionPhase: entering team-fix once too often ends in failed instead,
\* and an illegal step throws.
Transition(s, to) ==
  IF to \notin Allowed[s.phase] THEN [phase |-> "illegal"]
  ELSE IF to # "team-fix" THEN [s EXCEPT !.phase = to]
  ELSE IF s.attempt + 1 > MaxFixAttempts THEN [s EXCEPT !.phase = "failed"]
  ELSE [phase |-> to, attempt |-> s.attempt + 1]

\* The way from the phase f into team-exec.
ToExec(f) ==
  CASE f = "team-plan" -> <<"team-prd", "team-exec">>
    [] f \in {"team-prd", "team-fix"} -> <<"team-exec">>
    [] OTHER -> <<>>

\* Mutation of Path: no pass through team-verify.
PathSkippingVerify(f, to) ==
  IF f = to \/ f \in TerminalPhase THEN <<>> ELSE Append(ToExec(f), to)

\* buildTransitionPath: from the phase f to what the tasks call for.
Path(f, to) ==
  IF f = to \/ f \in TerminalPhase THEN <<>>
  ELSE IF to = "team-exec" THEN ToExec(f)
  ELSE IF to = "team-verify" THEN Append(ToExec(f), to)
  ELSE IF f \in {"team-verify", "team-fix"} THEN <<to>>
  ELSE ToExec(f) \o <<"team-verify", to>>

\* A path is walked until it ends or a terminal phase is reached, in at most
\* four steps: that many lead from team-plan to the end.
Advance(s, path, i) ==
  IF i > Len(path) \/ s.phase \in {path[i], "illegal"} \cup TerminalPhase THEN s
  ELSE Transition(s, path[i])
Walk(s, path) ==
  Advance(Advance(Advance(Advance(s, path, 1), path, 2), path, 3), path, 4)

\* Mutation of Reconcile: a terminal phase is never left.
ReconcileKeepingTerminal(s, to) ==
  IF s.phase \in TerminalPhase THEN s ELSE Walk(s, Path(s.phase, to))

\* reconcilePhaseStateForMonitor: a terminal phase gives way to one that is
\* not, and the count of fixes starts over.
Reconcile(s, to) ==
  IF s.phase \in TerminalPhase
    THEN IF to \in TerminalPhase THEN s ELSE [phase |-> to, attempt |-> 0]
    ELSE Walk(s, Path(s.phase, to))

\* inferPhaseTargetFromTaskCounts, and the stall of a team of dead workers.
Called ==
  IF open THEN IF dead THEN "failed" ELSE "team-exec"
  ELSE IF failing THEN "team-fix"
  ELSE IF unverified THEN "team-verify" ELSE "complete"

-----------------------------------------------------------------------------
(* A poll.                                                                 *)

\* The tasks are listed and the workers looked at.
Look(p) ==
  /\ at[p] = "off"
  /\ target' = [target EXCEPT ![p] = Called]
  /\ at' = [at EXCEPT ![p] = "read"]
  /\ UNCHANGED <<work, phase, base, reports>>

ReadPhase(p) ==
  /\ at[p] = "read"
  /\ base' = [base EXCEPT ![p] = phase]
  /\ at' = [at EXCEPT ![p] = "write"]
  /\ UNCHANGED <<work, phase, target, reports>>

\* p is done, and forgets what it has read.
Return(p) ==
  /\ at' = [at EXCEPT ![p] = "off"]
  /\ base' = [base EXCEPT ![p] = Start]

\* A poll that throws is the end of it, and so is every later one, which
\* finds the same phase and the same tasks.
WritePhase(p) ==
  /\ at[p] = "write"
  /\ LET next == Reconcile(base[p], target[p])
     IN IF next.phase = "illegal"
          THEN at' = [at EXCEPT ![p] = "threw"] /\ UNCHANGED <<phase, base>>
          ELSE /\ phase' = next
               /\ Return(p)
  /\ target' = [target EXCEPT ![p] = "team-exec"]
  /\ UNCHANGED <<work, reports>>

Poll(p) == Look(p) \/ ReadPhase(p) \/ WritePhase(p)

-----------------------------------------------------------------------------
(* The hook on a dead transport, markTeamTransportFailure.                 *)

\* It leaves a team in a terminal phase alone.
BeginReport(h) ==
  /\ at[h] = "off"
  /\ reports < MaxReports
  /\ reports' = reports + 1
  /\ IF phase.phase \in TerminalPhase
       THEN UNCHANGED <<at, base>>
       ELSE /\ at' = [at EXCEPT ![h] = "write"]
            /\ base' = [base EXCEPT ![h] = phase]
  /\ UNCHANGED <<work, phase, target>>

WriteReport(h) ==
  /\ at[h] = "write"
  /\ phase' = [base[h] EXCEPT !.phase = "failed"]
  /\ Return(h)
  /\ UNCHANGED <<work, target, reports>>

Report(h) == BeginReport(h) \/ WriteReport(h)

-----------------------------------------------------------------------------
(* The tasks and the workers.                                              *)

\* The last open task is finished, one way or another.
FinishTasks ==
  /\ open
  /\ open' = FALSE
  /\ failing' \in {failing, TRUE}
  /\ unverified' \in {unverified, TRUE}
  /\ UNCHANGED <<dead, phase, at, target, base, reports>>

\* createTask: there is work again.
AddTask ==
  /\ ~open
  /\ open' = TRUE
  /\ UNCHANGED <<failing, unverified, dead, phase, at, target, base, reports>>

\* The workers die; a team that is scaled up has live ones again.
WorkersChange ==
  /\ PromptMode
  /\ dead' = ~dead
  /\ UNCHANGED <<open, failing, unverified, phase, at, target, base, reports>>

WorkChanges == FinishTasks \/ AddTask \/ WorkersChange

Next ==
  \/ \E p \in Poller : Poll(p)
  \/ \E h \in Hook : Report(h)
  \/ WorkChanges

Spec == Init /\ [][Next]_vars

\* Leaders poll in a loop; a hook that has begun goes on.
FairSpec ==
  /\ Spec
  /\ \A p \in Poller : WF_vars(Poll(p))
  /\ \A h \in Hook : WF_vars(WriteReport(h))

-----------------------------------------------------------------------------
\* No poll ever asks the orchestrator for a step that it rejects by throwing,
\* from whatever phase the polls and the hook have left in the file.
PollsNeverThrow == \A p \in Poller : at[p] # "threw"

\* Once the tasks and workers stay as they are, the phase settles to fit them,
\* whatever polls and reports overlapped before.  New work does not take a team
\* out of team-verify.
Fits ==
  CASE open /\ dead  -> phase.phase \in TerminalPhase
    [] open /\ ~dead -> phase.phase \in {"team-exec", "team-verify"}
    [] ~open /\ failing -> phase.phase \in {"team-fix", "failed"}
    [] ~open /\ ~failing /\ unverified -> phase.phase = "team-verify"
    [] OTHER -> phase.phase \in TerminalPhase
PhaseFollowsWork == <>[][~WorkChanges]_vars => <>[]Fits

\* phase-controller.test.ts:47: "re-opens from terminal phase when tasks become
\* non-terminal again" (the code records the reason 'tasks_reopened'): a team
\* that has failed is revived only by tasks that a poll listed as open.
RevivedOnlyByTasks ==
  [][\A p \in Poller :
       WritePhase(p) /\ base[p].phase = "failed" /\ phase'.phase \notin TerminalPhase
         => target[p] = "team-exec"]_vars

=============================================================================
