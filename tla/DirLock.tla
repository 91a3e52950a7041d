------------------------------ MODULE DirLock ------------------------------
(***************************************************************************)
(* The directory lock of src/src/team/state/locks.ts (scaling, create-task,*)
(* task-claim and mailbox locks) and dispatch-lock.ts: one lock directory, *)
(* contended by processes that share nothing but the file system.          *)
(*                                                                         *)
(*   acquire   mkdir(lockDir), then write an owner file with a fresh token *)
(*   contend   on EEXIST stat the directory; older than LOCK_STALE_MS: rm  *)
(*             it and retry; else give up after the deadline, else sleep   *)
(*   release   read the owner file; it still holds our token: rm -r        *)
(*                                                                         *)
(* A process stands for one call at a time; its identity is its token (a   *)
(* restarted process draws a new one, and a token only ever survives in a  *)
(* directory that its own call made, so the old and the new never meet).   *)
(* rm -r is one step: the directory holds the owner file and nothing else. *)
(***************************************************************************)
EXTENDS Naturals, FiniteSets

CONSTANTS
  Proc,             \* processes (CLI calls, workers, the leader)
  NoProc,           \* no process
  MaxFaults         \* bound on crashes, failed releases and overlong bodies

ASSUME ProcAssumption == NoProc \notin Proc
ASSUME FaultAssumption == MaxFaults \in Nat

VARIABLES
  pc,        \* pc[p]: where the call of p is, "idle" outside of any call
  lockDir,   \* the lock directory: "absent", "fresh" or "stale" (by mtime)
  owner,     \* the token in its owner file, NoProc when there is no file
  expired,   \* expired[p]: Date.now() > deadline
  maker,     \* history: the live call that made the directory, if any
  faults,    \* crashes, failed releases and overlong bodies so far
  breach     \* history: the ways in which a live call came to lose its lock

vars == <<pc, lockDir, owner, expired, maker, faults, breach>>

Contending == {"mkdir", "stat", "recover", "deadline"}
Holding == {"writeOwner", "undo", "fn", "readOwner", "rm"}
Status == {"idle"} \cup Contending \cup Holding

TypeOK ==
  /\ pc \in [Proc -> Status]
  /\ lockDir \in {"absent", "fresh", "stale"}
  /\ owner \in Proc \cup {NoProc}
  /\ expired \in [Proc -> BOOLEAN]
  /\ maker \in Proc \cup {NoProc}
  /\ faults \in 0 .. MaxFaults
  /\ breach \subseteq {"race", "overrun"}
  /\ lockDir = "absent" => owner = NoProc

Init ==
  /\ pc = [p \in Proc |-> "idle"]
  /\ lockDir = "absent"
  /\ owner = NoProc
  /\ expired = [p \in Proc |-> FALSE]
  /\ maker = NoProc
  /\ faults = 0
  /\ breach = {}

-----------------------------------------------------------------------------
Goto(p, where) == pc' = [pc EXCEPT ![p] = where]

\* rm(lockDir, { recursive: true, force: true })
RemoveDir ==
  /\ lockDir' = "absent"
  /\ owner' = NoProc
  /\ maker' = NoProc

\* The directory outlives the call of p that made it.
Abandon(p) == maker' = IF maker = p THEN NoProc ELSE maker

\* A with...Lock call begins and fixes its deadline.
Start(p) ==
  /\ pc[p] = "idle"
  /\ Goto(p, "mkdir")
  /\ expired' = [expired EXCEPT ![p] = FALSE]
  /\ UNCHANGED <<lockDir, owner, maker, faults, breach>>

\* Mutation of Mkdir: { recursive: true }, which does not fail with EEXIST.
MkdirRecursive(p) ==
  /\ pc[p] = "mkdir"
  /\ lockDir' = IF lockDir = "absent" THEN "fresh" ELSE lockDir
  /\ maker' = p
  /\ Goto(p, "writeOwner")
  /\ UNCHANGED <<owner, expired, faults, breach>>

\* await mkdir(lockDir): atomic, EEXIST when the directory is there.
Mkdir(p) ==
  /\ pc[p] = "mkdir"
  /\ \/ /\ lockDir = "absent"
        /\ lockDir' = "fresh"
        /\ maker' = p
        /\ Goto(p, "writeOwner")
     \/ /\ lockDir # "absent"
        /\ Goto(p, "stat")
        /\ UNCHANGED <<lockDir, maker>>
  /\ UNCHANGED <<owner, expired, faults, breach>>

\* writeFile(ownerPath, token).  A file added to the directory renews its
\* mtime.  The write fails when the directory is gone, or on any I/O error.
WriteOwner(p) ==
  /\ pc[p] = "writeOwner"
  /\ \/ /\ lockDir # "absent"
        /\ owner' = p
        /\ lockDir' = IF owner = NoProc THEN "fresh" ELSE lockDir
        /\ Goto(p, "fn")
     \/ /\ Goto(p, "undo")
        /\ UNCHANGED <<lockDir, owner>>
  /\ UNCHANGED <<expired, maker, faults, breach>>

\* The owner file could not be written: rm the directory and throw.
Undo(p) ==
  /\ pc[p] = "undo"
  /\ RemoveDir
  /\ Goto(p, "idle")
  /\ UNCHANGED <<expired, faults, breach>>

\* Mutation of Stat: no directory is ever old enough.
StatIgnoringAge(p) ==
  /\ pc[p] = "stat"
  /\ Goto(p, "deadline")
  /\ UNCHANGED <<lockDir, owner, expired, maker, faults, breach>>

\* maybeRecoverStaleLock, up to the rm: stat the directory and compare its
\* age.  A directory that is gone counts as not recovered.
Stat(p) ==
  /\ pc[p] = "stat"
  /\ Goto(p, IF lockDir = "stale" THEN "recover" ELSE "deadline")
  /\ UNCHANGED <<lockDir, owner, expired, maker, faults, breach>>

\* The rm of maybeRecoverStaleLock: whatever directory is there by now, which
\* need not be the one that was stale.
Recover(p) ==
  /\ pc[p] = "recover"
  /\ RemoveDir
  /\ breach' = IF lockDir = "fresh" THEN breach \cup {"race"} ELSE breach
  /\ Goto(p, "mkdir")
  /\ UNCHANGED <<expired, faults>>

\* Mutation of CheckDeadline: no deadline.
CheckNoDeadline(p) ==
  /\ pc[p] = "deadline"
  /\ Goto(p, "mkdir")
  /\ UNCHANGED <<lockDir, owner, expired, maker, faults, breach>>

\* Mutation of CheckDeadline: a call that times out clears the lock.
CheckDeadlineForcing(p) ==
  /\ pc[p] = "deadline"
  /\ IF expired[p] THEN RemoveDir ELSE UNCHANGED <<lockDir, owner, maker>>
  /\ Goto(p, IF expired[p] THEN "idle" ELSE "mkdir")
  /\ UNCHANGED <<expired, faults, breach>>

\* Date.now() > deadline: time out; otherwise sleep and try again.
CheckDeadline(p) ==
  /\ pc[p] = "deadline"
  /\ Goto(p, IF expired[p] THEN "idle" ELSE "mkdir")
  /\ UNCHANGED <<lockDir, owner, expired, maker, faults, breach>>

\* The body returns or throws: either way the finally block runs.
FinishBody(p) ==
  /\ pc[p] = "fn"
  /\ Goto(p, "readOwner")
  /\ UNCHANGED <<lockDir, owner, expired, maker, faults, breach>>

\* finally: read the owner file; rm only when it holds our own token.
ReadOwner(p) ==
  /\ pc[p] = "readOwner"
  /\ \/ /\ owner = p
        /\ Goto(p, "rm")
        /\ UNCHANGED maker
     \/ /\ owner # p
        /\ Abandon(p)
        /\ Goto(p, "idle")
  /\ UNCHANGED <<lockDir, owner, expired, faults, breach>>

Rm(p) ==
  /\ pc[p] = "rm"
  /\ RemoveDir
  /\ Goto(p, "idle")
  /\ UNCHANGED <<expired, faults, breach>>

-----------------------------------------------------------------------------
(* The environment: time, failing I/O and dying processes.                 *)

\* The deadline of p passes while it contends.
PassDeadline(p) ==
  /\ pc[p] \in Contending
  /\ ~expired[p]
  /\ expired' = [expired EXCEPT ![p] = TRUE]
  /\ UNCHANGED <<pc, lockDir, owner, maker, faults, breach>>

\* A directory that nobody works under grows older than LOCK_STALE_MS (five
\* minutes).
Age ==
  /\ lockDir = "fresh"
  /\ maker = NoProc
  /\ lockDir' = "stale"
  /\ UNCHANGED <<pc, owner, expired, maker, faults, breach>>

\* The body of a live call outlasts LOCK_STALE_MS.
Overrun(p) ==
  /\ faults < MaxFaults
  /\ lockDir = "fresh" /\ maker = p /\ pc[p] = "fn"
  /\ lockDir' = "stale"
  /\ breach' = breach \cup {"overrun"}
  /\ faults' = faults + 1
  /\ UNCHANGED <<pc, owner, expired, maker>>

\* The empty catch of the finally block: readFile or rm failed, the
\* directory stays behind.
ReleaseFails(p) ==
  /\ faults < MaxFaults
  /\ pc[p] \in {"readOwner", "rm"}
  /\ faults' = faults + 1
  /\ Abandon(p)
  /\ Goto(p, "idle")
  /\ UNCHANGED <<lockDir, owner, expired, breach>>

\* The process dies anywhere in the call; nothing is undone.
Crash(p) ==
  /\ faults < MaxFaults
  /\ pc[p] # "idle"
  /\ faults' = faults + 1
  /\ Abandon(p)
  /\ Goto(p, "idle")
  /\ UNCHANGED <<lockDir, owner, expired, breach>>

Step(p) ==
  \/ Mkdir(p) \/ WriteOwner(p) \/ Undo(p)
  \/ Stat(p) \/ Recover(p) \/ CheckDeadline(p)
  \/ FinishBody(p) \/ ReadOwner(p) \/ Rm(p)

Next ==
  \/ Age
  \/ \E p \in Proc :
       \/ Start(p)
       \/ Step(p)
       \/ PassDeadline(p)
       \/ Overrun(p)
       \/ ReleaseFails(p)
       \/ Crash(p)

Spec == Init /\ [][Next]_vars

\* The event loop of a live process runs its continuations, bodies end, and
\* time passes.  Nothing makes a process call, crash or fail.
Fairness ==
  /\ WF_vars(Age)
  /\ \A p \in Proc : WF_vars(Step(p)) /\ WF_vars(PassDeadline(p))

FairSpec == Spec /\ Fairness

-----------------------------------------------------------------------------
Holders == {p \in Proc : pc[p] = "fn"}

\* Two bodies never run under the lock at once (state.ts:1164 says it of the
\* scaling lock: "to prevent concurrent scale_up/scale_down operations"),
\* unless a recovery removed a directory that was made after its stat, or a
\* body outlasted LOCK_STALE_MS.  Crashes and failed releases alone are safe.
MutualExclusion == breach = {} => \A p, q \in Holders : p = q

\* The same promise when no body outlasts LOCK_STALE_MS, with no exception for
\* the gap between stat and rm in maybeRecoverStaleLock.
ExclusionWithoutOverrun ==
  "overrun" \notin breach => \A p, q \in Holders : p = q

\* While a body runs, the directory and the owner file its call wrote stay in
\* place: no contender's recovery, no other call's release and no failed
\* acquisition removes or overwrites the lock of a live holder.
HeldLockIsIntact ==
  breach = {} => \A p \in Holders : lockDir = "fresh" /\ owner = p

\* Until such a breach, the protocol implements the abstract lock.
Abstract == INSTANCE Mutex WITH holders <- Holders
ImplementsMutex ==
  Abstract!Init /\ [][breach' = {} => Abstract!Next]_Holders

\* As long as no live call loses its lock, every call returns: it takes the
\* lock and finishes, fails, or times out (a crash also ends it).  After a
\* breach the loop of mkdir, stat and rm may go round for as long as new stale
\* directories appear, because the deadline is not checked after a recovery.
NoCallHangs ==
  [](breach = {}) => \A p \in Proc : pc[p] # "idle" ~> pc[p] = "idle"

\* A directory left behind by a dead process or a failed release is removed,
\* provided somebody keeps asking for the lock.
Abandoned == lockDir # "absent" /\ maker = NoProc
AbandonedLockIsRecovered ==
  []<>(\E p \in Proc : pc[p] = "mkdir") => (Abandoned ~> ~Abandoned)

=============================================================================
