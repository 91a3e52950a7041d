------------------------- MODULE TeamMonitorProofs -------------------------
(* Theorems about monitor passes beside the calls of the workers, for any  *)
(* set of leaders, workers and tasks and any bounds.                       *)
EXTENDS TeamMonitor, TaskClaimsProofs

PassRecord == [at : Stages, prev : Snapshot \cup {None},
               list : [Task -> SeenTask \cup {None}], todo : SUBSET Task,
               changed : BOOLEAN, won : 0 .. MaxToken]

\* v was listed for the task t, and if it had ended then, it ended so.
Told(t, v) ==
  v \in SeenTask /\ (v.status \in Terminal => task[t].status = v.status)

\* The snapshot s holds nothing for finished that is not finished so.
Behind(s) ==
  s # None =>
    \A t \in Task : s.known[t] \in Terminal => task[t].status = s.known[t]

\* What the local variables q of a pass still tell rightly of the files.
Fine(q) ==
  /\ q.at = "list" => \A t \in Task \ q.todo : Told(t, q.list[t])
  /\ q.at \notin {"off", "list"} => \A t \in Task : Told(t, q.list[t])
  /\ q.at \in {"won", "dispatch"} => q.won \in 1 .. issued
  /\ Behind(q.prev)

Passes ==
  /\ pass \in [Monitor -> PassRecord]
  /\ \A m \in Monitor : Fine(pass[m])

Snapshots ==
  /\ Behind(snapshot)
  /\ \A p \in Actor : Behind(base[p])

\* A pass makes its calls once it has listed the tasks.
Calling == \A m \in Monitor : step[m] # "idle" => pass[m].at \notin {"off", "list"}

MInv == Core /\ Passes /\ Calling /\ Snapshots /\ EventsAreTrue

\* A step that only logs events, saves a snapshot or counts a crash.
Notes ==
  /\ events' \in [Task -> [Terminal -> 0 .. EventCap]]
  /\ snapshot' \in Snapshot \cup {None}
  /\ crashes' \in 0 .. MaxCrashes
  /\ UNCHANGED <<task, lock, issued, lapsed, local, updates, history>>

\* What no step takes back.
Lasts ==
  /\ \A t \in Task : task[t].status \in Terminal => task'[t].status = task[t].status
  /\ issued \in Nat /\ issued' \in Nat /\ issued <= issued'

-----------------------------------------------------------------------------
LEMMA InitMInv == MonitorInit => MInv
<1> SUFFICES ASSUME MonitorInit PROVE MInv
  OBVIOUS
<1>1. IInv
  BY InitIInv DEF MonitorInit
<1>2. NoPass \in PassRecord /\ Fine(NoPass)
  <2>1. 0 \in 0 .. MaxToken
    BY BoundAssumption
  <2>2. NoPass \in PassRecord
    BY <2>1 DEF NoPass, PassRecord, Stages
  <2>3. QED
    BY <2>2 DEF NoPass, Fine, Behind
<1>3. pass = [m \in Monitor |-> NoPass]
  BY DEF MonitorInit
<1>4. Passes
  BY <1>2, <1>3 DEF Passes
<1>5. Snapshots
  BY DEF MonitorInit, Init, Snapshots, Behind
<1>6. EventsAreTrue
  BY <1>1 DEF IInv, EventsMatchOutcome, EventsAreTrue
<1>7. Calling
  BY MonitorAssumption DEF MonitorInit, Init, Calling
<1>8. QED
  BY <1>1, <1>4, <1>5, <1>6, <1>7 DEF MInv, IInv

\* Each step of the composition is one of calls and environment, or takes notes.
LEMMA PassAsks ==
  ASSUME MInv, NEW m \in Monitor,
         Visit(m) \/ Assign(m) \/ Delegate(m) \/ RollBack(m)
  PROVE  Asks(m) \/ UNCHANGED vars
<1>0. /\ TypeOK /\ Tokens /\ pass[m] \in PassRecord /\ Fine(pass[m])
      /\ updates \in 0 .. MaxUpdates
  BY DEF MInv, Core, Passes, TypeOK
<1> USE DEF Request, ClaimRequest, ReleaseRequest, ReclaimRequest, TouchRequest
<1>1. CASE Visit(m)
  <2>1. PICK t \in pass[m].todo :
          \/ Begin(m, [op |-> "reclaim", task |-> t]) /\ UNCHANGED updates
          \/ UNCHANGED vars
    BY <1>1 DEF Visit
  <2>2. [op |-> "reclaim", task |-> t] \in Request
    BY <1>0 DEF PassRecord
  <2>3. QED
    BY <1>0, <2>1, <2>2 DEF Asks
<1>2. CASE Assign(m)
  <2>1. PICK t \in pass[m].todo \cap Assignable(pass[m].list), w \in Worker :
          Begin(m, [op |-> "claim", task |-> t, worker |-> w,
                    expected |-> task[t].version])
    BY <1>2 DEF Assign
  <2>2. t \in Task /\ task[t].version \in Nat
    BY <1>0 DEF Assignable, TypeOK, TaskRecord
  <2>3. [op |-> "claim", task |-> t, worker |-> w, expected |-> task[t].version]
          \in Request
    BY <2>2
  <2>4. QED
    BY <1>0, <1>2, <2>1, <2>3 DEF Asks, Assign
<1>3. CASE Delegate(m) \/ RollBack(m)
  <2> DEFINE k == pass[m].won
  <2>1. k \in 1 .. issued /\ k \in Token
    BY <1>0, <1>3, BoundAssumption DEF Delegate, RollBack, At, Fine, TypeOK, Token
  <2>2. grant[k] \in Task
    BY <1>0, <2>1 DEF Tokens
  <2>3. /\ [op |-> "touch", task |-> grant[k]] \in Request
        /\ [op |-> "release", task |-> grant[k], token |-> k] \in Request
    BY <2>1, <2>2
  <2>4. QED
    BY <1>0, <1>3, <2>3 DEF Delegate, RollBack, Asks
<1>4. QED
  BY <1>1, <1>2, <1>3

LEMMA PassNotes ==
  ASSUME MInv, NEW m \in Monitor, Emit(m) \/ Save(m)
  PROVE  Notes
<1>0. TypeOK /\ pass[m] \in PassRecord /\ Fine(pass[m])
  BY DEF MInv, Core, Passes
<1>1. CASE Emit(m)
  <2>1. PICK t \in pass[m].todo :
          events' = [events EXCEPT ![t]["completed"] =
                       IF @ < EventCap THEN @ + 1 ELSE @]
    BY <1>1 DEF Emit
  <2>2. events' \in [Task -> [Terminal -> 0 .. EventCap]]
    BY <1>0, <2>1 DEF TypeOK, EventCap, PassRecord, Terminal
  <2>3. QED
    BY <1>0, <1>1, <2>2 DEF Emit, Notes, counts, TypeOK
<1>2. CASE Save(m)
  <2>1. \A t \in Task : pass[m].list[t] \in SeenTask
    BY <1>0, <1>2 DEF Save, At, Fine, Told
  <2>2. Saved(pass[m]) \in Snapshot
    BY <1>0, <2>1 DEF Saved, Flags, Snapshot, SeenTask, PassRecord
  <2>3. QED
    BY <1>0, <1>2, <2>2 DEF Save, Notes, counts, TypeOK
<1>3. QED
  BY <1>1, <1>2

LEMMA StepKinds ==
  MInv /\ [MonitorNext]_mvars =>
    \/ [Moves]_vars
    \/ /\ Notes
       /\ \/ UNCHANGED <<events, snapshot>>
          \/ \E m \in Monitor : Emit(m) \/ Save(m)
<1> DEFINE Noted == \/ UNCHANGED <<events, snapshot>>
                    \/ \E m \in Monitor : Emit(m) \/ Save(m)
<1> SUFFICES ASSUME MInv, [MonitorNext]_mvars PROVE [Moves]_vars \/ (Notes /\ Noted)
  OBVIOUS
<1>0. TypeOK
  BY DEF MInv, Core
<1>1. ASSUME NEW m \in Monitor, Pass(m) PROVE [Moves]_vars \/ (Notes /\ Noted)
  <2>1. Asks(m) \/ UNCHANGED vars \/ (Notes /\ Noted)
    BY <1>1, PassAsks, PassNotes DEF Pass, BeginPass, ListTask, EndReclaim, Dispatch,
                                     EndAssign
  <2>2. QED
    BY <2>1, MonitorAssumption DEF Moves
<1>2. ASSUME NEW m \in Monitor, CallStep(m) PROVE [Moves]_vars
  BY <1>2, MonitorAssumption DEF CallStep, Moves
<1>3. ASSUME NEW m \in Monitor, CrashPass(m) PROVE [Moves]_vars \/ (Notes /\ Noted)
  <2>1. CASE step[m] # "idle"
    BY <1>3, <2>1, MonitorAssumption DEF CrashPass, Moves, Environment
  <2>2. CASE step[m] = "idle"
    BY <1>0, <1>3, <2>2, BoundAssumption DEF CrashPass, Notes, TypeOK, files
  <2>3. QED
    BY <2>1, <2>2
<1>4. ASSUME NEW p \in Actor \ Monitor, Call(p) \/ Step(p) \/ Crash(p)
      PROVE  [Moves]_vars
  BY <1>0, <1>4, CallBegins DEF Moves, Environment
<1>5. ASSUME NEW t \in Task, Lapse(t) \/ RecoverLock(t) PROVE [Moves]_vars
  BY <1>5 DEF Moves, Environment
<1>6. ASSUME UNCHANGED mvars PROVE [Moves]_vars
  BY <1>6 DEF mvars
<1>7. QED
  BY <1>1, <1>2, <1>3, <1>4, <1>5, <1>6 DEF MonitorNext
LEMMA CoreHolds == MInv /\ [MonitorNext]_mvars => Core' /\ Lasts
<1> SUFFICES ASSUME MInv, [MonitorNext]_mvars PROVE Core' /\ Lasts
  OBVIOUS
<1>0. Core /\ TypeOK /\ issued \in Nat
  BY BoundAssumption DEF MInv, Core, TypeOK
<1>1. CASE [Moves]_vars
  <2>1. Core'
    BY <1>0, <1>1, CoreStep
  <2>2. issued' \in Nat /\ issued <= issued'
    <3>1. CASE issued' = issued
      BY <1>0, <3>1
    <3>2. ASSUME NEW p \in Actor, WriteTask(p) PROVE issued' \in Nat /\ issued <= issued'
      BY <1>0, <3>2, WriteBooks, BoundAssumption
    <3>3. QED
      BY <1>0, <1>1, <3>1, <3>2, OtherSteps DEF AppendEvent, Lapse
  <2>3. QED
    BY <1>0, <1>1, <2>1, <2>2, Lasting DEF Lasts
<1>2. CASE Notes
  <2>1. TypeOK'
    BY <1>0, <1>2 DEF Notes, TypeOK, local, history
  <2>2. ASSUME NEW p \in Actor PROVE CallInv(p)'
    <3>1. CallInv(p)
      BY <1>0 DEF Core
    <3>2. UNCHANGED <<task, lock, lapsed, step, req, view>>
      BY <1>2 DEF Notes, local
    <3>3. QED
      BY <3>1, <3>2 DEF CallInv, Cleared, Ready, Claimable, Expired, ReclaimAllowed
  <2>3. Tokens'
    BY <1>0, <1>2 DEF Core, Notes, Tokens, history
  <2>4. QED
    BY <1>0, <1>2, <2>1, <2>2, <2>3 DEF Core, Lasts, Notes
<1>3. QED
  BY <1>1, <1>2, StepKinds

-----------------------------------------------------------------------------
\* What was rightly told or saved stays right, since an end is an end.
LEMMA BehindLasts ==
  ASSUME Lasts, NEW s, Behind(s)
  PROVE  Behind(s)'
BY DEF Lasts, Behind

LEMMA ToldLasts ==
  ASSUME Lasts, NEW t \in Task, NEW v, Told(t, v)
  PROVE  Told(t, v)'
BY DEF Lasts, Told

LEMMA FineLasts ==
  ASSUME Lasts, NEW q, Fine(q)
  PROVE  Fine(q)'
<1>1. Behind(q.prev)'
  BY BehindLasts DEF Fine
<1>2. \A t \in Task : Told(t, q.list[t]) => Told(t, q.list[t])'
  BY ToldLasts
<1>3. q.won \in 1 .. issued => (q.won \in 1 .. issued)'
  BY DEF Lasts
<1>4. QED
  BY <1>1, <1>2, <1>3 DEF Fine

\* The snapshot is written from one that was read, or from a listing.
LEMMA SnapshotsStep ==
  ASSUME MInv, [MonitorNext]_mvars, Lasts
  PROVE  Snapshots'
<1>0. TypeOK /\ Snapshots
  BY DEF MInv, Core
<1>1. Behind(snapshot)' \/ snapshot' # snapshot
  <2>1. PICK s : s = snapshot
    OBVIOUS
  <2>2. Behind(s)'
    BY <1>0, <2>1, BehindLasts DEF Snapshots
  <2>3. QED
    BY <2>1, <2>2 DEF Behind
<1>2. ASSUME NEW p \in Actor, MarkWrite(p) PROVE Behind(snapshot)'
  <2>1. PICK b : b = base[p]
    OBVIOUS
  <2>2. Behind(b)'
    BY <1>0, <2>1, BehindLasts DEF Snapshots
  <2>3. CASE b = None
    <3>1. \A t \in Task : snapshot'.known[t] = None
      BY <1>2, <2>1, <2>3 DEF MarkWrite
    <3>2. None \notin Terminal
      BY AbsentAssumption DEF Terminal, TaskStatus
    <3>3. QED
      BY <3>1, <3>2 DEF Behind
  <2>4. CASE b # None
    <3>1. b \in Snapshot
      BY <1>0, <2>1, <2>4 DEF TypeOK
    <3>2. snapshot' = [b EXCEPT !.flagged = @ \cup {req[p].task}]
      BY <1>2, <2>1, <2>4 DEF MarkWrite
    <3>3. snapshot'.known = b.known
      BY <3>1, <3>2 DEF Snapshot
    <3>4. QED
      BY <2>2, <2>4, <3>3 DEF Behind
  <2>5. QED
    BY <2>3, <2>4
<1>3. ASSUME NEW m \in Monitor, Save(m) PROVE Behind(snapshot)'
  <2>1. PICK q : q = pass[m]
    OBVIOUS
  <2>2. \A t \in Task : Told(t, q.list[t])'
    BY <1>3, <2>1, FineLasts DEF MInv, Passes, Fine, Save, At
  <2>3. snapshot' = Saved(q)
    BY <1>3, <2>1 DEF Save
  <2>4. \A t \in Task : snapshot'.known[t] = q.list[t].status
    BY <2>3 DEF Saved
  <2>5. QED
    BY <2>2, <2>4 DEF Behind, Told
<1>4. CASE [Moves]_vars
  <2>1. snapshot' = snapshot \/ \E p \in Actor : MarkWrite(p)
    BY <1>4 DEF Moves, Environment, Lapse, RecoverLock, Crash, Asks, Begin, Step, Acquire,
                TimeOut, Check, WriteTask, AppendEvent, Unlock, MarkRead, files, vars
  <2>2. ASSUME NEW p \in Actor PROVE base'[p] \in {base[p], None, snapshot}
    <3>1. CASE base' = base
      BY <3>1
    <3>2. ASSUME NEW r \in Actor, Return(r) PROVE base'[p] \in {base[p], None, snapshot}
      BY <1>0, <3>2 DEF Return, TypeOK
    <3>3. ASSUME NEW r \in Actor, MarkRead(r) PROVE base'[p] \in {base[p], None, snapshot}
      BY <1>0, <3>3 DEF MarkRead, TypeOK
    <3>4. ASSUME NEW r \in Actor, Crash(r) \/ Asks(r) \/ Step(r), ~MarkRead(r)
          PROVE  base' = base \/ Return(r)
      BY <3>4 DEF Crash, Asks, Begin, Step, Acquire, TimeOut, Check, WriteTask, AppendEvent,
                  Unlock, MarkWrite
    <3>5. ASSUME NEW t \in Task, Lapse(t) \/ RecoverLock(t) PROVE base' = base
      BY <3>5 DEF Lapse, RecoverLock, local
    <3>6. QED
      BY <1>4, <3>1, <3>2, <3>3, <3>4, <3>5 DEF Moves, Environment, vars
  <2>3. ASSUME NEW p \in Actor PROVE Behind(base[p])'
    <3>1. PICK b : b = base'[p]
      OBVIOUS
    <3>2. Behind(b)
      BY <1>0, <2>2, <3>1 DEF Snapshots, Behind
    <3>3. Behind(b)'
      BY <3>2, BehindLasts
    <3>4. QED
      BY <3>1, <3>3 DEF Behind
  <2>4. QED
    BY <1>1, <1>2, <2>1, <2>3 DEF Snapshots
<1>5. CASE Notes
  <2>1. ASSUME NEW p \in Actor PROVE Behind(base[p])'
    <3>1. PICK b : b = base[p]
      OBVIOUS
    <3>2. Behind(b)'
      BY <1>0, <3>1, BehindLasts DEF Snapshots
    <3>3. QED
      BY <1>5, <3>1, <3>2 DEF Behind, Notes, local
  <2>2. QED
    BY <1>1, <1>3, <1>4, <2>1, StepKinds DEF Snapshots, Emit
<1>6. QED
  BY <1>4, <1>5, StepKinds
\* An event names the end that its task has: of one that the call has just given
\* it, or that a pass has listed.
LEMMA EventsStep ==
  ASSUME MInv, [MonitorNext]_mvars, Lasts
  PROVE  EventsAreTrue'
<1>0. Core /\ TypeOK /\ Passes /\ EventsAreTrue
  BY DEF MInv, Core
<1>1. ASSUME events' = events PROVE EventsAreTrue'
  BY <1>0, <1>1 DEF EventsAreTrue, Lasts
<1>2. ASSUME NEW p \in Actor, AppendEvent(p) PROVE EventsAreTrue'
  <2> DEFINE r == req[p]
  <2>1. r.task \in Task /\ r.to \in Terminal /\ task[r.task].status = r.to
    BY <1>0, <1>2, RequestFields DEF Core, CallInv, AppendEvent
  <2>2. \A t \in Task, e \in Terminal :
          events'[t][e] = events[t][e] \/ (t = r.task /\ e = r.to)
    BY <1>0, <1>2, <2>1 DEF AppendEvent, TypeOK
  <2>3. task' = task
    BY <1>2 DEF AppendEvent
  <2>4. QED
    BY <1>0, <2>1, <2>2, <2>3 DEF EventsAreTrue
<1>3. ASSUME NEW m \in Monitor, Emit(m) PROVE EventsAreTrue'
  <2>1. PICK t \in pass[m].todo :
          /\ Derived(pass[m], t)
          /\ events' = [events EXCEPT ![t]["completed"] =
                          IF @ < EventCap THEN @ + 1 ELSE @]
    BY <1>3 DEF Emit
  <2>2. t \in Task /\ Told(t, pass[m].list[t])
    BY <1>0, <1>3, <2>1 DEF Passes, PassRecord, Fine, Emit, At
  <2>3. task[t].status = "completed"
    BY <2>1, <2>2 DEF Derived, Told, Terminal
  <2>4. \A u \in Task, e \in Terminal :
          events'[u][e] = events[u][e] \/ (u = t /\ e = "completed")
    BY <1>0, <2>1, <2>2 DEF TypeOK, Terminal
  <2>5. task' = task
    BY <1>3 DEF Emit
  <2>6. QED
    BY <1>0, <2>3, <2>4, <2>5 DEF EventsAreTrue
<1>4. CASE [Moves]_vars
  <2>1. events' = events \/ \E p \in Actor : AppendEvent(p)
    BY <1>4 DEF Moves, Environment, Lapse, RecoverLock, Crash, Asks, Begin, Step, Acquire,
                TimeOut, Check, WriteTask, Unlock, MarkRead, MarkWrite, files, vars
  <2>2. QED
    BY <1>1, <1>2, <2>1
<1>5. QED
  BY <1>1, <1>3, <1>4, StepKinds DEF Save

-----------------------------------------------------------------------------
\* A pass moves its variables on to others that are as true.
LEMMA PassesKept ==
  ASSUME Passes, Lasts, NEW m \in Monitor, NEW x \in PassRecord, Fine(x)',
         pass' = [pass EXCEPT ![m] = x]
  PROVE  Passes'
<1>1. pass' \in [Monitor -> PassRecord]
  BY DEF Passes
<1>2. ASSUME NEW n \in Monitor PROVE Fine(pass[n])'
  <2>1. PICK y : y = pass'[n]
    OBVIOUS
  <2>2. Fine(y)'
    <3>1. CASE n = m
      BY <2>1, <3>1 DEF Passes
    <3>2. CASE n # m
      <4>1. y = pass[n] /\ Fine(y)
        BY <2>1, <3>2 DEF Passes
      <4>2. QED
        BY <4>1, FineLasts
    <3>3. QED
      BY <3>1, <3>2
  <2>3. QED
    BY <2>1, <2>2 DEF Fine, Behind, Told
<1>3. QED
  BY <1>1, <1>2 DEF Passes

LEMMA PassesSame ==
  ASSUME Passes, Lasts, pass' = pass
  PROVE  Passes'
<1>1. ASSUME NEW n \in Monitor PROVE Fine(pass[n])'
  <2>1. PICK y : y = pass[n]
    OBVIOUS
  <2>2. Fine(y)'
    BY <2>1, FineLasts DEF Passes
  <2>3. QED
    BY <2>1, <2>2 DEF Fine, Behind, Told
<1>2. QED
  BY <1>1 DEF Passes

LEMMA NoPassFine == NoPass \in PassRecord /\ Fine(NoPass)'
  BY BoundAssumption DEF NoPass, PassRecord, Stages, Fine, Behind

LEMMA ListStep ==
  ASSUME MInv, Lasts, NEW m \in Monitor, ListTask(m)
  PROVE  Passes'
<1>0. TypeOK /\ Passes
  BY DEF MInv, Core
<1>1. PICK q \in PassRecord : q = pass[m]
  BY <1>0 DEF Passes
<1>2. Fine(q) /\ q.at \in Listing
  BY <1>0, <1>1 DEF Passes, ListTask, At
<1>3. PICK t \in q.todo :
        LET ts == [q.list EXCEPT ![t] = Seen(task[t])]
            rest == q.todo \ {t}
            y == [q EXCEPT !.list = ts, !.todo = rest]
        IN pass' = [pass EXCEPT ![m] =
             CASE rest # {}                  -> y
               [] rest = {} /\ y.at = "list" ->
                    [y EXCEPT !.at = "reclaim", !.todo = Claimed(ts)]
               [] rest = {} /\ y.at = "relist" ->
                    [y EXCEPT !.at = "assign", !.todo = Task]
               [] rest = {} /\ y.at = "listAgain" ->
                    [y EXCEPT !.at = "events", !.todo = Task]]
  BY <1>1 DEF ListTask
<1>4. t \in Task /\ Seen(task[t]) \in SeenTask /\ Seen(task[t]).status = task[t].status
  BY <1>0 DEF PassRecord, TypeOK, TaskRecord, Seen, SeenTask
<1>5. PICK v : v = Seen(task[t])
  OBVIOUS
<1>6. v \in SeenTask /\ Told(t, v) /\ Told(t, v)'
  <2>1. v \in SeenTask /\ Told(t, v)
    BY <1>4, <1>5 DEF Told
  <2>2. QED
    BY <1>4, <2>1, ToldLasts
<1> DEFINE ts == [q.list EXCEPT ![t] = v]
           rest == q.todo \ {t}
<1>7. /\ ts \in [Task -> SeenTask \cup {None}] /\ rest \in SUBSET Task
      /\ Claimed(ts) \in SUBSET Task
  BY <1>4, <1>6 DEF PassRecord, Claimed
<1>8. Fine(q)'
  BY <1>2, FineLasts
<1>9. /\ Behind(q.prev)'
      /\ q.at = "list" => \A u \in Task \ rest : Told(u, ts[u])'
      /\ q.at # "list" => \A u \in Task : Told(u, ts[u])'
  BY <1>2, <1>4, <1>6, <1>8 DEF Fine, PassRecord, Listing
<1>10. PICK x : x = CASE rest # {} -> [q EXCEPT !.list = ts, !.todo = rest]
                   [] rest = {} /\ q.at = "list" ->
                        [q EXCEPT !.list = ts, !.at = "reclaim", !.todo = Claimed(ts)]
                   [] rest = {} /\ q.at = "relist" ->
                        [q EXCEPT !.list = ts, !.at = "assign", !.todo = Task]
                   [] rest = {} /\ q.at = "listAgain" ->
                        [q EXCEPT !.list = ts, !.at = "events", !.todo = Task]
  OBVIOUS
<1> HIDE DEF ts, rest
<1>11. /\ x \in PassRecord /\ x.list = ts /\ x.prev = q.prev
       /\ \/ rest # {} /\ x.at = q.at /\ x.todo = rest
          \/ rest = {} /\ x.at \in {"reclaim", "assign", "events"}
  BY <1>2, <1>7, <1>10 DEF PassRecord, Stages, Listing
<1>12. Fine(x)'
  <2>1. x.at = "list" => \A u \in Task \ x.todo : Told(u, x.list[u])'
    BY <1>9, <1>11
  <2>2. x.at \notin {"off", "list"} => \A u \in Task : Told(u, x.list[u])'
    BY <1>9, <1>11
  <2>3. x.at \notin {"won", "dispatch"}
    BY <1>2, <1>11 DEF Listing
  <2>4. QED
    BY <1>9, <1>11, <2>1, <2>2, <2>3 DEF Fine
<1>13. pass' = [pass EXCEPT ![m] = x]
  BY <1>2, <1>3, <1>5, <1>10 DEF PassRecord, Listing, ts, rest
<1>14. QED
  BY <1>0, <1>11, <1>12, <1>13, PassesKept
\* A pass that has listed the tasks keeps its list while it goes on.
LEMMA GoesOn ==
  ASSUME Passes, Lasts, NEW m \in Monitor, NEW x \in PassRecord,
         pass[m].at \notin {"off", "list"}, x.at \notin {"off", "list"},
         x.list = pass[m].list, x.prev = pass[m].prev,
         x.at \in {"won", "dispatch"} => x.won \in 1 .. issued',
         pass' = [pass EXCEPT ![m] = x]
  PROVE  Passes'
<1>1. PICK q \in PassRecord : q = pass[m]
  BY DEF Passes
<1>2. Fine(q)'
  BY <1>1, FineLasts DEF Passes
<1>3. Fine(x)'
  BY <1>1, <1>2 DEF Fine
<1>4. QED
  BY <1>3, PassesKept

LEMMA TurnStep ==
  ASSUME MInv, Lasts, NEW m \in Monitor,
         \/ Visit(m) \/ EndReclaim(m) \/ Assign(m) \/ Delegate(m) \/ Dispatch(m)
         \/ RollBack(m) \/ EndAssign(m) \/ Emit(m)
  PROVE  Passes'
<1>0. Passes /\ pass[m] \in PassRecord /\ Fine(pass[m]) /\ 0 \in 0 .. MaxToken
  BY BoundAssumption DEF MInv, Passes
<1>1. ASSUME NEW x \in PassRecord, pass[m].at \notin {"off", "list"},
             x.at \notin {"off", "list"}, x.list = pass[m].list, x.prev = pass[m].prev,
             x.at \in {"won", "dispatch"} => pass[m].at = "won" /\ x.won = pass[m].won,
             pass' = [pass EXCEPT ![m] = x]
      PROVE  Passes'
  <2>1. x.at \in {"won", "dispatch"} => x.won \in 1 .. issued'
    BY <1>0, <1>1 DEF Fine, Lasts
  <2>2. QED
    BY <1>0, <1>1, <2>1, GoesOn
<1>2. CASE \E t \in pass[m].todo :
             pass' = [pass EXCEPT ![m] = [pass[m] EXCEPT !.todo = @ \ {t}]]
           /\ pass[m].at \in {"reclaim", "assign", "events"}
  <2>1. PICK t \in pass[m].todo :
             pass' = [pass EXCEPT ![m] = [pass[m] EXCEPT !.todo = @ \ {t}]]
    BY <1>2
  <2>2. PICK x : x = [pass[m] EXCEPT !.todo = @ \ {t}]
    OBVIOUS
  <2>3. /\ x \in PassRecord /\ x.at = pass[m].at /\ x.list = pass[m].list
        /\ x.prev = pass[m].prev
    BY <1>0, <2>2 DEF PassRecord
  <2>4. QED
    BY <1>1, <1>2, <2>1, <2>2, <2>3
<1>3. CASE EndReclaim(m) \/ EndAssign(m)
  <2>1. PICK s \in {"relist", "assign", "listAgain", "events"} :
          pass' = [pass EXCEPT ![m].at = s, ![m].todo = Task, ![m].changed = FALSE]
    BY <1>3 DEF EndReclaim, EndAssign
  <2>2. PICK x : x = [pass[m] EXCEPT !.at = s, !.todo = Task, !.changed = FALSE]
    OBVIOUS
  <2>3. /\ x \in PassRecord /\ x.at = s /\ x.list = pass[m].list
        /\ x.prev = pass[m].prev
    BY <1>0, <2>2 DEF PassRecord, Stages
  <2>4. pass' = [pass EXCEPT ![m] = x]
    BY <1>0, <2>1, <2>2 DEF Passes
  <2>5. QED
    BY <1>1, <1>3, <2>3, <2>4 DEF EndReclaim, EndAssign, At
<1>4. CASE Delegate(m)
  <2>1. PICK x : x = [pass[m] EXCEPT !.at = "dispatch"]
    OBVIOUS
  <2>2. /\ x \in PassRecord /\ x.at = "dispatch" /\ x.list = pass[m].list
        /\ x.prev = pass[m].prev /\ x.won = pass[m].won
    BY <1>0, <2>1 DEF PassRecord, Stages
  <2>3. QED
    BY <1>1, <1>4, <2>1, <2>2 DEF Delegate, At
<1>5. CASE Dispatch(m) \/ RollBack(m)
  <2>1. PICK b \in BOOLEAN :
          pass' = [pass EXCEPT ![m] =
                     [pass[m] EXCEPT !.at = "assign", !.won = 0, !.changed = b]]
    <3>1. CASE Dispatch(m)
      BY <1>0, <3>1 DEF Dispatch, Passes
    <3>2. CASE RollBack(m)
      <4>1. pass' = [pass EXCEPT ![m] = [pass[m] EXCEPT !.at = "assign", !.won = 0]]
        BY <1>0, <3>2 DEF RollBack, Passes
      <4>2. [pass[m] EXCEPT !.at = "assign", !.won = 0]
              = [pass[m] EXCEPT !.at = "assign", !.won = 0, !.changed = pass[m].changed]
        BY <1>0 DEF PassRecord
      <4>3. QED
        BY <1>0, <4>1, <4>2 DEF PassRecord
    <3>3. QED
      BY <1>5, <3>1, <3>2
  <2>2. PICK x : x = [pass[m] EXCEPT !.at = "assign", !.won = 0, !.changed = b]
    OBVIOUS
  <2>3. /\ x \in PassRecord /\ x.at = "assign" /\ x.list = pass[m].list
        /\ x.prev = pass[m].prev
    BY <1>0, <2>2 DEF PassRecord, Stages
  <2>4. QED
    BY <1>1, <1>5, <2>1, <2>2, <2>3 DEF Dispatch, RollBack, At
<1>6. CASE Visit(m) \/ Assign(m) \/ Emit(m)
  <2>1. pass[m].at \in {"reclaim", "assign", "events"}
    BY <1>6 DEF Visit, Assign, Emit, At
  <2>2. \E t \in pass[m].todo : pass' = [pass EXCEPT ![m].todo = @ \ {t}]
    BY <1>6 DEF Visit, Assign, Emit
  <2>3. QED
    BY <1>0, <1>2, <2>1, <2>2 DEF Passes
<1>7. QED
  BY <1>3, <1>4, <1>5, <1>6

LEMMA CallPassStep ==
  ASSUME MInv, Lasts, NEW m \in Monitor, CallStep(m)
  PROVE  Passes'
<1>0. /\ Core /\ TypeOK /\ Passes /\ pass[m] \in PassRecord /\ m \in Actor
      /\ Fine(pass[m]) /\ Fine(pass[m]) /\ issued \in Nat /\ MaxToken \in Nat
  BY MonitorAssumption, BoundAssumption DEF MInv, Core, Passes, TypeOK
<1>1. CASE pass' = pass
  BY <1>0, <1>1, PassesSame
<1>2. CASE pass' # pass
  <2>1. WriteTask(m) /\ req[m].op \in {"reclaim", "claim"}
    BY <1>2 DEF CallStep, Step, Acquire, TimeOut, Check, AppendEvent, Unlock, MarkRead,
                MarkWrite
  <2>2. step[m] = "write" /\ pass[m].at \notin {"off", "list"}
    BY <2>1 DEF WriteTask, MInv, Calling
  <2>3. CASE req[m].op = "reclaim"
    <3>1. pass' = [pass EXCEPT ![m] = [pass[m] EXCEPT !.changed = TRUE]]
      BY <1>0, <2>2, <2>3 DEF CallStep, Passes
    <3>2. PICK x : x = [pass[m] EXCEPT !.changed = TRUE]
      OBVIOUS
    <3>3. /\ x \in PassRecord /\ x.at = pass[m].at /\ x.list = pass[m].list
          /\ x.prev = pass[m].prev /\ x.won = pass[m].won
      BY <1>0, <3>2 DEF PassRecord
    <3>4. x.at \in {"won", "dispatch"} => x.won \in 1 .. issued'
      BY <1>0, <3>3 DEF Fine, Lasts
    <3>5. QED
      BY <1>0, <2>2, <3>1, <3>2, <3>3, <3>4, GoesOn
  <2>4. CASE req[m].op = "claim"
    <3>1. pass' = [pass EXCEPT ![m] = [pass[m] EXCEPT !.at = "won", !.won = issued + 1]]
      BY <1>0, <2>2, <2>4 DEF CallStep, Passes
    <3>2. issued < MaxToken /\ issued' = issued + 1
      BY <2>1, <2>4 DEF WriteTask
    <3>3. PICK x : x = [pass[m] EXCEPT !.at = "won", !.won = issued + 1]
      OBVIOUS
    <3>4. issued + 1 \in 0 .. MaxToken
      BY <1>0, <3>2
    <3>5. /\ x \in PassRecord /\ x.at = "won" /\ x.list = pass[m].list
          /\ x.prev = pass[m].prev /\ x.won = issued + 1
      BY <1>0, <3>3, <3>4 DEF PassRecord, Stages
    <3>6. x.won \in 1 .. issued'
      BY <1>0, <3>2, <3>5
    <3>7. QED
      BY <1>0, <2>2, <3>1, <3>3, <3>5, <3>6, GoesOn
  <2>5. QED
    BY <2>1, <2>3, <2>4
<1>3. QED
  BY <1>1, <1>2

LEMMA PassesStep ==
  ASSUME MInv, [MonitorNext]_mvars, Lasts
  PROVE  Passes'
<1>0. Passes /\ \A m \in Monitor : pass[m] \in PassRecord /\ Fine(pass[m])
  BY DEF MInv, Passes
<1>1. ASSUME NEW m \in Monitor, BeginPass(m) PROVE Passes'
  <2>1. PICK x : x = [pass[m] EXCEPT !.at = "list", !.prev = snapshot, !.todo = Task]
    OBVIOUS
  <2>2. snapshot \in Snapshot \cup {None} /\ Behind(snapshot)
    BY DEF MInv, Core, TypeOK, Snapshots
  <2>3. x \in PassRecord /\ x.at = "list" /\ x.todo = Task /\ x.prev = snapshot
    BY <1>0, <2>1, <2>2 DEF PassRecord, Stages
  <2>4. Fine(x)
    BY <2>2, <2>3 DEF Fine
  <2>5. pass' = [pass EXCEPT ![m] = x]
    BY <1>0, <1>1, <2>1 DEF BeginPass, Passes
  <2>6. QED
    BY <1>0, <2>3, <2>4, <2>5, FineLasts, PassesKept
<1>2. ASSUME NEW m \in Monitor, Save(m) \/ CrashPass(m) PROVE Passes'
  BY <1>0, <1>2, NoPassFine, PassesKept DEF Save, CrashPass
<1>3. ASSUME NEW m \in Monitor, Pass(m) PROVE Passes'
  BY <1>1, <1>2, <1>3, ListStep, TurnStep DEF Pass
<1>4. ASSUME pass' = pass PROVE Passes'
  BY <1>0, <1>4, PassesSame
<1>5. QED
  BY <1>2, <1>3, <1>4, CallPassStep DEF MonitorNext, mvars

LEMMA CallingStep ==
  ASSUME MInv, [MonitorNext]_mvars
  PROVE  Calling'
<1>0. /\ Calling /\ step \in [Actor -> Steps] /\ pass \in [Monitor -> PassRecord]
      /\ Monitor \subseteq Actor
  BY MonitorAssumption DEF MInv, Core, TypeOK, Passes
<1>1. ASSUME NEW m \in Monitor,
             \/ step'[m] = "idle"
             \/ pass'[m].at \notin {"off", "list"},
             \A n \in Monitor \ {m} : step'[n] = step[n] /\ pass'[n] = pass[n]
      PROVE  Calling'
  BY <1>0, <1>1 DEF Calling
<1>2. ASSUME NEW m \in Monitor, Pass(m) PROVE Calling'
  <2>1. step[m] = "idle"
    BY <1>2 DEF Pass, BeginPass, ListTask, Visit, EndReclaim, Assign, Delegate, Dispatch,
                RollBack, EndAssign, Emit, Save, At
  <2>2. \A n \in Monitor \ {m} : pass'[n] = pass[n]
    BY <1>0, <1>2 DEF Pass, BeginPass, ListTask, Visit, EndReclaim, Assign, Delegate,
                      Dispatch, RollBack, EndAssign, Emit, Save
  <2>3. CASE step' = step
    BY <1>0, <1>1, <2>1, <2>2, <2>3
  <2>4. CASE step' # step
    <3>1. Visit(m) \/ Assign(m) \/ Delegate(m) \/ RollBack(m)
      BY <1>2, <2>4 DEF Pass, BeginPass, ListTask, EndReclaim, Dispatch, EndAssign, Emit,
                        Save, vars, local
    <3>2. \A n \in Monitor \ {m} : step'[n] = step[n]
      BY <1>0, <2>4, <3>1 DEF Visit, Assign, Delegate, RollBack, Begin, Goto, vars
    <3>3. pass'[m].at \notin {"off", "list"}
      <4>1. pass[m] \in PassRecord
        BY <1>0
      <4>2. CASE Visit(m)
        BY <1>0, <4>1, <4>2 DEF Visit, At, PassRecord
      <4>3. CASE Assign(m)
        BY <1>0, <4>1, <4>3 DEF Assign, At, PassRecord
      <4>4. CASE Delegate(m)
        BY <1>0, <4>1, <4>4 DEF Delegate, PassRecord
      <4>5. CASE RollBack(m)
        BY <1>0, <4>1, <4>5 DEF RollBack, PassRecord
      <4>6. QED
        BY <3>1, <4>2, <4>3, <4>4, <4>5
    <3>4. QED
      BY <1>1, <2>2, <3>2, <3>3
  <2>5. QED
    BY <2>3, <2>4
<1>3. ASSUME NEW m \in Monitor, CallStep(m) PROVE Calling'
  <2>1. step[m] # "idle" /\ \A n \in Actor \ {m} : step'[n] = step[n]
    BY <1>0, <1>3 DEF CallStep, Step, Acquire, TimeOut, Check, WriteTask, AppendEvent,
                      Unlock, MarkRead, MarkWrite, Return, Goto
  <2>2. pass[m].at \notin {"off", "list"}
    BY <1>0, <2>1 DEF Calling
  <2>3. pass'[m].at \in {pass[m].at, "won"} /\ \A n \in Monitor \ {m} : pass'[n] = pass[n]
    BY <1>0, <1>3 DEF CallStep, PassRecord
  <2>4. QED
    BY <1>0, <1>1, <2>1, <2>2, <2>3
<1>4. ASSUME NEW m \in Monitor, CrashPass(m) PROVE Calling'
  <2>1. step'[m] = "idle" /\ \A n \in Actor \ {m} : step'[n] = step[n]
    BY <1>0, <1>4 DEF CrashPass, Crash, Return, Goto, local
  <2>2. \A n \in Monitor \ {m} : pass'[n] = pass[n]
    BY <1>0, <1>4 DEF CrashPass
  <2>3. QED
    BY <1>0, <1>1, <2>1, <2>2
<1>5. ASSUME NEW p \in Actor \ Monitor, Call(p) \/ Step(p) \/ Crash(p), pass' = pass
      PROVE  Calling'
  <2>1. TypeOK
    BY DEF MInv, Core
  <2>2. \A n \in Actor \ {p} : step'[n] = step[n]
    <3>1. CASE Call(p)
      BY <1>0, <2>1, <3>1, CallBegins DEF Asks, Begin, Goto
    <3>2. CASE Step(p) \/ Crash(p)
      BY <1>0, <3>2 DEF Step, Acquire, TimeOut, Check, WriteTask, AppendEvent,
                        Unlock, MarkRead, MarkWrite, Crash, Return, Goto
    <3>3. QED
      BY <1>5, <3>1, <3>2
  <2>3. QED
    BY <1>0, <1>5, <2>2 DEF Calling
<1>6. ASSUME NEW t \in Task, Lapse(t) \/ RecoverLock(t) PROVE step' = step
  BY <1>6 DEF Lapse, RecoverLock, local
<1>7. ASSUME step' = step, pass' = pass PROVE Calling'
  BY <1>0, <1>7 DEF Calling
<1>8. QED
  BY <1>2, <1>3, <1>4, <1>5, <1>6, <1>7 DEF MonitorNext, mvars, vars

-----------------------------------------------------------------------------
LEMMA MonitorInvariance == MonitorSpec => []MInv
<1>1. MInv /\ [MonitorNext]_mvars => MInv'
  BY CoreHolds, PassesStep, CallingStep, SnapshotsStep, EventsStep DEF MInv
<1>2. QED
  BY InitMInv, <1>1, PTL DEF MonitorSpec

\* The files, the calls and the passes keep their types, whoever overlaps.
THEOREM MonitorTypeCorrect == MonitorSpec => []MonitorTypeOK
<1>1. MInv => MonitorTypeOK
  BY DEF MInv, Core, Passes, PassRecord, MonitorTypeOK
<1>2. QED
  BY MonitorInvariance, <1>1, PTL

\* For any number of leaders and workers, an event in the log is true of its task.
THEOREM EventsTrue == MonitorSpec => []EventsAreTrue
<1>1. MInv => EventsAreTrue
  BY DEF MInv
<1>2. QED
  BY MonitorInvariance, <1>1, PTL

\* However passes and markings overwrite one another's snapshots, none ever holds
\* a task for finished that is not finished so.
THEOREM SnapshotBehind == MonitorSpec => []SnapshotIsNotAhead
<1>1. MInv => SnapshotIsNotAhead
  BY DEF MInv, Snapshots, Behind, SnapshotIsNotAhead
<1>2. QED
  BY MonitorInvariance, <1>1, PTL

\* Passes of any number of leaders beside the workers only read the tasks and call
\* the same operations on them: all that they write beside these does not show on
\* the board.
THEOREM MonitorRefinement == MonitorSpec => ImplementsBoard
<1>1. MonitorInit => Board!Init
  BY InitOnBoard DEF MonitorInit
<1>2. ASSUME MInv, [MonitorNext]_mvars PROVE [Board!Next]_(Board!bvars)
  <2>1. CASE [Moves]_vars
    BY <1>2, <2>1, StepRefines DEF MInv
  <2>2. CASE Notes
    <3>1. UNCHANGED <<task, issued, lapsed, spent>>
      BY <2>2 DEF Notes, history
    <3>2. QED
      BY <3>1 DEF Board!bvars
  <2>3. QED
    BY <1>2, <2>1, <2>2, StepKinds
<1>3. QED
  BY <1>1, <1>2, MonitorInvariance, PTL DEF MonitorSpec, ImplementsBoard, Board!Spec

-----------------------------------------------------------------------------
(* What passes let go of.                                                  *)

\* A pass that derives events has logged each that it has done with.
Announced ==
  \A m \in Monitor :
    pass[m].at = "events" =>
      \A t \in Task \ pass[m].todo : events[t]["completed"] > 0

\* How a step moves a pass: it goes on with the reading it has, or has begun with the
\* snapshot; and it is done with a task only when it has logged it.
LEMMA PassMoves ==
  ASSUME MInv, [MonitorNext]_mvars, NEW m \in Monitor, pass'[m].at # "off"
  PROVE  /\ \/ pass[m].at # "off" /\ pass'[m].prev = pass[m].prev
            \/ pass'[m].prev = snapshot
         /\ pass'[m].at = "events" =>
              \/ pass'[m].todo = Task
              \/ pass[m].at = "events" /\ pass'[m].todo = pass[m].todo
              \/ /\ pass[m].at = "events"
                 /\ \E t \in Task : /\ pass'[m].todo = pass[m].todo \ {t}
                                    /\ events'[t]["completed"] > 0
<1> DEFINE Goal ==
      /\ \/ pass[m].at # "off" /\ pass'[m].prev = pass[m].prev
         \/ pass'[m].prev = snapshot
      /\ pass'[m].at = "events" =>
           \/ pass'[m].todo = Task
           \/ pass[m].at = "events" /\ pass'[m].todo = pass[m].todo
           \/ /\ pass[m].at = "events"
              /\ \E t \in Task : /\ pass'[m].todo = pass[m].todo \ {t}
                                 /\ events'[t]["completed"] > 0
<1>0. /\ TypeOK /\ pass \in [Monitor -> PassRecord] /\ pass[m] \in PassRecord
      /\ step[m] # "idle" => pass[m].at # "off"
  BY DEF MInv, Core, Passes, Calling
<1>1. CASE pass'[m] = pass[m]
  BY <1>1
<1>2. CASE BeginPass(m)
  BY <1>0, <1>2 DEF BeginPass, PassRecord
<1>3. CASE ListTask(m)
  <2>1. PICK q \in PassRecord : q = pass[m]
    BY <1>0
  <2>2. q.at \in Listing
    BY <1>3, <2>1 DEF ListTask, At
  <2>3. PICK t \in q.todo :
          LET ts == [q.list EXCEPT ![t] = Seen(task[t])]
              rest == q.todo \ {t}
              y == [q EXCEPT !.list = ts, !.todo = rest]
          IN pass' = [pass EXCEPT ![m] =
               CASE rest # {}                  -> y
                 [] rest = {} /\ y.at = "list" ->
                      [y EXCEPT !.at = "reclaim", !.todo = Claimed(ts)]
                 [] rest = {} /\ y.at = "relist" ->
                      [y EXCEPT !.at = "assign", !.todo = Task]
                 [] rest = {} /\ y.at = "listAgain" ->
                      [y EXCEPT !.at = "events", !.todo = Task]]
    BY <1>3, <2>1 DEF ListTask
  <2>4. /\ pass'[m].prev = q.prev
        /\ pass'[m].at = "events" => pass'[m].todo = Task
    BY <1>0, <2>2, <2>3 DEF PassRecord, Listing
  <2>5. QED
    BY <2>1, <2>2, <2>4 DEF Listing
<1>4. CASE Visit(m) \/ EndReclaim(m) \/ Assign(m) \/ EndAssign(m)
  <2>1. CASE Visit(m)
    BY <1>0, <2>1 DEF Visit, At, PassRecord
  <2>2. CASE EndReclaim(m)
    BY <1>0, <2>2 DEF EndReclaim, At, PassRecord
  <2>3. CASE Assign(m)
    BY <1>0, <2>3 DEF Assign, At, PassRecord
  <2>4. CASE EndAssign(m)
    BY <1>0, <2>4 DEF EndAssign, At, PassRecord
  <2>5. QED
    BY <1>4, <2>1, <2>2, <2>3, <2>4
<1>5. CASE Delegate(m) \/ Dispatch(m) \/ RollBack(m)
  BY <1>0, <1>5 DEF Delegate, Dispatch, RollBack, At, PassRecord
<1>6. CASE Emit(m)
  <2>1. PICK t \in pass[m].todo :
          /\ events' = [events EXCEPT ![t]["completed"] =
                          IF @ < EventCap THEN @ + 1 ELSE @]
          /\ pass' = [pass EXCEPT ![m].todo = @ \ {t}]
    BY <1>6 DEF Emit
  <2>2. t \in Task
    BY <1>0, <2>1 DEF PassRecord
  <2>3. events'[t]["completed"] > 0
    BY <1>0, <2>1, <2>2 DEF TypeOK, Terminal, EventCap
  <2>4. /\ pass'[m].prev = pass[m].prev /\ pass'[m].todo = pass[m].todo \ {t}
        /\ pass[m].at = "events"
    BY <1>0, <1>6, <2>1 DEF PassRecord, Emit, At
  <2>5. QED
    BY <2>2, <2>3, <2>4
<1>7. CASE CallStep(m)
  <2>1. pass[m].at # "off"
    BY <1>0, <1>7 DEF CallStep, Step, Acquire, TimeOut, Check, WriteTask, AppendEvent,
                      Unlock, MarkRead, MarkWrite
  <2>2. /\ pass'[m].prev = pass[m].prev /\ pass'[m].todo = pass[m].todo
        /\ pass'[m].at \in {pass[m].at, "won"}
    BY <1>0, <1>7 DEF CallStep, PassRecord
  <2>3. QED
    BY <2>1, <2>2
<1>8. ASSUME Save(m) \/ CrashPass(m) PROVE FALSE
  BY <1>0, <1>8 DEF Save, CrashPass, NoPass
<1>9. ASSUME NEW n \in Monitor, n # m, Pass(n) \/ CallStep(n) \/ CrashPass(n)
      PROVE  pass'[m] = pass[m]
  <2>1. CASE BeginPass(n) \/ Emit(n) \/ Save(n) \/ CrashPass(n)
    BY <1>0, <1>9, <2>1 DEF BeginPass, Emit, Save, CrashPass
  <2>2. CASE ListTask(n)
    BY <1>0, <1>9, <2>2 DEF ListTask
  <2>3. CASE Visit(n) \/ EndReclaim(n) \/ Assign(n) \/ EndAssign(n)
    BY <1>0, <1>9, <2>3 DEF Visit, EndReclaim, Assign, EndAssign
  <2>4. CASE Delegate(n) \/ Dispatch(n) \/ RollBack(n)
    BY <1>0, <1>9, <2>4 DEF Delegate, Dispatch, RollBack
  <2>5. CASE CallStep(n)
    BY <1>0, <1>9, <2>5 DEF CallStep
  <2>6. QED
    BY <1>9, <2>1, <2>2, <2>3, <2>4, <2>5 DEF Pass
<1>10. QED
  BY <1>1, <1>2, <1>3, <1>4, <1>5, <1>6, <1>7, <1>8, <1>9 DEF MonitorNext, Pass, mvars

\* What was logged once stays logged.
LEMMA EventsStay ==
  ASSUME MInv, [MonitorNext]_mvars, NEW t \in Task, events[t]["completed"] > 0
  PROVE  events'[t]["completed"] > 0
<1>0. Core /\ TypeOK /\ events[t]["completed"] \in Nat
  BY DEF MInv, Core, TypeOK, Terminal, EventCap
<1>1. ASSUME NEW p \in Actor, AppendEvent(p) PROVE events'[t]["completed"] > 0
  <2>1. req[p].task \in Task /\ req[p].to \in Terminal
    BY <1>0, <1>1, RequestFields DEF Core, CallInv, AppendEvent
  <2>2. QED
    BY <1>0, <1>1, <2>1 DEF AppendEvent, TypeOK, Terminal, EventCap
<1>2. ASSUME NEW m \in Monitor, Emit(m) PROVE events'[t]["completed"] > 0
  BY <1>0, <1>2 DEF Emit, TypeOK, Terminal, EventCap
<1>3. CASE [Moves]_vars
  BY <1>0, <1>1, <1>3, OtherSteps DEF WriteTask, Lapse, files
<1>4. QED
  BY <1>2, <1>3, StepKinds DEF Save

LEMMA AnnouncedStep == MInv /\ Announced /\ [MonitorNext]_mvars => Announced'
<1> SUFFICES ASSUME MInv, Announced, [MonitorNext]_mvars, NEW m \in Monitor,
                    pass'[m].at = "events", NEW t \in Task \ pass'[m].todo
             PROVE  events'[t]["completed"] > 0
  BY DEF Announced
<1>1. \/ pass[m].at = "events" /\ pass'[m].todo = pass[m].todo
      \/ /\ pass[m].at = "events"
         /\ \E u \in Task : /\ pass'[m].todo = pass[m].todo \ {u}
                            /\ events'[u]["completed"] > 0
  BY PassMoves
<1>2. t \notin pass[m].todo => events[t]["completed"] > 0
  BY <1>1 DEF Announced
<1>3. QED
  BY <1>1, <1>2, EventsStay

\* A marking writes back the reading that it made.
LEMMA BaseMoves ==
  ASSUME MInv, [MonitorNext]_mvars, NEW p \in Actor, step'[p] = "markWrite"
  PROVE  (step[p] = "markWrite" /\ base'[p] = base[p]) \/ base'[p] = snapshot
<1> DEFINE Goal == (step[p] = "markWrite" /\ base'[p] = base[p]) \/ base'[p] = snapshot
<1>0. TypeOK
  BY DEF MInv, Core
<1>1. CASE UNCHANGED <<step, base>>
  BY <1>1
<1>2. ASSUME NEW r \in Actor, Return(r) PROVE Goal
  BY <1>0, <1>2 DEF Return, Goto, TypeOK
<1>3. ASSUME NEW r \in Actor, MarkRead(r) PROVE Goal
  BY <1>0, <1>3 DEF MarkRead, Goto, TypeOK
<1>4. ASSUME NEW r \in Actor, NEW s \in Steps, Goto(r, s), s # "markWrite", base' = base
      PROVE  Goal
  BY <1>0, <1>4 DEF Goto, TypeOK
<1>5. ASSUME NEW r \in Actor, Asks(r) PROVE Goal
  BY <1>4, <1>5 DEF Asks, Begin, Steps
<1>6. ASSUME NEW r \in Actor, Step(r) PROVE Goal
  BY <1>2, <1>3, <1>4, <1>6 DEF Step, Acquire, TimeOut, Check, WriteTask, AppendEvent,
                                Unlock, MarkWrite, Steps
<1>7. CASE [Moves]_vars
  BY <1>1, <1>2, <1>5, <1>6, <1>7 DEF Moves, Environment, Crash, Lapse, RecoverLock,
                                      vars, local
<1>8. QED
  BY <1>1, <1>7, StepKinds DEF Notes, local

LEMMA SnapshotMoves ==
  ASSUME MInv, [MonitorNext]_mvars
  PROVE  \/ snapshot' = snapshot
         \/ \E p \in Actor : MarkWrite(p)
         \/ \E m \in Monitor : Save(m)
<1>1. CASE [Moves]_vars
  BY <1>1 DEF Moves, Environment, Lapse, RecoverLock, Crash, Asks, Begin, Step, Acquire,
              TimeOut, Check, WriteTask, AppendEvent, Unlock, MarkRead, files, vars
<1>2. QED
  BY <1>1, StepKinds DEF Emit

\* For any number of leaders and workers, no reading of the snapshot that is written
\* back late makes the team forget that the completion of a task is yet to be logged.
THEOREM NothingDropped == MonitorSpec => NoCompletionIsDropped
<1>1. MonitorInit => Announced
  BY DEF MonitorInit, NoPass, Announced
<1>2. MonitorSpec => [](MInv /\ Announced)
  <2>1. MInv /\ Announced /\ [MonitorNext]_mvars => (MInv /\ Announced)'
    BY CoreHolds, PassesStep, CallingStep, SnapshotsStep, EventsStep, AnnouncedStep DEF MInv
  <2>2. QED
    BY InitMInv, <1>1, <2>1, PTL DEF MonitorSpec
<1>3. ASSUME MInv, Announced, [MonitorNext]_mvars, NEW t \in Task, KnownOpen(t),
             ~(events'[t]["completed"] > 0), \A s \in Readings : t \notin s.flagged
      PROVE  KnownOpen(t)'
  <2>0. TypeOK /\ Monitor \subseteq Actor /\ pass \in [Monitor -> PassRecord]
    BY <1>3, MonitorAssumption DEF MInv, Core, Passes
  <2>1. Open(snapshot, t)
    BY <1>3 DEF KnownOpen, Readings
  <2>2. ASSUME NEW p \in Actor, step[p] = "markWrite" PROVE Open(base[p], t)
    BY <1>3, <2>2 DEF KnownOpen, Readings
  <2>3. ASSUME NEW m \in Monitor, pass[m].at # "off"
        PROVE  Open(pass[m].prev, t) /\ t \notin pass[m].prev.flagged
    BY <1>3, <2>3 DEF KnownOpen, Readings
  <2>4. ASSUME NEW p \in Actor, MarkWrite(p) PROVE Open(snapshot', t)
    <3>1. Open(base[p], t) /\ base[p] \in Snapshot
      BY <2>0, <2>2, <2>4 DEF MarkWrite, Open, TypeOK
    <3>2. snapshot' = [base[p] EXCEPT !.flagged = @ \cup {req[p].task}]
      BY <2>4, <3>1 DEF MarkWrite, Open
    <3>3. req[p].task \in Task
      BY <1>3, <2>4, RequestFields DEF MInv, Core, CallInv, MarkWrite
    <3>4. snapshot' \in Snapshot /\ snapshot'.known = base[p].known
      BY <3>1, <3>2, <3>3 DEF Snapshot
    <3>5. QED
      BY <3>1, <3>4, AbsentAssumption DEF Open
  <2>5. ASSUME NEW m \in Monitor, Save(m) PROVE Open(snapshot', t)
    <3> DEFINE q == pass[m]
    <3>1. /\ q \in PassRecord /\ q.at = "events" /\ Told(t, q.list[t]) /\ Open(q.prev, t)
          /\ t \notin q.prev.flagged /\ events' = events
          /\ \A u \in q.todo : ~Derived(q, u)
      BY <1>3, <2>0, <2>3, <2>5 DEF MInv, Passes, Fine, Save, At
    <3>2. t \in q.todo
      BY <1>3, <3>1 DEF Announced
    <3>3. q.list[t].status # "completed"
      BY <3>1, <3>2 DEF Derived, Open
    <3>4. q.list[t].status \in TaskStatus /\ None \notin TaskStatus
      BY <3>1, AbsentAssumption DEF Told, SeenTask
    <3>5. snapshot' = Saved(q) /\ snapshot'.known[t] = q.list[t].status
      BY <2>5 DEF Save, Saved
    <3>6. snapshot' \in Snapshot
      <4>1. \A u \in Task : q.list[u].status \in TaskStatus
        BY <1>3, <3>1 DEF MInv, Passes, Fine, Told, SeenTask
      <4>2. QED
        BY <3>1, <3>5, <4>1 DEF Saved, Flags, Snapshot, PassRecord
    <3>7. QED
      BY <3>3, <3>4, <3>5, <3>6, AbsentAssumption DEF Open
  <2>6. Open(snapshot', t)
    BY <1>3, <2>1, <2>4, <2>5, SnapshotMoves
  <2>7. ASSUME NEW p \in Actor, step'[p] = "markWrite" PROVE Open(base'[p], t)
    BY <1>3, <2>1, <2>2, <2>7, BaseMoves
  <2>8. ASSUME NEW m \in Monitor, pass'[m].at # "off" PROVE Open(pass'[m].prev, t)
    BY <1>3, <2>1, <2>3, <2>8, PassMoves
  <2>9. QED
    BY <2>6, <2>7, <2>8 DEF KnownOpen, Readings, Open
<1>4. MInv /\ Announced /\ [MonitorNext]_mvars =>
        [\A t \in Task :
           KnownOpen(t) /\ ~KnownOpen(t)' =>
             \/ events'[t]["completed"] > 0
             \/ \E s \in Readings : t \in s.flagged]_mvars
  BY <1>3
<1>5. QED
  BY <1>2, <1>4, PTL DEF MonitorSpec, NoCompletionIsDropped
=============================================================================
