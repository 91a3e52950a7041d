-------------------------- MODULE TaskClaimsProofs --------------------------
(* Theorems about team tasks and their leases, for any set of processes,   *)
(* workers and tasks and any bounds on claims, updates and crashes.        *)
EXTENDS TaskClaims, TLAPS

NoEvents(t) == \A e \in Terminal : events[t][e] = 0

\* What a call r has established, between its checks and its write, about the
\* task v: all of Accepts that other processes cannot undo meanwhile.
Cleared(r, v) ==
  /\ r.op = "claim" => Ready(r.task) /\ Claimable(v, r.worker)
  /\ r.op = "end" => v.status = "in_progress"
  /\ r.op \in {"end", "release"} =>
       v.status \notin Terminal /\ v.claim # None /\ v.claim.token = r.token
  /\ r.op = "reclaim" => ReclaimAllowed(r, v)

\* A call holds the lock of its task from the checks to the unlocking; until
\* then the task is as the call read it, or as it wrote it.
CallInv(p) ==
  /\ step[p] # "idle" => req[p] \in Request
  /\ step[p] \in Locked => lock[req[p].task] = p
  /\ step[p] \in {"check", "write"} => view[p] = task[req[p].task]
  /\ step[p] = "write" => Cleared(req[p], task[req[p].task])
  /\ step[p] = "append" =>
       /\ req[p].op = "end"
       /\ task[req[p].task].status = req[p].to
  /\ step[p] \in {"markRead", "markWrite"} => req[p].op = "end"

Tokens ==
  /\ \A k \in 1 .. issued : grant[k] \in Task
  /\ \A t \in Task : task[t].claim # None => task[t].claim.token <= issued

\* What holds of the calls whoever makes them and writes events beside them: a
\* monitor pass does both (see TeamMonitorProofs).
Core ==
  /\ TypeOK
  /\ \A p \in Actor : CallInv(p)
  /\ Tokens

\* No end is in the log of an unfinished task, nor of one that a call has just
\* ended and is about to log.
Quiet == \A t \in Task : task[t].status \notin Terminal => NoEvents(t)
Unlogged == \A p \in Actor : step[p] = "append" => NoEvents(req[p].task)

IInv ==
  /\ Core
  /\ Quiet
  /\ Unlogged
  /\ LiveLeaseStands
  /\ EventsMatchOutcome

\* A call begins, with any proper request; and all that calls and the
\* environment do.
Asks(p) == (\E r \in Request : Begin(p, r)) /\ updates' \in 0 .. MaxUpdates

Moves == Environment \/ \E p \in Actor : Asks(p) \/ Step(p)

-----------------------------------------------------------------------------
LEMMA RequestFields ==
  ASSUME NEW r \in Request
  PROVE  /\ r.task \in Task
         /\ r.op \in {"claim", "end", "release", "reclaim", "update", "touch"}
         /\ r.op = "claim" => r.worker \in Worker
         /\ r.op = "end" => r.to \in Terminal
         /\ r.op \in {"end", "release"} => r.token \in Token
         /\ r.op = "update" => r.deps \in SUBSET Task
  BY DEF Request, ClaimRequest, EndRequest, ReleaseRequest, ReclaimRequest,
         UpdateRequest, TouchRequest

LEMMA InitIInv == Init => IInv
<1> SUFFICES ASSUME Init PROVE IInv
  OBVIOUS
<1>1. PICK init \in InitTasks :
        task = [t \in Task |->
                  [status |-> init[t].status, owner |-> init[t].owner,
                   claim |-> None, deps |-> init[t].deps, version |-> 1]]
  BY DEF Init
<1>2. \A t \in Task : init[t] \in [status : {"pending", "blocked"},
                                   owner : Worker \cup {None}, deps : SUBSET Task]
  BY InitAssumption
<1>3. task \in [Task -> TaskRecord]
  BY <1>1, <1>2 DEF TaskRecord, TaskStatus
<1>4. TypeOK
  BY <1>3, BoundAssumption DEF Init, TypeOK, Steps, EventCap
<1>5. \A t \in Task : task[t].claim = None /\ NoEvents(t)
  BY <1>1 DEF Init, NoEvents
<1>6. \A p \in Actor : CallInv(p)
  BY DEF Init, CallInv, Locked
<1>7. Tokens /\ Quiet /\ Unlogged /\ LiveLeaseStands
  BY <1>5 DEF Init, Tokens, Quiet, Unlogged, LiveLeaseStands
<1>8. EventsMatchOutcome
  BY DEF Init, EventsMatchOutcome, Terminal
<1>9. QED
  BY <1>4, <1>6, <1>7, <1>8 DEF IInv, Core

-----------------------------------------------------------------------------
\* What the write of a call does to its task.
LEMMA WriteEffect ==
  ASSUME Core, NEW p \in Actor, WriteTask(p)
  PROVE  LET r == req[p]
             v == task[r.task]
             w == Updated(p)
         IN /\ r \in Request /\ lock[r.task] = p
            /\ v \in TaskRecord /\ w \in TaskRecord
            /\ task' = [task EXCEPT ![r.task] = w]
            /\ w.version = v.version + 1
            /\ v.status \in Terminal => w.status = v.status /\ w.owner = v.owner
            /\ w.status \in Terminal => v.status = w.status \/ r.op = "end"
            /\ w.status = "in_progress" /\ v.status # "in_progress" => Ready(r.task)
            /\ r.op = "end" => v.status = "in_progress" /\ w.status = r.to
<1> DEFINE r == req[p]
           v == task[r.task]
           u == [v EXCEPT !.version = @ + 1]
           w == Updated(p)
<1>1. /\ r \in Request /\ lock[r.task] = p /\ view[p] = v /\ Cleared(r, v)
      /\ step[p] = "write" /\ task' = [task EXCEPT ![r.task] = w]
      /\ r.op = "claim" => issued < MaxToken
  BY DEF Core, CallInv, WriteTask, Locked
<1>2. r.task \in Task /\ v \in TaskRecord
  BY <1>1, RequestFields DEF Core, TypeOK
<1>3. u \in TaskRecord /\ u.version = v.version + 1 /\ u.status = v.status
      /\ u.owner = v.owner /\ u.claim = v.claim
  BY <1>2 DEF TaskRecord
<1> HIDE DEF r, v, u, w
<1> DEFINE Goal == /\ w \in TaskRecord
                   /\ w.version = v.version + 1
                   /\ v.status \in Terminal => w.status = v.status /\ w.owner = v.owner
                   /\ w.status \in Terminal => v.status = w.status \/ r.op = "end"
                   /\ w.status = "in_progress" /\ v.status # "in_progress" => Ready(r.task)
                   /\ r.op = "end" => v.status = "in_progress" /\ w.status = r.to
<1>4. CASE r.op = "claim"
  <2>1. w = Granted(u, r.worker)
    BY <1>1, <1>4 DEF Updated, r, v, u, w
  <2>2. r.worker \in Worker /\ issued + 1 \in Token
    BY <1>1, <1>4, RequestFields, BoundAssumption DEF Core, TypeOK, Token
  <2>3. Ready(r.task) /\ v.status \notin Terminal
    BY <1>1, <1>4 DEF Cleared, Claimable, Terminal
  <2>4. w \in TaskRecord /\ w.version = v.version + 1 /\ w.status = "in_progress"
    BY <1>3, <2>1, <2>2 DEF Granted, TaskRecord, TaskStatus, Claim
  <2>5. Goal
    BY <1>4, <2>3, <2>4 DEF Terminal
  <2>6. QED
    BY <1>1, <1>2, <2>5 DEF r, v, w
<1>5. CASE r.op = "end"
  <2>1. w = [u EXCEPT !.status = r.to, !.claim = None]
    BY <1>1, <1>5 DEF Updated, r, v, u, w
  <2>2. r.to \in Terminal /\ v.status = "in_progress"
    BY <1>1, <1>5, RequestFields DEF Cleared
  <2>3. w \in TaskRecord /\ w.version = v.version + 1 /\ w.status = r.to
    BY <1>3, <2>1, <2>2 DEF TaskRecord, TaskStatus, Terminal
  <2>4. Goal
    BY <1>5, <2>2, <2>3 DEF Terminal
  <2>5. QED
    BY <1>1, <1>2, <2>4 DEF r, v, w
<1>6. CASE r.op \in {"release", "reclaim"}
  <2>1. w = [u EXCEPT !.status = "pending", !.owner = None, !.claim = None]
    BY <1>1, <1>6 DEF Updated, r, v, u, w
  <2>2. v.status \notin Terminal
    BY <1>1, <1>6 DEF Cleared, ReclaimAllowed, Terminal
  <2>3. w \in TaskRecord /\ w.version = v.version + 1 /\ w.status = "pending"
    BY <1>3, <2>1 DEF TaskRecord, TaskStatus
  <2>4. Goal
    BY <1>6, <2>2, <2>3 DEF Terminal
  <2>5. QED
    BY <1>1, <1>2, <2>4 DEF r, v, w
<1>7. CASE r.op = "update"
  <2>1. w = [u EXCEPT !.deps = r.deps] /\ r.deps \in SUBSET Task
    BY <1>1, <1>7, RequestFields DEF Updated, r, v, u, w
  <2>2. w \in TaskRecord /\ w.version = v.version + 1 /\ w.status = v.status
        /\ w.owner = v.owner
    BY <1>3, <2>1 DEF TaskRecord
  <2>3. Goal
    BY <1>7, <2>2
  <2>4. QED
    BY <1>1, <1>2, <2>3 DEF r, v, w
<1>8. CASE r.op = "touch"
  <2>1. w = u
    BY <1>1, <1>8 DEF Updated, r, v, u, w
  <2>2. Goal
    BY <1>3, <1>8, <2>1
  <2>3. QED
    BY <1>1, <1>2, <2>2 DEF r, v, w
<1>9. QED
  BY <1>1, <1>4, <1>5, <1>6, <1>7, <1>8, RequestFields

\* Of the leases, a write takes away only lapsed and spent ones.
LEMMA WriteKeepsLease ==
  ASSUME Core, NEW p \in Actor, WriteTask(p)
  PROVE  LET r == req[p]
             v == task[r.task]
             w == Updated(p)
         IN /\ r.op = "claim" =>
                 /\ w.status = "in_progress" /\ w.claim # None
                 /\ w.claim.token = issued + 1 /\ issued < MaxToken
                 /\ v.status = "in_progress" => Expired(v)
            /\ r.op \in {"end", "release"} =>
                 v.claim # None /\ v.claim.token = r.token /\ w.claim = None
            /\ r.op = "reclaim" => Expired(v) /\ w.claim = None
            /\ r.op \in {"update", "touch"} => w.claim = v.claim /\ w.status = v.status
<1> DEFINE r == req[p]
           v == task[r.task]
           u == [v EXCEPT !.version = @ + 1]
           w == Updated(p)
<1>1. /\ r \in Request /\ view[p] = v /\ Cleared(r, v)
      /\ r.op = "claim" => issued < MaxToken
  BY DEF Core, CallInv, WriteTask, Locked
<1>2. r.task \in Task /\ v \in TaskRecord
  BY <1>1, RequestFields DEF Core, TypeOK
<1>3. u \in TaskRecord /\ u.status = v.status /\ u.claim = v.claim
  BY <1>2 DEF TaskRecord
<1> HIDE DEF r, v, u, w
<1> DEFINE Goal == /\ r.op = "claim" =>
                        /\ w.status = "in_progress" /\ w.claim # None
                        /\ w.claim.token = issued + 1 /\ issued < MaxToken
                        /\ v.status = "in_progress" => Expired(v)
                   /\ r.op \in {"end", "release"} =>
                        v.claim # None /\ v.claim.token = r.token /\ w.claim = None
                   /\ r.op = "reclaim" => Expired(v) /\ w.claim = None
                   /\ r.op \in {"update", "touch"} =>
                        w.claim = v.claim /\ w.status = v.status
<1>4. CASE r.op = "claim"
  <2> DEFINE c == [owner |-> r.worker, token |-> issued + 1]
  <2>1. w = [u EXCEPT !.status = "in_progress", !.owner = r.worker, !.claim = c]
    BY <1>1, <1>4 DEF Updated, Granted, r, v, u, w
  <2>2. c \in Claim /\ c.token = issued + 1
    BY <1>1, <1>4, RequestFields, BoundAssumption DEF Core, TypeOK, Token, Claim
  <2> HIDE DEF c
  <2>3. w.status = "in_progress" /\ w.claim = c /\ c # None
    BY <1>3, <2>1, <2>2, AbsentAssumption DEF TaskRecord
  <2>4. v.status = "in_progress" => Expired(v)
    BY <1>1, <1>4 DEF Cleared, Claimable
  <2>5. Goal
    BY <1>1, <1>4, <2>2, <2>3, <2>4
  <2>6. QED
    BY <2>5 DEF r, v, w
<1>5. CASE r.op \in {"end", "release", "reclaim"}
  <2>1. w.claim = None
    <3>1. CASE r.op = "end"
      <4>1. w = [u EXCEPT !.status = r.to, !.claim = None]
        BY <1>1, <3>1 DEF Updated, r, v, u, w
      <4>2. QED
        BY <1>3, <4>1 DEF TaskRecord
    <3>2. CASE r.op \in {"release", "reclaim"}
      <4>1. w = [u EXCEPT !.status = "pending", !.owner = None, !.claim = None]
        BY <1>1, <3>2 DEF Updated, r, v, u, w
      <4>2. QED
        BY <1>3, <4>1 DEF TaskRecord
    <3>3. QED
      BY <1>5, <3>1, <3>2
  <2>2. Goal
    BY <1>1, <1>5, <2>1 DEF Cleared, ReclaimAllowed
  <2>3. QED
    BY <2>2 DEF r, v, w
<1>6. CASE r.op \in {"update", "touch"}
  <2>1. w.claim = v.claim /\ w.status = v.status
    <3>1. CASE r.op = "update"
      <4>1. w = [u EXCEPT !.deps = r.deps]
        BY <1>1, <3>1 DEF Updated, r, v, u, w
      <4>2. QED
        BY <1>3, <4>1 DEF TaskRecord
    <3>2. CASE r.op = "touch"
      <4>1. w = u
        BY <1>1, <3>2 DEF Updated, r, v, u, w
      <4>2. QED
        BY <1>3, <4>1
    <3>3. QED
      BY <1>6, <3>1, <3>2
  <2>2. Goal
    BY <1>6, <2>1
  <2>3. QED
    BY <2>2 DEF r, v, w
<1>7. QED
  BY <1>1, <1>4, <1>5, <1>6, RequestFields

\* The counters and histories that a write moves on.
LEMMA WriteBooks ==
  ASSUME Core, NEW p \in Actor, WriteTask(p)
  PROVE  /\ issued' \in 0 .. MaxToken /\ issued <= issued'
         /\ spent' \subseteq 1 .. issued' /\ spent \subseteq spent'
         /\ grant' \in [Token -> Task \cup {None}]
         /\ \A k \in 1 .. issued : grant'[k] = grant[k]
         /\ issued' # issued =>
              /\ req[p].op = "claim" /\ issued' = issued + 1
              /\ grant'[issued'] = req[p].task
<1> DEFINE r == req[p]
<1>1. /\ r \in Request /\ r.task \in Task
      /\ r.op \in {"end", "release"} => r.token \in 1 .. issued
  <2>1. r \in Request /\ r.task \in Task
    BY RequestFields DEF Core, CallInv, WriteTask
  <2>2. ASSUME r.op \in {"end", "release"} PROVE r.token \in 1 .. issued
    <3>1. task[r.task].claim # None /\ task[r.task].claim.token = r.token
      BY <2>2, WriteKeepsLease
    <3>2. r.token \in Nat \ {0}
      BY <2>1, <2>2, RequestFields, BoundAssumption DEF Token
    <3>3. QED
      BY <2>1, <3>1, <3>2 DEF Core, Tokens, TypeOK
  <2>3. QED
    BY <2>1, <2>2
<1>2. /\ issued \in 0 .. MaxToken /\ spent \subseteq 1 .. issued
      /\ grant \in [Token -> Task \cup {None}] /\ MaxToken \in Nat
  BY BoundAssumption DEF Core, TypeOK
<1>3. /\ r.op = "claim" => issued < MaxToken
      /\ issued' = IF r.op = "claim" THEN issued + 1 ELSE issued
      /\ grant' = IF r.op = "claim"
                    THEN [grant EXCEPT ![issued + 1] = r.task] ELSE grant
      /\ spent' = IF r.op \in {"end", "release"}
                    THEN spent \cup {r.token} ELSE spent
  BY DEF WriteTask
<1> HIDE DEF r
<1>4. CASE r.op = "claim"
  BY <1>1, <1>2, <1>3, <1>4 DEF Token, r
<1>5. CASE r.op # "claim"
  <2>1. issued' = issued /\ grant' = grant
    BY <1>3, <1>5
  <2>2. spent' \subseteq 1 .. issued /\ spent \subseteq spent'
    BY <1>1, <1>2, <1>3
  <2>3. QED
    BY <1>2, <2>1, <2>2
<1>6. QED
  BY <1>4, <1>5

\* Every call begins with a proper request.
LEMMA CallBegins ==
  ASSUME TypeOK, NEW p \in Actor, Call(p)
  PROVE  Asks(p)
<1> USE DEF Asks, Request, ClaimRequest, EndRequest, ReleaseRequest, ReclaimRequest,
            UpdateRequest, Token
<1>0. /\ updates \in 0 .. MaxUpdates /\ issued \in 0 .. MaxToken
      /\ \A t \in Task : task[t].version \in Nat /\ 0 \in Nat
      /\ MaxUpdates \in Nat /\ MaxToken \in Nat /\ 1 .. issued \subseteq Token
      /\ DepSets \subseteq SUBSET Task
  BY BoundAssumption, DepsAssumption DEF TypeOK, TaskRecord
<1>1. CASE CallClaim(p)
  <2>1. PICK t \in Task, w \in Worker :
          \E e \in {0, task[t].version} :
            Begin(p, [op |-> "claim", task |-> t, worker |-> w, expected |-> e])
    BY <1>1 DEF CallClaim
  <2>2. PICK e \in {0, task[t].version} :
          Begin(p, [op |-> "claim", task |-> t, worker |-> w, expected |-> e])
    BY <2>1
  <2>3. [op |-> "claim", task |-> t, worker |-> w, expected |-> e] \in Request
    BY <1>0, <2>2
  <2>4. QED
    BY <1>0, <1>1, <2>2, <2>3 DEF CallClaim
<1>2. CASE CallEnd(p)
  <2>1. PICK t \in Task, k \in 1 .. issued, to \in Terminal :
          Begin(p, [op |-> "end", task |-> t, token |-> k, to |-> to])
    BY <1>2 DEF CallEnd
  <2>2. [op |-> "end", task |-> t, token |-> k, to |-> to] \in Request
    BY <1>0, <2>1
  <2>3. QED
    BY <1>0, <1>2, <2>1, <2>2 DEF CallEnd
<1>3. CASE CallRelease(p)
  <2>1. PICK t \in Task, k \in 1 .. issued :
          Begin(p, [op |-> "release", task |-> t, token |-> k])
    BY <1>3 DEF CallRelease
  <2>2. [op |-> "release", task |-> t, token |-> k] \in Request
    BY <1>0, <2>1
  <2>3. QED
    BY <1>0, <1>3, <2>1, <2>2 DEF CallRelease
<1>4. CASE CallReclaim(p)
  <2>1. PICK t \in Task : Begin(p, [op |-> "reclaim", task |-> t])
    BY <1>4 DEF CallReclaim
  <2>2. [op |-> "reclaim", task |-> t] \in Request
    BY <2>1
  <2>3. QED
    BY <1>0, <1>4, <2>1, <2>2 DEF CallReclaim
<1>5. CASE CallUpdate(p)
  <2>1. PICK t \in Task, deps \in DepSets :
          /\ updates < MaxUpdates /\ updates' = updates + 1
          /\ Begin(p, [op |-> "update", task |-> t, deps |-> deps])
    BY <1>5 DEF CallUpdate
  <2>2. [op |-> "update", task |-> t, deps |-> deps] \in Request
    BY <1>0, <2>1
  <2>3. QED
    BY <1>0, <2>1, <2>2
<1>6. QED
  BY <1>1, <1>2, <1>3, <1>4, <1>5 DEF Call

LEMMA NextMoves == TypeOK /\ [Next]_vars => [Moves]_vars
  BY CallBegins DEF Next, Moves

LEMMA TypeStep == Core /\ [Moves]_vars => TypeOK'
<1> SUFFICES ASSUME Core, [Moves]_vars PROVE TypeOK'
  OBVIOUS
<1>0. TypeOK
  BY DEF Core
<1> USE <1>0 DEF TypeOK, Goto, Return, files, local, counts, history, Steps
<1>1. CASE UNCHANGED vars
  BY <1>1 DEF vars
<1>2. ASSUME NEW t \in Task, Lapse(t) \/ RecoverLock(t) PROVE TypeOK'
  <2>1. CASE Lapse(t)
    <3>1. task[t].claim.token \in 1 .. issued
      <4>1. task[t].claim \in Claim /\ task[t].claim.token <= issued
        BY <2>1 DEF Lapse, Core, Tokens, TaskRecord
      <4>2. QED
        BY <4>1, BoundAssumption DEF Claim, Token
    <3>2. QED
      BY <2>1, <3>1 DEF Lapse
  <2>2. CASE RecoverLock(t)
    BY <2>2 DEF RecoverLock
  <2>3. QED
    BY <1>2, <2>1, <2>2
<1>3. ASSUME NEW p \in Actor, Crash(p) PROVE TypeOK'
  <2>1. crashes' \in 0 .. MaxCrashes
    BY <1>3, BoundAssumption DEF Crash
  <2>2. lock' \in [Task -> Actor \cup {None, "orphan"}]
    BY <1>3 DEF Crash
  <2>3. QED
    BY <1>3, <2>1, <2>2 DEF Crash
<1>4. ASSUME NEW p \in Actor, Asks(p) PROVE TypeOK'
  <2>1. PICK r \in Request : Begin(p, r)
    BY <1>4 DEF Asks
  <2>2. updates' \in 0 .. MaxUpdates
    BY <1>4 DEF Asks
  <2>3. QED
    BY <2>1, <2>2 DEF Begin
<1>5. ASSUME NEW p \in Actor, Acquire(p) PROVE TypeOK'
  <2>1. req[p] \in Request /\ req[p].task \in Task
    BY <1>5, RequestFields DEF Core, CallInv, Acquire
  <2>2. QED
    BY <1>5, <2>1 DEF Acquire
<1>6. ASSUME NEW p \in Actor, TimeOut(p) \/ Check(p) PROVE TypeOK'
  BY <1>6 DEF TimeOut, Check
<1>7. ASSUME NEW p \in Actor, WriteTask(p) PROVE TypeOK'
  <2>1. task' \in [Task -> TaskRecord]
    <3>1. req[p].task \in Task
      BY <1>7, WriteEffect, RequestFields
    <3>2. QED
      BY <1>7, <3>1, WriteEffect
  <2>2. /\ issued' \in 0 .. MaxToken /\ issued <= issued'
        /\ spent' \subseteq 1 .. issued'
        /\ grant' \in [Token -> Task \cup {None}]
    BY <1>7, WriteBooks
  <2>3. lapsed' \subseteq 1 .. issued'
    BY <1>7, <2>2 DEF WriteTask
  <2>4. step' \in [Actor -> Steps]
    BY <1>7 DEF WriteTask
  <2>5. UNCHANGED <<lock, req, view, events, snapshot, base, updates, crashes>>
    BY <1>7 DEF WriteTask
  <2>6. QED
    BY <2>1, <2>2, <2>3, <2>4, <2>5
<1>8. ASSUME NEW p \in Actor, AppendEvent(p) PROVE TypeOK'
  <2>1. req[p] \in Request /\ req[p].op = "end"
    BY <1>8 DEF Core, CallInv, AppendEvent
  <2>2. events' \in [Task -> [Terminal -> 0 .. EventCap]]
    BY <1>8, <2>1, RequestFields DEF AppendEvent, EventCap
  <2>3. QED
    BY <1>8, <2>2 DEF AppendEvent
<1>9. ASSUME NEW p \in Actor, Unlock(p) \/ MarkRead(p) PROVE TypeOK'
  <2>1. CASE Unlock(p)
    <3>1. lock' \in [Task -> Actor \cup {None, "orphan"}]
      BY <2>1 DEF Unlock
    <3>2. QED
      BY <2>1, <3>1 DEF Unlock
  <2>2. CASE MarkRead(p)
    BY <2>2 DEF MarkRead
  <2>3. QED
    BY <1>9, <2>1, <2>2
<1>10. ASSUME NEW p \in Actor, MarkWrite(p) PROVE TypeOK'
  <2>1. req[p].task \in Task
    BY <1>10, RequestFields DEF Core, CallInv, MarkWrite
  <2>2. base[p] \in Snapshot \cup {None}
    OBVIOUS
  <2>3. snapshot' \in Snapshot
    BY <1>10, <2>1, <2>2 DEF MarkWrite, Snapshot
  <2>4. QED
    BY <1>10, <2>3 DEF MarkWrite
<1>11. QED
  BY <1>1, <1>2, <1>3, <1>4, <1>5, <1>6, <1>7, <1>8, <1>9, <1>10
     DEF Moves, Environment, Step

-----------------------------------------------------------------------------
\* A step that leaves alone what the call of q relies on.
Keeps(q) ==
  /\ step'[q] = step[q] /\ req'[q] = req[q] /\ view'[q] = view[q]
  /\ step[q] \in Locked =>
       LET t == req[q].task
       IN lock'[t] = lock[t] /\ task'[t] = task[t]

\* What no step undoes: the end of a task, such as of a dependency, a lapsed lease.
LEMMA Lasting ==
  ASSUME Core, [Moves]_vars
  PROVE  /\ \A t \in Task :
              task[t].status \in Terminal => task'[t].status = task[t].status
         /\ lapsed \subseteq lapsed'
<1>1. ASSUME NEW p \in Actor, WriteTask(p)
      PROVE  /\ \A t \in Task :
                  task[t].status \in Terminal => task'[t].status = task[t].status
             /\ lapsed \subseteq lapsed'
  <2> DEFINE w == Updated(p)
  <2>1. /\ task' = [task EXCEPT ![req[p].task] = w] /\ task \in [Task -> TaskRecord]
        /\ task[req[p].task].status \in Terminal => w.status = task[req[p].task].status
        /\ lapsed' = lapsed
    BY <1>1, WriteEffect DEF Core, TypeOK, WriteTask
  <2> HIDE DEF w
  <2> QED BY <2>1
<1>2. CASE UNCHANGED <<task, lapsed>>
  BY <1>2
<1>3. ASSUME NEW t \in Task, Lapse(t)
      PROVE  UNCHANGED task /\ lapsed \subseteq lapsed'
  BY <1>3 DEF Lapse, files
<1>4. ASSUME NEW t \in Task, RecoverLock(t) PROVE UNCHANGED <<task, lapsed>>
  BY <1>4 DEF RecoverLock, files
<1>5. ASSUME NEW p \in Actor, Crash(p) PROVE UNCHANGED <<task, lapsed>>
  BY <1>5 DEF Crash, files
<1>6. ASSUME NEW p \in Actor, Asks(p) PROVE UNCHANGED <<task, lapsed>>
  BY <1>6 DEF Asks, Begin, files, Core
<1>7. ASSUME NEW p \in Actor, Step(p), ~WriteTask(p) PROVE UNCHANGED <<task, lapsed>>
  BY <1>7 DEF Step, Acquire, TimeOut, Check, AppendEvent, Unlock, MarkRead,
              MarkWrite, files
<1>8. CASE UNCHANGED vars
  BY <1>8 DEF vars
<1>9. QED
  BY <1>1, <1>2, <1>3, <1>4, <1>5, <1>6, <1>7, <1>8 DEF Moves, Environment, Step

LEMMA CallKept ==
  ASSUME Core, [Moves]_vars, NEW q \in Actor, Keeps(q)
  PROVE  CallInv(q)'
<1> DEFINE t == req[q].task
<1>1. CallInv(q)
  BY DEF Core
<1>2. CASE step[q] = "write"
  <2>1. /\ req[q] \in Request /\ t \in Task /\ lock[t] = q
        /\ view[q] = task[t] /\ Cleared(req[q], task[t])
    BY <1>1, <1>2, RequestFields DEF CallInv, Locked
  <2>2. /\ req'[q] = req[q] /\ step'[q] = "write" /\ view'[q] = view[q]
        /\ lock'[t] = lock[t] /\ task'[t] = task[t]
    BY <1>2 DEF Keeps, Locked
  <2>3. Ready(t) => Ready(t)'
    <3>1. task[t].deps \subseteq Task
      BY <2>1 DEF Core, TypeOK, TaskRecord
    <3>2. QED
      BY <2>2, <3>1, Lasting DEF Ready, Terminal
  <2>4. \A w \in Worker : Claimable(task[t], w) => Claimable(task[t], w)'
    BY <2>2, Lasting DEF Claimable, Expired
  <2>5. Expired(task[t]) => Expired(task[t])'
    BY <2>2, Lasting DEF Expired
  <2>6. Cleared(req[q], task[t])'
    BY <2>1, <2>2, <2>3, <2>4, <2>5, RequestFields DEF Cleared, ReclaimAllowed
  <2>7. QED
    BY <2>1, <2>2, <2>6 DEF CallInv, Locked
<1>3. CASE step[q] = "append"
  BY <1>1, <1>3 DEF CallInv, Keeps, Locked
<1>4. CASE step[q] \notin {"write", "append"}
  BY <1>1, <1>4 DEF CallInv, Keeps, Locked
<1>5. QED
  BY <1>2, <1>3, <1>4

\* The own step of p leaves the calls of the others alone, since it touches the
\* lock and the file of its own task only, and holds its lock.
LEMMA OthersKept ==
  ASSUME Core, [Moves]_vars, NEW p \in Actor, NEW q \in Actor, q # p,
         step'[q] = step[q], req'[q] = req[q], view'[q] = view[q],
         \A t \in Task :
           \/ lock'[t] = lock[t] /\ task'[t] = task[t]
           \/ lock[t] \in {p, None, "orphan"}
  PROVE  CallInv(q)'
<1>1. ASSUME step[q] \in Locked
      PROVE  LET t == req[q].task
             IN lock'[t] = lock[t] /\ task'[t] = task[t]
  <2>1. req[q] \in Request /\ lock[req[q].task] = q
    BY <1>1 DEF Core, CallInv, Locked
  <2>2. lock[req[q].task] \notin {p, None, "orphan"}
    BY <2>1, NoneAssumption, OrphanAssumption
  <2>3. QED
    BY <2>1, <2>2, RequestFields
<1>2. QED
  BY <1>1, CallKept DEF Keeps

LEMMA CallsKept == Core /\ [Moves]_vars => \A q \in Actor : CallInv(q)'
<1> SUFFICES ASSUME Core, [Moves]_vars, NEW q \in Actor PROVE CallInv(q)'
  OBVIOUS
<1>0. TypeOK /\ CallInv(q) /\ TypeOK'
  BY TypeStep DEF Core
<1> USE DEF Goto, Return
<1>1. CASE UNCHANGED vars
  BY <1>1, CallKept DEF vars, Keeps
<1>2. ASSUME NEW t \in Task, Lapse(t) PROVE CallInv(q)'
  BY <1>2, CallKept DEF Lapse, files, local, Keeps
<1>3. ASSUME NEW t \in Task, RecoverLock(t) PROVE CallInv(q)'
  <2>1. \A u \in Task : lock'[u] = lock[u] \/ lock[u] = "orphan"
    BY <1>0, <1>3 DEF RecoverLock, TypeOK
  <2>2. UNCHANGED <<step, req, view, task, events>>
    BY <1>3 DEF RecoverLock, files, local
  <2>3. ASSUME step[q] \in Locked
        PROVE  lock[req[q].task] = q /\ req[q].task \in Task
    BY <1>0, <2>3, RequestFields DEF CallInv, Locked
  <2>4. Keeps(q)
    BY <2>1, <2>2, <2>3, OrphanAssumption DEF Keeps
  <2>5. QED
    BY <2>4, CallKept
<1>4. ASSUME NEW p \in Actor, Crash(p) PROVE CallInv(q)'
  <2>1. CASE q # p
    <3>1. \A t \in Task : lock'[t] = lock[t] \/ lock[t] = p
      BY <1>0, <1>4 DEF Crash, TypeOK, Core, CallInv
    <3>2. QED
      BY <1>0, <1>4, <2>1, <3>1, OthersKept DEF Crash, TypeOK, files
  <2>2. CASE q = p
    BY <1>0, <1>4, <2>2 DEF Crash, TypeOK, CallInv, Locked
  <2>3. QED
    BY <2>1, <2>2
<1>5. ASSUME NEW p \in Actor, Asks(p) PROVE CallInv(q)'
  <2>1. PICK r \in Request : Begin(p, r)
    BY <1>5 DEF Asks
  <2>2. CASE q # p
    BY <1>0, <2>1, <2>2, OthersKept DEF Begin, TypeOK, files
  <2>3. CASE q = p
    BY <1>0, <2>1, <2>3 DEF Begin, TypeOK, CallInv, Locked
  <2>4. QED
    BY <2>2, <2>3
<1>6. ASSUME NEW p \in Actor, Acquire(p) PROVE CallInv(q)'
  <2>1. req[p] \in Request /\ req[p].task \in Task /\ lock[req[p].task] = None
    BY <1>6, RequestFields DEF Core, CallInv, Acquire
  <2>2. CASE q # p
    BY <1>0, <1>6, <2>1, <2>2, OthersKept DEF Acquire, TypeOK, files
  <2>3. CASE q = p
    BY <1>0, <1>6, <2>1, <2>3 DEF Acquire, TypeOK, CallInv, Locked, files
  <2>4. QED
    BY <2>2, <2>3
<1>7. ASSUME NEW p \in Actor, TimeOut(p) \/ MarkRead(p) \/ MarkWrite(p)
      PROVE  CallInv(q)'
  <2>1. CASE q # p
    <3>1. UNCHANGED <<lock, task, events>>
      BY <1>7 DEF TimeOut, MarkRead, MarkWrite, files
    <3>2. step'[q] = step[q] /\ req'[q] = req[q] /\ view'[q] = view[q]
      BY <1>0, <1>7, <2>1 DEF TimeOut, MarkRead, MarkWrite, TypeOK
    <3>3. QED
      BY <2>1, <3>1, <3>2, OthersKept
  <2>2. CASE q = p
    BY <1>0, <1>7, <2>2 DEF TimeOut, MarkRead, MarkWrite, TypeOK, CallInv, Locked
  <2>3. QED
    BY <2>1, <2>2
<1>8. ASSUME NEW p \in Actor, Check(p) PROVE CallInv(q)'
  <2>1. CASE q # p
    BY <1>0, <1>8, <2>1, OthersKept DEF Check, TypeOK, files
  <2>2. CASE q = p
    <3>1. /\ req[p] \in Request /\ lock[req[p].task] = p
          /\ view[p] = task[req[p].task] /\ step'[p] \in {"write", "unlock"}
          /\ UNCHANGED <<req, lock, view, task, lapsed, events>>
      BY <1>0, <1>8, <2>2 DEF Check, CallInv, Locked, TypeOK, files
    <3>2. ASSUME step'[p] = "write" PROVE Cleared(req[p], task[req[p].task])
      <4>1. Accepts(p)
        BY <1>0, <1>8, <3>2 DEF Check, TypeOK
      <4>2. CASE req[p].op = "claim"
        BY <3>1, <4>1, <4>2 DEF Accepts, ClaimAllowed, Cleared
      <4>3. CASE req[p].op = "end"
        BY <3>1, <4>1, <4>3 DEF Accepts, EndAllowed, HoldsLease, Cleared, Terminal
      <4>4. CASE req[p].op = "release"
        BY <3>1, <4>1, <4>4 DEF Accepts, ReleaseAllowed, HoldsLease, Cleared
      <4>5. CASE req[p].op = "reclaim"
        BY <3>1, <4>1, <4>5 DEF Accepts, Cleared
      <4>6. CASE req[p].op \in {"update", "touch"}
        BY <4>6 DEF Cleared
      <4>7. QED
        BY <3>1, <4>2, <4>3, <4>4, <4>5, <4>6, RequestFields
    <3>3. ASSUME step'[p] = "write" PROVE Cleared(req[p], task[req[p].task])'
      BY <3>1, <3>2, <3>3 DEF Cleared, Ready, Claimable, Expired, ReclaimAllowed
    <3>4. QED
      BY <2>2, <3>1, <3>3 DEF CallInv, Locked
  <2>3. QED
    BY <2>1, <2>2
<1>9. ASSUME NEW p \in Actor, WriteTask(p) PROVE CallInv(q)'
  <2>1. /\ req[p] \in Request /\ req[p].task \in Task /\ lock[req[p].task] = p
        /\ task' = [task EXCEPT ![req[p].task] = Updated(p)]
        /\ req[p].op = "end" =>
             /\ task[req[p].task].status = "in_progress"
             /\ Updated(p).status = req[p].to
    BY <1>9, WriteEffect, RequestFields
  <2>2. UNCHANGED <<lock, req, view, events>>
    BY <1>9 DEF WriteTask
  <2>3. CASE q # p
    BY <1>0, <1>9, <2>1, <2>2, <2>3, OthersKept DEF WriteTask, TypeOK
  <2>4. CASE q = p
    <3>1. step'[p] = IF req[p].op = "end" THEN "append" ELSE "unlock"
      BY <1>0, <1>9 DEF WriteTask, TypeOK
    <3>2. ASSUME req[p].op = "end"
          PROVE  task'[req[p].task].status = req[p].to
      BY <1>0, <2>1, <3>2 DEF TypeOK
    <3>3. QED
      BY <2>1, <2>2, <2>4, <3>1, <3>2 DEF CallInv, Locked
  <2>5. QED
    BY <2>3, <2>4
<1>10. ASSUME NEW p \in Actor, AppendEvent(p) PROVE CallInv(q)'
  <2>1. req[p] \in Request /\ req[p].task \in Task /\ lock[req[p].task] = p
    BY <1>10, RequestFields DEF Core, CallInv, AppendEvent, Locked
  <2>2. UNCHANGED <<lock, task, req, view>>
    BY <1>10 DEF AppendEvent
  <2>3. CASE q # p
    BY <1>0, <1>10, <2>1, <2>2, <2>3, OthersKept DEF AppendEvent, TypeOK
  <2>4. CASE q = p
    BY <1>0, <1>10, <2>1, <2>2, <2>4 DEF AppendEvent, TypeOK, CallInv, Locked
  <2>5. QED
    BY <2>3, <2>4
<1>11. ASSUME NEW p \in Actor, Unlock(p) PROVE CallInv(q)'
  <2>1. req[p] \in Request /\ req[p].task \in Task /\ lock[req[p].task] = p
    BY <1>11, RequestFields DEF Core, CallInv, Unlock, Locked
  <2>2. UNCHANGED <<task, events>>
    BY <1>11 DEF Unlock, files
  <2>3. CASE q # p
    <3>1. step'[q] = step[q] /\ req'[q] = req[q] /\ view'[q] = view[q]
      BY <1>0, <1>11, <2>3 DEF Unlock, TypeOK
    <3>2. \A t \in Task : lock'[t] = lock[t] \/ lock[t] = p
      BY <1>0, <1>11, <2>1 DEF Unlock, TypeOK
    <3>3. QED
      BY <2>2, <2>3, <3>1, <3>2, OthersKept
  <2>4. CASE q = p
    BY <1>0, <1>11, <2>1, <2>4 DEF Unlock, TypeOK, CallInv, Locked
  <2>5. QED
    BY <2>3, <2>4
<1>12. QED
  BY <1>1, <1>2, <1>3, <1>4, <1>5, <1>6, <1>7, <1>8, <1>9, <1>10, <1>11
     DEF Moves, Environment, Step

-----------------------------------------------------------------------------
\* Only three kinds of step move a task, its events or its leases.
LEMMA OtherSteps ==
  ASSUME Core, [Moves]_vars
  PROVE  \/ \E p \in Actor : WriteTask(p) \/ AppendEvent(p)
         \/ \E t \in Task : Lapse(t)
         \/ UNCHANGED <<task, events, issued, lapsed, grant, spent>>
<1>1. CASE UNCHANGED vars
  BY <1>1 DEF vars
<1>2. ASSUME NEW p \in Actor, Asks(p)
      PROVE  UNCHANGED <<task, events, issued, lapsed, grant, spent>>
  BY <1>2 DEF Asks, Begin, files, history, Core
<1>3. ASSUME NEW p \in Actor, Step(p) \/ Crash(p)
      PROVE  \/ WriteTask(p) \/ AppendEvent(p)
             \/ UNCHANGED <<task, events, issued, lapsed, grant, spent>>
  BY <1>3 DEF Step, Crash, Acquire, TimeOut, Check, Unlock, MarkRead, MarkWrite,
              files, history
<1>4. ASSUME NEW t \in Task, RecoverLock(t)
      PROVE  UNCHANGED <<task, events, issued, lapsed, grant, spent>>
  BY <1>4 DEF RecoverLock, files, history
<1>5. QED
  BY <1>1, <1>2, <1>3, <1>4 DEF Moves, Environment

LEMMA TokensStep == Core /\ [Moves]_vars => Tokens'
<1> SUFFICES ASSUME Core, [Moves]_vars PROVE Tokens'
  OBVIOUS
<1>0. TypeOK /\ Tokens /\ issued \in Nat
  BY BoundAssumption DEF Core, TypeOK
<1>1. ASSUME NEW p \in Actor, WriteTask(p) PROVE Tokens'
  <2> DEFINE r == req[p]
             w == Updated(p)
  <2>1. r \in Request /\ r.task \in Task /\ task' = [task EXCEPT ![r.task] = w]
        /\ w \in TaskRecord
    BY <1>1, WriteEffect, RequestFields
  <2>2. issued' \in Nat /\ issued <= issued'
        /\ (issued' = issued \/ (issued' = issued + 1 /\ grant'[issued'] = r.task))
        /\ \A k \in 1 .. issued : grant'[k] = grant[k]
    BY <1>1, WriteBooks, BoundAssumption
  <2>3. \A k \in 1 .. issued' : grant'[k] \in Task
    <3>1. ASSUME NEW k \in 1 .. issued' PROVE grant'[k] \in Task
      <4>1. k \in 1 .. issued \/ (k = issued' /\ issued' = issued + 1)
        BY <1>0, <2>2
      <4>2. QED
        BY <1>0, <2>1, <2>2, <4>1 DEF Tokens
    <3>2. QED
      BY <3>1
  <2>4. w.claim # None => w.claim.token <= issued'
    <3>1. CASE r.op = "claim"
      <4>1. issued' = issued + 1
        BY <1>1, <3>1 DEF WriteTask
      <4>2. w.claim.token = issued + 1
        BY <1>1, <3>1, WriteKeepsLease
      <4>3. QED
        BY <1>0, <4>1, <4>2
    <3>2. CASE r.op \in {"end", "release", "reclaim"}
      BY <1>1, <3>2, WriteKeepsLease
    <3>3. CASE r.op \in {"update", "touch"}
      <4>1. w.claim = task[r.task].claim
        BY <1>1, <3>3, WriteKeepsLease
      <4>2. issued' = issued
        BY <1>1, <3>3 DEF WriteTask
      <4>3. QED
        BY <1>0, <2>1, <4>1, <4>2 DEF Tokens
    <3>4. QED
      BY <2>1, <3>1, <3>2, <3>3, RequestFields
  <2>5. ASSUME NEW t \in Task, task'[t].claim # None
        PROVE  task'[t].claim.token <= issued'
    <3>1. CASE t = r.task
      BY <1>0, <2>1, <2>4, <2>5, <3>1 DEF TypeOK
    <3>2. CASE t # r.task
      <4>1. task'[t] = task[t]
        BY <1>0, <2>1, <3>2 DEF TypeOK
      <4>2. task[t].claim.token \in Nat
        BY <1>0, <2>5, <4>1, BoundAssumption DEF TypeOK, TaskRecord, Claim, Token
      <4>3. QED
        BY <1>0, <2>2, <2>5, <4>1, <4>2 DEF Tokens
    <3>3. QED
      BY <3>1, <3>2
  <2>6. QED
    BY <2>3, <2>5 DEF Tokens
<1>2. CASE UNCHANGED <<task, issued, grant>>
  BY <1>0, <1>2 DEF Tokens
<1>3. QED
  BY <1>1, <1>2, OtherSteps DEF AppendEvent, Lapse, files, history

LEMMA CoreStep == Core /\ [Moves]_vars => Core'
  BY TypeStep, CallsKept, TokensStep DEF Core

\* No step ends a lease that is neither lapsed nor handed back.
LEMMA LeaseStep == IInv /\ [Moves]_vars => LiveLeaseStands'
<1> SUFFICES ASSUME IInv, [Moves]_vars PROVE LiveLeaseStands'
  OBVIOUS
<1>0. Core /\ TypeOK /\ Tokens /\ LiveLeaseStands /\ issued \in Nat
  BY BoundAssumption DEF IInv, Core, TypeOK
<1>1. ASSUME NEW p \in Actor, WriteTask(p) PROVE LiveLeaseStands'
  <2> DEFINE r == req[p]
             v == task[r.task]
             w == Updated(p)
  <2>1. r \in Request /\ r.task \in Task /\ task' = [task EXCEPT ![r.task] = w]
    BY <1>0, <1>1, WriteEffect, RequestFields
  <2>2. lapsed' = lapsed /\ spent \subseteq spent'
        /\ (r.op \in {"end", "release"} => r.token \in spent')
    BY <1>0, <1>1 DEF WriteTask
  <2>3. SUFFICES ASSUME NEW k \in 1 .. issued', k \notin lapsed \cup spent'
                 PROVE  LET x == task'[grant'[k]]
                        IN x.status = "in_progress" /\ x.claim # None /\ x.claim.token = k
    BY <2>2 DEF LiveLeaseStands
  <2>4. CASE k \notin 1 .. issued
    <3>1. k = issued + 1 /\ issued' = k /\ r.op = "claim" /\ grant'[k] = r.task
      BY <1>0, <1>1, <2>4, WriteBooks
    <3>2. task'[r.task] = w
      BY <1>0, <2>1 DEF TypeOK
    <3>3. QED
      BY <1>0, <1>1, <3>1, <3>2, WriteKeepsLease
  <2>5. CASE k \in 1 .. issued
    <3>1. grant'[k] = grant[k] /\ grant[k] \in Task
      BY <1>0, <1>1, <2>5, WriteBooks DEF Tokens
    <3>2. /\ task[grant[k]].status = "in_progress"
          /\ task[grant[k]].claim # None /\ task[grant[k]].claim.token = k
      BY <1>0, <2>2, <2>3, <2>5 DEF LiveLeaseStands
    <3>3. CASE grant[k] # r.task
      BY <1>0, <2>1, <3>1, <3>2, <3>3 DEF TypeOK
    <3>4. CASE grant[k] = r.task
      <4>1. ~Expired(v) /\ ~(r.op \in {"end", "release"} /\ v.claim.token = r.token)
        BY <2>2, <2>3, <3>2, <3>4 DEF Expired
      <4>2. r.op \in {"update", "touch"}
        BY <1>0, <1>1, <2>1, <3>2, <3>4, <4>1, WriteKeepsLease, RequestFields
      <4>3. w.claim = v.claim /\ w.status = v.status
        BY <1>0, <1>1, <4>2, WriteKeepsLease
      <4>4. task'[r.task] = w
        BY <1>0, <2>1 DEF TypeOK
      <4>5. QED
        BY <3>1, <3>2, <3>4, <4>3, <4>4
    <3>5. QED
      BY <3>3, <3>4
  <2>6. QED
    BY <2>4, <2>5
<1>2. CASE UNCHANGED <<task, issued, grant, spent>> /\ lapsed \subseteq lapsed'
  BY <1>0, <1>2 DEF LiveLeaseStands
<1>3. QED
  BY <1>0, <1>1, <1>2, OtherSteps DEF AppendEvent, Lapse, files, history

\* The events of a task that has not ended are none, and those of one that has
\* are at most the one that names its end.
LEMMA EventStep == IInv /\ [Moves]_vars => Quiet' /\ EventsMatchOutcome'
<1> SUFFICES ASSUME IInv, [Moves]_vars PROVE Quiet' /\ EventsMatchOutcome'
  OBVIOUS
<1>0. Core /\ TypeOK /\ Quiet /\ EventsMatchOutcome
  BY DEF IInv, Core
<1>1. ASSUME NEW p \in Actor, WriteTask(p) PROVE Quiet' /\ EventsMatchOutcome'
  <2> DEFINE r == req[p]
             v == task[r.task]
             w == Updated(p)
  <2>1. /\ r \in Request /\ r.task \in Task /\ task' = [task EXCEPT ![r.task] = w]
        /\ v.status \in Terminal => w.status = v.status
        /\ events' = events
    BY <1>0, <1>1, WriteEffect, RequestFields DEF WriteTask
  <2>2. \A t \in Task : task[t].status \in Terminal => task'[t].status = task[t].status
    BY <1>0, <2>1 DEF TypeOK
  <2>3. Quiet'
    BY <1>0, <2>1, <2>2 DEF Quiet, NoEvents
  <2>4. ASSUME NEW t \in Task, NEW e \in Terminal, events[t][e] > 0
        PROVE  task'[t].status = e
    <3>1. task[t].status = e
      BY <1>0, <2>4 DEF EventsMatchOutcome
    <3>2. QED
      BY <2>2, <3>1
  <2>5. EventsMatchOutcome'
    BY <1>0, <2>1, <2>4 DEF EventsMatchOutcome
  <2>6. QED
    BY <2>3, <2>5
<1>2. ASSUME NEW p \in Actor, AppendEvent(p) PROVE Quiet' /\ EventsMatchOutcome'
  <2> DEFINE r == req[p]
  <2>1. /\ r \in Request /\ r.task \in Task /\ r.to \in Terminal
        /\ task[r.task].status = r.to /\ NoEvents(r.task)
        /\ task' = task
    BY <1>2, RequestFields DEF IInv, Core, CallInv, Unlogged, AppendEvent
  <2>2. events' = [events EXCEPT ![r.task][r.to] = 1]
    <3>1. events[r.task][r.to] = 0
      BY <2>1 DEF NoEvents
    <3>2. events' = [events EXCEPT ![r.task][r.to] =
                       IF @ < EventCap THEN @ + 1 ELSE @]
      BY <1>2 DEF AppendEvent
    <3>3. QED
      BY <3>1, <3>2 DEF EventCap
  <2>3. \A t \in Task : t # r.task => events'[t] = events[t]
    BY <1>0, <2>2 DEF TypeOK
  <2>4. \A e \in Terminal : events'[r.task][e] = IF e = r.to THEN 1 ELSE 0
    BY <1>0, <2>1, <2>2 DEF TypeOK, NoEvents
  <2>5. Quiet'
    BY <1>0, <2>1, <2>3 DEF Quiet, NoEvents
  <2>6. \A t \in Task : \A e \in Terminal : events'[t][e] > 0 => task'[t].status = e
    <3>1. ASSUME NEW t \in Task, NEW e \in Terminal, events'[t][e] > 0
          PROVE  task'[t].status = e
      BY <1>0, <2>1, <2>3, <2>4, <3>1 DEF EventsMatchOutcome
    <3>2. QED
      BY <3>1
  <2>7. \A t \in Task : events'[t]["completed"] + events'[t]["failed"] <= 1
    BY <1>0, <2>1, <2>3, <2>4 DEF EventsMatchOutcome, Terminal
  <2>8. QED
    BY <2>5, <2>6, <2>7 DEF EventsMatchOutcome
<1>3. CASE UNCHANGED <<task, events>>
  BY <1>0, <1>3 DEF Quiet, NoEvents, EventsMatchOutcome
<1>4. QED
  BY <1>0, <1>1, <1>2, <1>3, OtherSteps DEF Lapse, files

\* A call that has ended its task finds it unfinished and so without events; until
\* it appends its own, its lock keeps the others from logging anything.
LEMMA UnloggedStep == IInv /\ [Moves]_vars => Unlogged'
<1> SUFFICES ASSUME IInv, [Moves]_vars, NEW q \in Actor, step'[q] = "append"
             PROVE  NoEvents(req[q].task)'
  BY DEF Unlogged
<1>0. Core /\ TypeOK /\ Quiet /\ Unlogged
  BY DEF IInv, Core
<1>1. ASSUME NEW p \in Actor, WriteTask(p) PROVE NoEvents(req[q].task)'
  <2>1. UNCHANGED <<req, events>>
    BY <1>1 DEF WriteTask
  <2>2. CASE q = p
    <3>1. req[p].op = "end"
      BY <1>0, <1>1, <2>2 DEF WriteTask, Goto, TypeOK
    <3>2. req[p].task \in Task /\ task[req[p].task].status = "in_progress"
      BY <1>0, <1>1, <3>1, WriteEffect, RequestFields
    <3>3. QED
      BY <1>0, <2>1, <2>2, <3>2 DEF Quiet, NoEvents, Terminal
  <2>3. CASE q # p
    <3>1. step[q] = "append"
      BY <1>0, <1>1, <2>3 DEF WriteTask, Goto, TypeOK
    <3>2. QED
      BY <1>0, <2>1, <3>1 DEF Unlogged, NoEvents
  <2>4. QED
    BY <2>2, <2>3
<1>2. ASSUME NEW p \in Actor, AppendEvent(p) PROVE NoEvents(req[q].task)'
  <2>1. q # p /\ step[q] = "append" /\ req' = req
    BY <1>0, <1>2 DEF AppendEvent, Goto, TypeOK
  <2>2. /\ lock[req[p].task] = p /\ lock[req[q].task] = q
        /\ req[q].task \in Task /\ NoEvents(req[q].task)
    BY <1>0, <1>2, <2>1, RequestFields DEF Core, CallInv, Unlogged, AppendEvent, Locked
  <2>3. events'[req[q].task] = events[req[q].task]
    BY <1>0, <1>2, <2>1, <2>2 DEF AppendEvent, TypeOK
  <2>4. QED
    BY <2>1, <2>2, <2>3 DEF NoEvents
<1>3. ASSUME step[q] = "append", req'[q] = req[q], events' = events
      PROVE  NoEvents(req[q].task)'
  BY <1>0, <1>3 DEF Unlogged, NoEvents
<1>4. ASSUME NEW p \in Actor, \E r \in Request : Begin(p, r)
      PROVE  NoEvents(req[q].task)'
  BY <1>0, <1>3, <1>4 DEF Begin, Goto, TypeOK, files
<1>5. ASSUME NEW p \in Actor,
             \/ Acquire(p) \/ TimeOut(p) \/ Check(p) \/ Unlock(p) \/ MarkRead(p)
             \/ MarkWrite(p) \/ Crash(p)
      PROVE  NoEvents(req[q].task)'
  <2>1. events' = events
    BY <1>5 DEF Acquire, TimeOut, Check, Unlock, MarkRead, MarkWrite, Crash, files
  <2>2. step'[q] = step[q] /\ req'[q] = req[q]
    BY <1>0, <1>5 DEF Acquire, TimeOut, Check, Unlock, MarkRead, MarkWrite, Crash,
                      Goto, Return, TypeOK
  <2>3. QED
    BY <1>3, <2>1, <2>2
<1>6. ASSUME UNCHANGED <<step, req, events>> PROVE NoEvents(req[q].task)'
  BY <1>3, <1>6
<1>7. ASSUME NEW t \in Task, Lapse(t) \/ RecoverLock(t)
      PROVE  UNCHANGED <<step, req, events>>
  BY <1>7 DEF Lapse, RecoverLock, files, local
<1>8. QED
  BY <1>1, <1>2, <1>4, <1>5, <1>6, <1>7 DEF Moves, Asks, Environment, Step, vars

LEMMA Invariance == Spec => []IInv
<1>1. IInv /\ [Next]_vars => IInv'
  <2> SUFFICES ASSUME IInv, [Next]_vars PROVE IInv'
    OBVIOUS
  <2>1. Core /\ [Moves]_vars
    BY NextMoves DEF IInv, Core
  <2>2. Core'
    BY <2>1, CoreStep
  <2>3. QED
    BY <2>1, <2>2, LeaseStep, EventStep, UnloggedStep DEF IInv
<1>2. QED
  BY InitIInv, <1>1, PTL DEF Spec

-----------------------------------------------------------------------------
\* The files and the calls on them keep their types: no claim without an owner,
\* no token but a drawn one, no field lost in a rewrite.
THEOREM TypeCorrect == Spec => []TypeOK
<1>1. IInv => TypeOK
  BY DEF IInv, Core
<1>2. QED
  BY Invariance, <1>1, PTL

\* For any number of processes, workers, tasks, claims and crashes, no call takes
\* a task from a worker whose lease is neither lapsed nor handed back.
THEOREM LeasesStand == Spec => []LiveLeaseStands
<1>1. IInv => LiveLeaseStands
  BY DEF IInv
<1>2. QED
  BY Invariance, <1>1, PTL

\* The event log never holds an end that the task did not have, nor two ends.
THEOREM LogTrue == Spec => []EventsMatchOutcome
<1>1. IInv => EventsMatchOutcome
  BY DEF IInv
<1>2. QED
  BY Invariance, <1>1, PTL

\* Every write of a task file builds on the version that it replaces.
THEOREM UpdatesKept == Spec => NoLostUpdate
<1>1. ASSUME IInv, [Next]_vars, task' # task, NEW t \in Task, task'[t] # task[t]
      PROVE  task'[t].version = task[t].version + 1
  <2>0. Core /\ TypeOK /\ [Moves]_vars
    BY <1>1, NextMoves DEF IInv, Core
  <2>1. PICK p \in Actor : WriteTask(p)
    BY <1>1, <2>0, OtherSteps DEF AppendEvent, Lapse, files
  <2>2. QED
    BY <1>1, <2>0, <2>1, WriteEffect, RequestFields DEF TypeOK
<1>2. IInv /\ [Next]_vars =>
        [\A t \in Task :
           task'[t] # task[t] => task'[t].version = task[t].version + 1]_task
  BY <1>1
<1>3. QED
  BY Invariance, <1>2, PTL DEF Spec, NoLostUpdate

\* Nothing changes the status or the owner of a finished task.
THEOREM FinalityHolds == Spec => FinishedForGood
<1>1. ASSUME IInv, [Next]_vars, task' # task, NEW t \in Task,
             task[t].status \in Terminal
      PROVE  task'[t].status = task[t].status /\ task'[t].owner = task[t].owner
  <2>0. Core /\ TypeOK /\ [Moves]_vars
    BY <1>1, NextMoves DEF IInv, Core
  <2>1. PICK p \in Actor : WriteTask(p)
    BY <1>1, <2>0, OtherSteps DEF AppendEvent, Lapse, files
  <2>2. QED
    BY <1>1, <2>0, <2>1, WriteEffect, RequestFields DEF TypeOK
<1>2. IInv /\ [Next]_vars =>
        [\A t \in Task : task[t].status \in Terminal =>
           /\ task'[t].status = task[t].status
           /\ task'[t].owner = task[t].owner]_task
  BY <1>1
<1>3. QED
  BY Invariance, <1>2, PTL DEF Spec, FinishedForGood

\* When a task is written as started, all it depends on is completed, although
\* its dependencies were read earlier and without their locks.
THEOREM StartIsReady == Spec => StartsWhenReady
<1>1. ASSUME IInv, [Next]_vars, task' # task, NEW t \in Task,
             task'[t].status = "in_progress", task[t].status # "in_progress"
      PROVE  Ready(t)
  <2>0. Core /\ TypeOK /\ [Moves]_vars
    BY <1>1, NextMoves DEF IInv, Core
  <2>1. PICK p \in Actor : WriteTask(p)
    BY <1>1, <2>0, OtherSteps DEF AppendEvent, Lapse, files
  <2>2. t = req[p].task /\ task'[t] = Updated(p)
    BY <1>1, <2>0, <2>1, WriteEffect, RequestFields DEF TypeOK
  <2>3. QED
    BY <1>1, <2>0, <2>1, <2>2, WriteEffect
<1>2. IInv /\ [Next]_vars =>
        [\A t \in Task :
           task'[t].status = "in_progress" /\ task[t].status # "in_progress"
             => Ready(t)]_task
  BY <1>1
<1>3. QED
  BY Invariance, <1>2, PTL DEF Spec, StartsWhenReady

-----------------------------------------------------------------------------
(* The calls implement the board.                                          *)

\* The board, as Board takes it from the tasks.
Shown == [t \in Task |-> OnBoard(task[t])]

OnBoardRecord == [status : TaskStatus, owner : Worker \cup {None}, deps : SUBSET Task,
                  lease : Token \cup {None}]

LEMMA OnBoardType ==
  ASSUME NEW v \in TaskRecord
  PROVE  /\ OnBoard(v) \in OnBoardRecord
         /\ OnBoard(v).status = v.status /\ OnBoard(v).owner = v.owner
         /\ OnBoard(v).deps = v.deps
         /\ OnBoard(v).lease = IF v.claim = None THEN None ELSE v.claim.token
<1>1. v.claim # None => v.claim.token \in Token
  BY DEF TaskRecord, Claim
<1>2. QED
  BY <1>1 DEF TaskRecord, OnBoard, OnBoardRecord

\* A write shows on the board as a change of the fields that its call is about, on
\* a task that is as the abstract action of that call demands.
LEMMA WriteOnBoard ==
  ASSUME Core, NEW p \in Actor, WriteTask(p)
  PROVE  LET r == req[p]
             v == task[r.task]
             b == OnBoard(v)
             w == OnBoard(Updated(p))
         IN /\ r.op = "claim" =>
                 /\ Ready(r.task) /\ Claimable(v, r.worker)
                 /\ w = [b EXCEPT !.status = "in_progress", !.owner = r.worker,
                                  !.lease = issued + 1]
            /\ r.op \in {"end", "release"} => b.lease # None /\ b.lease = r.token
            /\ r.op = "end" => w = [b EXCEPT !.status = r.to, !.lease = None]
            /\ r.op = "reclaim" => b.lease # None /\ b.lease \in lapsed
            /\ r.op \in {"release", "reclaim"} =>
                 w = [b EXCEPT !.status = "pending", !.owner = None, !.lease = None]
            /\ r.op = "update" => w = [b EXCEPT !.deps = r.deps]
            /\ r.op = "touch" => w = b
<1> DEFINE r == req[p]
           v == task[r.task]
           u == [v EXCEPT !.version = @ + 1]
           w == Updated(p)
<1>1. /\ r \in Request /\ view[p] = v /\ Cleared(r, v)
      /\ r.op = "claim" => issued < MaxToken
  BY DEF Core, CallInv, WriteTask, Locked
<1>2. r.task \in Task /\ v \in TaskRecord
  BY <1>1, RequestFields DEF Core, TypeOK
<1>3. /\ u \in TaskRecord /\ OnBoard(u) = OnBoard(v)
      /\ w \in TaskRecord /\ None \in Worker \cup {None} /\ None \in Token \cup {None}
  BY <1>2, WriteEffect DEF TaskRecord, OnBoard
<1>4. v.claim # None => v.claim.token # None
  BY <1>2, AbsentAssumption DEF TaskRecord, Claim
<1>5. r.op \in {"end", "release"} => OnBoard(v).lease # None /\ OnBoard(v).lease = r.token
  BY <1>1, <1>4 DEF Cleared, OnBoard
<1>6. r.op = "reclaim" => OnBoard(v).lease # None /\ OnBoard(v).lease \in lapsed
  BY <1>1, <1>4 DEF Cleared, ReclaimAllowed, Expired, OnBoard
<1>7. r.op = "claim" => Ready(r.task) /\ Claimable(v, r.worker)
  BY <1>1 DEF Cleared
<1> HIDE DEF r, v, u, w
<1>8. ASSUME r.op = "claim"
      PROVE  OnBoard(w) = [OnBoard(u) EXCEPT !.status = "in_progress",
                             !.owner = r.worker, !.lease = issued + 1]
  <2> DEFINE c == [owner |-> r.worker, token |-> issued + 1]
  <2>1. w = [u EXCEPT !.status = "in_progress", !.owner = r.worker, !.claim = c]
    BY <1>1, <1>8 DEF Updated, Granted, r, v, u, w
  <2>2. c \in Claim /\ c.token = issued + 1
    BY <1>1, <1>8, RequestFields, BoundAssumption DEF Core, TypeOK, Token, Claim
  <2> HIDE DEF c
  <2>3. c # None
    BY <2>2, AbsentAssumption
  <2>4. /\ w.status = "in_progress" /\ w.owner = r.worker /\ w.claim = c
        /\ w.deps = u.deps
    BY <1>3, <2>1 DEF TaskRecord
  <2>5. issued + 1 \in Token \cup {None} /\ r.worker \in Worker \cup {None}
        /\ "in_progress" \in TaskStatus
    BY <1>1, <1>8, <2>2, RequestFields DEF Claim, TaskStatus
  <2>6. /\ OnBoard(u) \in OnBoardRecord /\ OnBoard(w) \in OnBoardRecord
        /\ OnBoard(w).status = "in_progress" /\ OnBoard(w).owner = r.worker
        /\ OnBoard(w).lease = issued + 1 /\ OnBoard(w).deps = OnBoard(u).deps
    BY <1>3, <2>2, <2>3, <2>4, OnBoardType
  <2>7. QED
    BY <2>5, <2>6 DEF OnBoardRecord
<1>9. ASSUME r.op = "end"
      PROVE  OnBoard(w) = [OnBoard(u) EXCEPT !.status = r.to, !.lease = None]
  <2>1. w = [u EXCEPT !.status = r.to, !.claim = None]
    BY <1>1, <1>9 DEF Updated, r, v, u, w
  <2>2. w.status = r.to /\ w.owner = u.owner /\ w.claim = None /\ w.deps = u.deps
    BY <1>3, <2>1 DEF TaskRecord
  <2>3. r.to \in TaskStatus
    BY <1>1, <1>9, RequestFields DEF TaskStatus, Terminal
  <2>4. /\ OnBoard(u) \in OnBoardRecord /\ OnBoard(w) \in OnBoardRecord
        /\ OnBoard(w).status = r.to /\ OnBoard(w).owner = OnBoard(u).owner
        /\ OnBoard(w).lease = None /\ OnBoard(w).deps = OnBoard(u).deps
    BY <1>3, <2>2, OnBoardType
  <2>5. QED
    BY <1>3, <2>3, <2>4 DEF OnBoardRecord
<1>10. ASSUME r.op \in {"release", "reclaim"}
       PROVE  OnBoard(w) = [OnBoard(u) EXCEPT !.status = "pending", !.owner = None,
                              !.lease = None]
  <2>1. w = [u EXCEPT !.status = "pending", !.owner = None, !.claim = None]
    BY <1>1, <1>10 DEF Updated, r, v, u, w
  <2>2. w.status = "pending" /\ w.owner = None /\ w.claim = None /\ w.deps = u.deps
    BY <1>3, <2>1 DEF TaskRecord
  <2>3. "pending" \in TaskStatus
    BY DEF TaskStatus
  <2>4. /\ OnBoard(u) \in OnBoardRecord /\ OnBoard(w) \in OnBoardRecord
        /\ OnBoard(w).status = "pending" /\ OnBoard(w).owner = None
        /\ OnBoard(w).lease = None /\ OnBoard(w).deps = OnBoard(u).deps
    BY <1>3, <2>2, OnBoardType
  <2>5. QED
    BY <1>3, <2>3, <2>4 DEF OnBoardRecord
<1>11. ASSUME r.op = "update" PROVE OnBoard(w) = [OnBoard(u) EXCEPT !.deps = r.deps]
  <2>1. w = [u EXCEPT !.deps = r.deps]
    BY <1>1, <1>11 DEF Updated, r, v, u, w
  <2>2. QED
    BY <1>3, <2>1 DEF OnBoard, TaskRecord
<1>12. ASSUME r.op = "touch" PROVE OnBoard(w) = OnBoard(u)
  BY <1>1, <1>12 DEF Updated, r, v, u, w
<1>13. QED
  BY <1>3, <1>5, <1>6, <1>7, <1>8, <1>9, <1>10, <1>11, <1>12 DEF r, v, w

\* At first the board shows the tasks as they were created.
LEMMA InitOnBoard == Init => Board!Init
<1> SUFFICES ASSUME Init PROVE Board!Init
  OBVIOUS
<1>1. PICK init \in InitTasks :
        task = [t \in Task |->
                  [status |-> init[t].status, owner |-> init[t].owner,
                   claim |-> None, deps |-> init[t].deps, version |-> 1]]
  BY DEF Init
<1>2. \A t \in Task : init[t] \in [status : {"pending", "blocked"},
                                   owner : Worker \cup {None}, deps : SUBSET Task]
  BY InitAssumption
<1>3. \A t \in Task :
        OnBoard(task[t]) \in [status : {"pending", "blocked"}, owner : Worker \cup {None},
                              lease : {None}, deps : SUBSET Task]
  BY <1>1, <1>2 DEF OnBoard
<1>4. QED
  BY <1>3 DEF Init, Board!Init

\* A write is one action of the board, or none.
LEMMA WriteRefines ==
  ASSUME Core, NEW p \in Actor, WriteTask(p)
  PROVE  [Board!Next]_(Board!bvars)
<1> DEFINE r == req[p]
           t == r.task
           v == task[t]
           b == OnBoard(v)
           w == OnBoard(Updated(p))
<1>1. /\ r \in Request /\ t \in Task /\ v \in TaskRecord
      /\ task \in [Task -> TaskRecord] /\ task' = [task EXCEPT ![t] = Updated(p)]
  BY WriteEffect, RequestFields DEF Core, TypeOK
<1>2. Shown[t] = b /\ Shown' = [Shown EXCEPT ![t] = w]
  BY <1>1 DEF Shown
<1>3. /\ b.status = v.status /\ b.owner = v.owner /\ b.deps = v.deps
      /\ b.lease = IF v.claim = None THEN None ELSE v.claim.token
      /\ v.claim # None => v.claim.token # None
  BY <1>1, AbsentAssumption DEF OnBoard, TaskRecord, Claim
<1>4. /\ lapsed' = lapsed
      /\ issued' = IF r.op = "claim" THEN issued + 1 ELSE issued
      /\ spent' = IF r.op \in {"end", "release"} THEN spent \cup {r.token} ELSE spent
  BY DEF WriteTask
<1>5. CASE r.op = "claim"
  <2>1. /\ Ready(t) /\ Claimable(v, r.worker) /\ r.worker \in Worker
        /\ w = [b EXCEPT !.status = "in_progress", !.owner = r.worker,
                         !.lease = issued + 1]
    BY <1>1, <1>5, WriteOnBoard, RequestFields
  <2>2. Board!Ready(t)
    BY <1>1, <2>1 DEF Ready, Board!Ready, OnBoard, TaskRecord
  <2>3. \/ Board!Waiting(t) /\ Shown[t].owner \in {None, r.worker}
        \/ Board!Abandoned(t)
    BY <1>1, <1>2, <1>3, <2>1
    DEF Claimable, Expired, Board!Waiting, Board!Abandoned, Board!Leased, Shown
  <2>4. Board!Take(t, r.worker)
    BY <1>2, <1>4, <1>5, <2>1, <2>2, <2>3 DEF Board!Take, Shown
  <2>5. QED
    BY <1>1, <2>1, <2>4 DEF Board!Next
<1>6. CASE r.op = "end"
  <2>1. /\ b.lease # None /\ b.lease = r.token /\ r.to \in {"completed", "failed"}
        /\ w = [b EXCEPT !.status = r.to, !.lease = None]
    BY <1>1, <1>6, WriteOnBoard, RequestFields DEF Terminal
  <2>2. Board!End(t, r.to)
    BY <1>1, <1>2, <1>4, <1>6, <2>1 DEF Board!End, Board!Leased, Shown
  <2>3. QED
    BY <1>1, <2>1, <2>2 DEF Board!Next
<1>7. CASE r.op \in {"release", "reclaim"}
  <2>1. /\ b.lease # None
        /\ w = [b EXCEPT !.status = "pending", !.owner = None, !.lease = None]
        /\ r.op = "release" => b.lease = r.token
        /\ r.op = "reclaim" => b.lease \in lapsed
    BY <1>1, <1>7, WriteOnBoard
  <2>2. \/ spent' = spent \cup {Shown[t].lease}
        \/ Board!Abandoned(t) /\ spent' = spent
    BY <1>1, <1>2, <1>4, <1>7, <2>1 DEF Board!Abandoned, Board!Leased, Shown
  <2>3. Board!PutBack(t)
    BY <1>1, <1>2, <1>4, <1>7, <2>1, <2>2 DEF Board!PutBack, Board!Leased, Shown
  <2>4. QED
    BY <1>1, <2>3 DEF Board!Next
<1>8. CASE r.op = "update"
  <2>1. w = [b EXCEPT !.deps = r.deps] /\ r.deps \in SUBSET Task
    BY <1>1, <1>8, WriteOnBoard, RequestFields
  <2>2. Board!Edit(t, r.deps)
    BY <1>2, <1>4, <1>8, <2>1 DEF Board!Edit, Shown
  <2>3. QED
    BY <1>1, <2>1, <2>2 DEF Board!Next
<1>9. CASE r.op = "touch"
  <2>1. w = b
    BY <1>9, WriteOnBoard
  <2>2. Shown' = Shown
    BY <1>1, <1>2, <2>1 DEF Shown
  <2>3. QED
    BY <1>4, <1>9, <2>2 DEF Board!bvars, Shown
<1>10. QED
  BY <1>1, <1>5, <1>6, <1>7, <1>8, <1>9, RequestFields

LEMMA StepRefines == Core /\ [Moves]_vars => [Board!Next]_(Board!bvars)
<1> SUFFICES ASSUME Core, [Moves]_vars PROVE [Board!Next]_(Board!bvars)
  OBVIOUS
<1>1. ASSUME NEW t \in Task, Lapse(t) PROVE Board!Next
  <2>1. task[t].claim # None => task[t].claim.token # None
    BY AbsentAssumption DEF Core, TypeOK, TaskRecord, Claim
  <2>2. Board!Lapse(t)
    BY <1>1, <2>1 DEF Lapse, Board!Lapse, Board!Leased, OnBoard, files, history
  <2>3. QED
    BY <2>2 DEF Board!Next
<1>2. ASSUME NEW p \in Actor, AppendEvent(p) PROVE UNCHANGED Board!bvars
  BY <1>2 DEF AppendEvent, Board!bvars, history
<1>3. CASE UNCHANGED <<task, issued, lapsed, spent>>
  BY <1>3 DEF Board!bvars
<1>4. QED
  BY <1>1, <1>2, <1>3, WriteRefines, OtherSteps

\* For any number of processes, workers, tasks, claims and crashes, the calls take
\* effect as if each were carried out alone and at once on the board.
THEOREM Refinement == Spec => ImplementsBoard
<1>1. IInv /\ [Next]_vars => [Board!Next]_(Board!bvars)
  BY NextMoves, StepRefines DEF IInv, Core
<1>2. QED
  BY InitOnBoard, Invariance, <1>1, PTL DEF Spec, ImplementsBoard, Board!Spec
=============================================================================
