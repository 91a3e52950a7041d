------------------------ MODULE DispatchQueueProofs ------------------------
(***************************************************************************)
(* Theorems about DispatchQueue, for any requests, hooks, teams and number *)
(* of attempts.  Each invariant rests on those before it:                  *)
(*                                                                         *)
(*   TInv  types, and who holds the lock at which point                    *)
(*   LInv  a hook at work holds the lease of its request                   *)
(*   RInv  whoever is to report a request as typed has typed it            *)
(*   BInv  what the engine, dispatch.json and the list that a holder of    *)
(*         the lock has read may differ in, while every exec that takes    *)
(*         effect also renders its view                                    *)
(*   FInv  until a mishap, dispatch.json is ahead of the engine            *)
(*   AInv  the attempt counts of the view cover what the hooks have typed  *)
(*   OInv  nobody is about to make a twin of a pending request             *)
(***************************************************************************)
EXTENDS DispatchQueue, TLAPS

-----------------------------------------------------------------------------
(* The invariants.                                                          *)

\* How far an entry's attempts may have got.
Bounded(e) ==
  /\ e.status = "pending" => e.attempts < MaxAttempts
  /\ e.status = "notified" => e.attempts <= MaxAttempts
  /\ e.status \in {"none", "delivered"} => e.attempts = 0

HookFits(h) ==
  /\ hook[h].pc # "idle" => hook[h].req \in Requests
  /\ hook[h].pc \in {"finalize", "record", "write"} <=> hook[h].res # "none"
  /\ hook[h].pc \in {"record", "write"} => list[hook[h].req].status = "pending"

SenderFits(s) ==
  /\ snd[s].pc \in {"transition", "write"} => snd[s].to \in {"notified", "failed"}
  /\ snd[s].pc = "write" => MayTransition(s, list[Req(s)].status)

TInv ==
  /\ TypeOK
  /\ \A r \in Requests : Bounded(view[r]) /\ Bounded(list[r])
  /\ \A h \in Hook : HookFits(h)
  /\ \A s \in Sender : SenderFits(s)

LInv ==
  "lapsed" \notin mishap =>
    \A h \in Hook, r \in Requests : Working(h, r) => lease[r] = h

Typed(r) == typed[r] > 0 \/ r \in direct
Told(status) == status \in {"notified", "delivered"}

\* A sender that is to mark its request as notified.
Reporting(s) ==
  \/ snd[s].pc \in {"mark", "markExec"}
  \/ snd[s].pc \in {"transition", "write"} /\ snd[s].to = "notified"

RInv ==
  /\ \A r \in Requests :
       Told(engine.dispatch[r]) \/ Told(view[r].status) \/ Told(list[r].status) => Typed(r)
  /\ \A s \in Sender : Reporting(s) => Typed(Req(s))
  /\ \A h \in Hook : hook[h].res = "confirmed" => Typed(hook[h].req)

\* A request that its sender has not queued yet is nowhere.
Unknown(r) ==
  /\ engine.dispatch[r] = "none" /\ view[r].status = "none" /\ list[r].status = "none"
  /\ typed[r] = 0 /\ \A h \in Hook : ~Working(h, r)

\* A hook has told the engine of its result and is to write it down.
Recorded(h) ==
  /\ hook[h].pc = "write"
  /\ view = Rendered(engine)
  /\ engine.dispatch[hook[h].req] = FinalEntry(h).status

BInv ==
  "unreported" \notin mishap =>
    /\ \A s \in Sender : snd[s].pc \in {"idle", "queue", "push"} => Unknown(s)
    /\ \A r \in Requests : engine.dispatch[r] # "none" =>
         view[r].status # "none" /\ (lock # Nobody => list[r].status # "none")
    /\ lock # Nobody => view = list \/ view = Rendered(engine)
    /\ lock # Nobody /\ ~dirty => view = list \/ \E h \in Hook : Recorded(h)

Smooth == mishap \cap {"behind", "stale", "unreported", "unqueued"} = {}

\* The status v is one that the status e of the engine may have led to.
Ahead(v, e) == (v = "none" <=> e = "none") /\ Forward(e, v)

FInv ==
  Smooth =>
    /\ \A r \in Requests : Ahead(view[r].status, engine.dispatch[r])
    /\ \A h \in Hook : hook[h].pc = "write" /\ ~dirty =>
         \A r \in Requests \ {hook[h].req} : Ahead(list[r].status, engine.dispatch[r])

Steady == mishap \subseteq {"unqueued"}

\* A count covers what was typed, but for what a hook has typed just now.
Covered(e, r) ==
  e.status = "pending" =>
    \/ typed[r] <= e.attempts
    \/ /\ typed[r] <= e.attempts + 1
       /\ \E h \in Hook : Working(h, r) /\ hook[h].res # "none"

AInv ==
  Steady =>
    /\ \A r \in Requests : typed[r] <= MaxAttempts
    /\ \A h \in Hook : hook[h].pc \in {"claim", "inject"} => typed[hook[h].req] < MaxAttempts
    /\ (\A h \in Hook : hook[h].pc # "write") => \A r \in Requests : Covered(view[r], r)
    /\ lock # Nobody => \A r \in Requests : Covered(list[r], r)

Sane == mishap \cap {"behind", "stale", "unqueued"} = {}

Twins(q, r) == q # r /\ {<<q, r>>, <<r, q>>} \subseteq Equivalent

OnePending(v) ==
  \A q, r \in Requests :
    Twins(q, r) => ~(v[q].status = "pending" /\ v[r].status = "pending")

OInv ==
  Sane =>
    /\ OnePending(view) /\ OnePending(list)
    /\ \A s \in Sender : snd[s].pc \in {"queue", "push"} =>
         \A q \in Requests : Twins(q, s) =>
           view[q].status # "pending" /\ list[q].status # "pending"
    /\ \A r \in Requests : engine.dispatch[r] # "none" /\ snd[r].pc # "push" =>
         view[r].status # "none" /\ (lock # Nobody => list[r].status # "none")
-----------------------------------------------------------------------------
(* Types.                                                                   *)

SenderState == [pc : SenderPc, req : Requests, from : DispatchStatus, to : DispatchStatus]
HookState == [pc : HookPc, req : Requests \cup {Nobody}, res : Results]

\* Everybody but x goes on with what he held.
Only(f, x) == \A y \in DOMAIN f : y # x => f'[y] = f[y]

LEMMA CommandType ==
  ASSUME NEW op \in DispatchOps, NEW r \in Requests
  PROVE  DispatchCommand(op, r) \in Command
BY DEF DispatchCommand, Command

\* The engine keeps its types.
LEMMA NewEngineType == NewEngine \in EngineState
BY DEF NewEngine, EngineState

LEMMA ApplyType ==
  ASSUME NEW s \in EngineState, NEW c \in Command
  PROVE  Apply(s, c) \in EngineState
BY DEF Apply, EngineState, Command, Pushed, DispatchOps, MailOps, DispatchStatus, Unfinished,
   Finished, MailStatus

\* An exec keeps the types, and what it renders has no attempts.
LEMMA RenderedType ==
  ASSUME NEW e \in EngineState
  PROVE  Rendered(e) \in [Requests -> Entry] /\ \A r \in Requests : Bounded(Rendered(e)[r])
BY AttemptsAssumption DEF Rendered, EngineState, Entry, Bounded

LEMMA AcceptedType ==
  ASSUME engine \in EngineState, NEW c \in Command, Accepted(c)
  PROVE  /\ engine' \in EngineState /\ view' \in [Requests -> Entry]
         /\ \A r \in Requests : Bounded(view'[r])
BY ApplyType, RenderedType DEF Accepted

LEMMA FailedType ==
  ASSUME TypeOK, NEW c \in Command, Failed(c), team' = team
  PROVE  /\ engine' \in EngineState /\ view' = view /\ faults' \in 0 .. team.maxFaults
         /\ mishap' \in {mishap, mishap \cup {"unreported"}}
<1>1. faults \in 0 .. team.maxFaults /\ team.maxFaults \in Nat /\ engine \in EngineState
  BY TeamsAssumption DEF TypeOK
<1>2. Apply(engine, c) \in EngineState
  BY <1>1, ApplyType
<1> QED BY <1>1, <1>2 DEF Failed, Refused, NotRun, RunUnreported

LEMMA LostType == \A v, e : LostBy(v, e) \subseteq Mishaps
BY DEF LostBy, Mishaps

\* What a sender or a hook does to its own state.
LEMMA SenderGoes ==
  ASSUME snd \in [Sender -> SenderState], NEW s \in Sender, NEW where \in SenderPc,
         snd' = [snd EXCEPT ![s].pc = where]
  PROVE  /\ snd' \in [Sender -> SenderState]
         /\ snd'[s].pc = where /\ snd'[s].req = snd[s].req
         /\ snd'[s].from = snd[s].from /\ snd'[s].to = snd[s].to
         /\ Only(snd, s)
BY DEF SenderState, Only

Planned(s, from, to) ==
  [snd EXCEPT ![s].pc = "transition", ![s].from = from, ![s].to = to]

LEMMA SenderPlans ==
  ASSUME snd \in [Sender -> SenderState], NEW s \in Sender,
         NEW from \in DispatchStatus, NEW to \in DispatchStatus,
         snd' = Planned(s, from, to)
  PROVE  /\ snd' \in [Sender -> SenderState]
         /\ snd'[s].pc = "transition" /\ snd'[s].req = snd[s].req
         /\ snd'[s].from = from /\ snd'[s].to = to
         /\ Only(snd, s)
BY DEF SenderState, Only, SenderPc, Planned

LEMMA HookGoes ==
  ASSUME hook \in [Hook -> HookState], NEW h \in Hook, NEW where \in HookPc,
         hook' = [hook EXCEPT ![h].pc = where]
  PROVE  /\ hook' \in [Hook -> HookState]
         /\ hook'[h].pc = where /\ hook'[h].req = hook[h].req /\ hook'[h].res = hook[h].res
         /\ Only(hook, h)
BY DEF HookState, Only

LEMMA HookEnds ==
  ASSUME hook \in [Hook -> HookState], NEW h \in Hook, EndTick(h)
  PROVE  /\ hook' \in [Hook -> HookState]
         /\ hook'[h].pc = "idle" /\ hook'[h].req = Nobody /\ hook'[h].res = "none"
         /\ Only(hook, h)
BY DEF HookState, Only, EndTick, HookPc, Results

\* What the holder of the lock reads and writes keeps the types.
LEMMA ReadTypes ==
  ASSUME TInv, NEW p \in Sender \cup Hook, LockAndRead(p)
  PROVE  /\ lock = Nobody /\ lock' = p /\ list' = view /\ dirty' = FALSE
         /\ list' \in [Requests -> Entry] /\ \A r \in Requests : Bounded(list'[r])
         /\ \A s \in Sender : snd[s].pc \notin {"queue", "push", "write"}
         /\ \A h \in Hook : hook[h].pc \notin {"claim", "record", "write"}
BY HookAssumption DEF LockAndRead, TInv, TypeOK, Sender

LEMMA UnlockTypes ==
  ASSUME Unlock
  PROVE  /\ lock' = Nobody /\ list' = NoList /\ dirty' = FALSE
         /\ list' \in [Requests -> Entry] /\ \A r \in Requests : Bounded(list'[r])
BY AttemptsAssumption DEF Unlock, NoList, Absent, Entry, Bounded

LEMMA WriteTypes ==
  ASSUME TInv, NEW r \in Requests, NEW entry \in Entry, Bounded(entry),
         NEW more \in SUBSET Mishaps, WriteListAndUnlock(r, entry, more)
  PROVE  /\ view' \in [Requests -> Entry] /\ \A q \in Requests : Bounded(view'[q])
         /\ Unlock /\ mishap' \subseteq Mishaps
BY DEF WriteListAndUnlock, TInv, TypeOK, Mishaps

\* The holder of the lock is alone.
LEMMA Alone ==
  ASSUME TInv
  PROVE  /\ \A s \in Sender : snd[s].pc \in {"queue", "push", "write"} =>
              /\ lock = s
              /\ \A x \in Sender \ {s} : snd[x].pc \notin {"queue", "push", "write"}
              /\ \A h \in Hook : hook[h].pc \notin {"claim", "record", "write"}
         /\ \A h \in Hook : hook[h].pc \in {"claim", "record", "write"} =>
              /\ lock = h
              /\ \A k \in Hook \ {h} : hook[k].pc \notin {"claim", "record", "write"}
              /\ \A s \in Sender : snd[s].pc \notin {"queue", "push", "write"}
BY HookAssumption DEF TInv, TypeOK, Sender

\* A step that leaves engine, view, list and lock alone.
LEMMA QuietTypes ==
  ASSUME TInv, team' = team, UNCHANGED <<engine, view, list, lock, dirty>>,
         snd' \in [Sender -> SenderState], hook' \in [Hook -> HookState],
         lease' \in [Requests -> Hook \cup {Nobody}], faults' \in 0 .. team.maxFaults,
         typed' \in [Requests -> 0 .. MaxAttempts + 1], direct' \subseteq Requests,
         mishap' \subseteq Mishaps,
         \A s \in Sender : snd'[s] = snd[s] \/
           /\ snd'[s].pc \notin {"queue", "push", "write"}
           /\ snd'[s].pc = "transition" => snd'[s].to \in {"notified", "failed"},
         \A h \in Hook : hook'[h] = hook[h] \/
           /\ hook'[h].pc \notin {"claim", "record", "write"}
           /\ hook'[h].pc # "idle" => hook'[h].req \in Requests
           /\ hook'[h].pc = "finalize" <=> hook'[h].res # "none"
  PROVE  TInv'
<1>1. TypeOK'
  BY DEF TInv, TypeOK, SenderState, HookState
<1>2. \A r \in Requests : Bounded(view'[r]) /\ Bounded(list'[r])
  BY DEF TInv
<1>3. \A h \in Hook : HookFits(h)'
  BY DEF TInv, HookFits
<1>4. \A s \in Sender : SenderFits(s)'
  BY DEF TInv, SenderFits, MayTransition, Req
<1> QED BY <1>1, <1>2, <1>3, <1>4 DEF TInv, Bounded

\* A step that reads the list under the lock, or that unlocks: then nobody else
\* is at a point where he holds the lock.
LEMMA LockTypes ==
  ASSUME TInv, team' = team, NEW p \in Sender \cup Hook,
         LockAndRead(p) \/ (Unlock /\ lock = p),
         engine' \in EngineState, view' \in [Requests -> Entry],
         \A r \in Requests : Bounded(view'[r]),
         snd' \in [Sender -> SenderState], hook' \in [Hook -> HookState],
         lease' \in [Requests -> Hook \cup {Nobody}], faults' \in 0 .. team.maxFaults,
         typed' \in [Requests -> 0 .. MaxAttempts + 1], direct' \subseteq Requests,
         mishap' \subseteq Mishaps,
         \A s \in Sender : \/ p # s /\ snd'[s] = snd[s]
                           \/ /\ snd'[s].pc \in {"queue", "push", "write"} => lock' = s
                              /\ SenderFits(s)',
         \A h \in Hook : \/ p # h /\ hook'[h] = hook[h]
                         \/ /\ hook'[h].pc \in {"claim", "record", "write"} => lock' = h
                            /\ HookFits(h)'
  PROVE  TInv'
<1>1. /\ lock' \in {p, Nobody} /\ dirty' = FALSE /\ list' \in [Requests -> Entry]
      /\ \A r \in Requests : Bounded(list'[r])
  BY ReadTypes, UnlockTypes
<1>2. /\ \A s \in Sender \ {p} : snd[s].pc \notin {"queue", "push", "write"}
      /\ \A h \in Hook \ {p} : hook[h].pc \notin {"claim", "record", "write"}
  <2>1. lock \in {p, Nobody}
    BY DEF LockAndRead
  <2> QED BY <2>1, HookAssumption DEF TInv, TypeOK, Sender
<1>3. /\ \A s \in Sender : snd'[s].pc \in {"queue", "push", "write"} => lock' = s
      /\ \A h \in Hook : hook'[h].pc \in {"claim", "record", "write"} => lock' = h
  BY <1>2
<1>4. TypeOK'
  BY <1>1, <1>3 DEF TInv, TypeOK, SenderState, HookState
<1>5. \A s \in Sender : SenderFits(s)'
  BY <1>2 DEF TInv, SenderFits
<1>6. \A h \in Hook : HookFits(h)'
  BY <1>2 DEF TInv, HookFits
<1> QED BY <1>1, <1>4, <1>5, <1>6 DEF TInv, Bounded

LEMMA SenderLockTypes ==
  ASSUME TInv, team' = team, NEW s \in Sender,
         LockAndRead(s) \/ (Unlock /\ lock = s),
         engine' \in EngineState, view' \in [Requests -> Entry],
         \A r \in Requests : Bounded(view'[r]),
         snd' \in [Sender -> SenderState], Only(snd, s), hook' = hook, lease' = lease,
         faults' \in 0 .. team.maxFaults, typed' = typed, direct' = direct,
         mishap' \subseteq Mishaps,
         snd'[s].pc \in {"queue", "push", "write"} => lock' = s, SenderFits(s)'
  PROVE  TInv'
<1>1. /\ \A x \in Sender : s # x => snd'[x] = snd[x]
      /\ \A h \in Hook : s # h /\ hook'[h] = hook[h]
  BY HookAssumption DEF Only, TInv, TypeOK, Sender
<1>2. \A x \in Sender : \/ s # x /\ snd'[x] = snd[x]
                        \/ /\ snd'[x].pc \in {"queue", "push", "write"} => lock' = x
                           /\ SenderFits(x)'
  BY <1>1
<1>3. \A h \in Hook : \/ s # h /\ hook'[h] = hook[h]
                      \/ /\ hook'[h].pc \in {"claim", "record", "write"} => lock' = h
                         /\ HookFits(h)'
  BY <1>1
<1>4. /\ hook' \in [Hook -> HookState] /\ lease' \in [Requests -> Hook \cup {Nobody}]
      /\ typed' \in [Requests -> 0 .. MaxAttempts + 1] /\ direct' \subseteq Requests
  BY DEF TInv, TypeOK, HookState
<1> QED BY <1>2, <1>3, <1>4, LockTypes

LEMMA HookLockTypes ==
  ASSUME TInv, team' = team, NEW h \in Hook,
         LockAndRead(h) \/ (Unlock /\ lock = h),
         engine' = engine, view' \in [Requests -> Entry],
         \A r \in Requests : Bounded(view'[r]),
         hook' \in [Hook -> HookState], Only(hook, h), snd' = snd,
         lease' \in [Requests -> Hook \cup {Nobody}],
         faults' \in 0 .. team.maxFaults, typed' = typed, direct' = direct,
         mishap' \subseteq Mishaps,
         hook'[h].pc \in {"claim", "record", "write"} => lock' = h, HookFits(h)'
  PROVE  TInv'
<1>1. /\ \A x \in Hook : h # x => hook'[x] = hook[x]
      /\ \A s \in Sender : s # h /\ snd'[s] = snd[s]
  BY HookAssumption DEF Only, TInv, TypeOK, Sender
<1>2. \A x \in Hook : \/ h # x /\ hook'[x] = hook[x]
                      \/ /\ hook'[x].pc \in {"claim", "record", "write"} => lock' = x
                         /\ HookFits(x)'
  BY <1>1
<1>3. \A s \in Sender : \/ h # s /\ snd'[s] = snd[s]
                        \/ /\ snd'[s].pc \in {"queue", "push", "write"} => lock' = s
                           /\ SenderFits(s)'
  BY <1>1
<1>4. /\ snd' \in [Sender -> SenderState] /\ engine' \in EngineState
      /\ typed' \in [Requests -> 0 .. MaxAttempts + 1] /\ direct' \subseteq Requests
  BY DEF TInv, TypeOK, SenderState
<1> QED BY <1>2, <1>3, <1>4, LockTypes

LEMMA LeaseTypes ==
  ASSUME TypeOK, NEW h \in Hook, Release(h)
  PROVE  lease' \in [Requests -> Hook \cup {Nobody}]
BY DEF TypeOK, Release

LEMMA SenderTypes ==
  ASSUME TInv, team' = team, NEW s \in Sender, SenderStep(s)
  PROVE  TInv'
<1>0. /\ snd \in [Sender -> SenderState] /\ hook \in [Hook -> HookState]
      /\ TypeOK /\ Req(s) \in Requests /\ s \in Requests
      /\ \A h \in Hook : HookFits(h)
      /\ \A x \in Sender : SenderFits(x)
      /\ \A r \in Requests : Bounded(view[r]) /\ Bounded(list[r])
  BY DEF TInv, TypeOK, SenderState, HookState, Sender, Req
<1>1. CASE Deduplicate(s)
  <2>1. PICK q \in Requests :
          snd' = [snd EXCEPT ![s].req = q, ![s].pc = IF s \in Direct THEN "done" ELSE "wait"]
    BY <1>1 DEF Deduplicate
  <2>2. snd' \in [Sender -> SenderState] /\ snd'[s].pc \in {"done", "wait"} /\ Only(snd, s)
    BY <1>0, <2>1 DEF SenderState, SenderPc, Only
  <2> QED BY <1>0, <1>1, <2>2, QuietTypes DEF Deduplicate, TypeOK, Only
<1>2. CASE Receipt(s) \/ NoReceipt(s) \/ Mark(s)
  <2>1. PICK where \in {"done", "notify", "notifyFailed", "markExec", "fail"} :
          snd' = [snd EXCEPT ![s].pc = where]
    BY <1>2 DEF Receipt, NoReceipt, Mark, Goto
  <2>2. snd' \in [Sender -> SenderState] /\ snd'[s].pc = where /\ Only(snd, s)
    BY <1>0, <2>1, SenderGoes DEF SenderPc
  <2> QED BY <1>0, <1>2, <2>2, QuietTypes DEF Receipt, NoReceipt, Mark, TypeOK, Only
<1>3. CASE Notify(s)
  <2>1. PICK where \in {"mark", "fail"} : snd' = [snd EXCEPT ![s].pc = where]
    BY <1>3 DEF Notify, Goto
  <2>2. snd' \in [Sender -> SenderState] /\ snd'[s].pc = where /\ Only(snd, s)
    BY <1>0, <2>1, SenderGoes DEF SenderPc
  <2>3. direct' \subseteq Requests
    BY <1>0, <1>3 DEF Notify, TypeOK
  <2> QED BY <1>0, <1>3, <2>2, <2>3, QuietTypes DEF Notify, TypeOK, Only
<1>4. CASE NotifyFailed(s)
  <2>1. \/ snd' = [snd EXCEPT ![s].pc = "fail"]
        \/ snd' = [snd EXCEPT ![s].pc = "transition", ![s].from = "failed", ![s].to = "failed"]
    BY <1>4 DEF NotifyFailed, Goto
  <2>2. /\ snd' \in [Sender -> SenderState] /\ snd'[s].pc \in {"fail", "transition"}
        /\ snd'[s].pc = "transition" => snd'[s].to = "failed"
        /\ Only(snd, s)
    <3>1. CASE snd' = [snd EXCEPT ![s].pc = "fail"]
      <4>1. PICK where \in {"fail"} : snd' = [snd EXCEPT ![s].pc = where]
        BY <3>1
      <4>2. snd' \in [Sender -> SenderState] /\ snd'[s].pc = where /\ Only(snd, s)
        BY <1>0, <4>1, SenderGoes DEF SenderPc
      <4> QED BY <4>2
    <3>2. CASE snd' = [snd EXCEPT ![s].pc = "transition", ![s].from = "failed", ![s].to = "failed"]
      <4>1. snd' = Planned(s, "failed", "failed")
        BY <3>2 DEF Planned
      <4>2. "failed" \in DispatchStatus
        BY DEF DispatchStatus, Finished
      <4> QED BY <1>0, <4>1, <4>2, SenderPlans
    <3> QED BY <2>1, <3>1, <3>2
  <2>3. direct' \subseteq Requests
    BY <1>0, <1>4 DEF NotifyFailed, TypeOK
  <2> QED BY <1>0, <1>4, <2>2, <2>3, QuietTypes DEF NotifyFailed, TypeOK, Only
<1>5. CASE Fail(s)
  <2>1. \/ snd' = [snd EXCEPT ![s].pc = "done"]
        \/ /\ StatusOf(Req(s)) # "none"
           /\ snd' = [snd EXCEPT ![s].pc = "transition", ![s].from = StatusOf(Req(s)),
                                 ![s].to = "failed"]
    BY <1>5 DEF Fail, Goto
  <2>2. StatusOf(Req(s)) \in DispatchStatus \cup {"none"}
    BY <1>0 DEF StatusOf, TypeOK, Entry
  <2>3. /\ snd' \in [Sender -> SenderState] /\ snd'[s].pc \in {"done", "transition"}
        /\ snd'[s].pc = "transition" => snd'[s].to = "failed"
        /\ Only(snd, s)
    <3>1. CASE snd' = [snd EXCEPT ![s].pc = "done"]
      BY <1>0, <3>1, SenderGoes DEF SenderPc
    <3>2. CASE /\ StatusOf(Req(s)) # "none"
               /\ snd' = [snd EXCEPT ![s].pc = "transition", ![s].from = StatusOf(Req(s)),
                                     ![s].to = "failed"]
      <4>1. StatusOf(Req(s)) \in DispatchStatus /\ "failed" \in DispatchStatus
        BY <2>2, <3>2 DEF DispatchStatus, Finished
      <4>2. snd' = Planned(s, StatusOf(Req(s)), "failed")
        BY <3>2 DEF Planned
      <4> QED BY <1>0, <4>1, <4>2, SenderPlans
    <3> QED BY <2>1, <3>1, <3>2
  <2> QED BY <1>0, <1>5, <2>3, QuietTypes DEF Fail, TypeOK, Only
<1>6. CASE Enqueue(s)
  <2>1. LockAndRead(s) /\ snd' = [snd EXCEPT ![s].pc = "queue"]
        /\ UNCHANGED <<engine, view, lease, hook, faults, typed, direct, mishap>>
    BY <1>6 DEF Enqueue, Goto
  <2>2. snd' \in [Sender -> SenderState] /\ snd'[s].pc = "queue" /\ Only(snd, s)
    BY <1>0, <2>1, SenderGoes DEF SenderPc
  <2>3. SenderFits(s)' /\ lock' = s
    BY <2>1, <2>2 DEF SenderFits, LockAndRead
  <2> QED BY <1>0, <2>1, <2>2, <2>3, SenderLockTypes DEF TypeOK
<1>7. CASE QueueExec(s)
  <2> DEFINE c == DispatchCommand("queue", s)
  <2>0. c \in Command /\ snd[s].pc = "queue" /\ UNCHANGED <<hook, lease, typed, direct>>
    BY <1>0, <1>7, CommandType DEF QueueExec, DispatchOps
  <2>1. CASE Accepted(c) /\ mishap' = mishap \cup LostBy(view, engine') /\ Unlock
               /\ Goto(s, Onward(s)) /\ faults' = faults
    <3>1. /\ snd' \in [Sender -> SenderState] /\ snd'[s].pc \in {"notify", "wait"}
          /\ Only(snd, s)
      BY <1>0, <2>1, SenderGoes DEF SenderPc, Goto, Onward
    <3>2. mishap' \subseteq Mishaps
      BY <1>0, <2>1, LostType DEF TypeOK
    <3>3. SenderFits(s)' /\ lock = s
      BY <1>0, <2>0, <3>1 DEF SenderFits, TypeOK
    <3> HIDE DEF c
    <3> QED BY <1>0, <2>0, <2>1, <3>1, <3>2, <3>3, AcceptedType, SenderLockTypes DEF TypeOK
  <2>2. CASE Failed(c) /\ Goto(s, "push") /\ UNCHANGED <<lock, list, dirty>>
    <3>1. snd' \in [Sender -> SenderState] /\ snd'[s].pc = "push" /\ Only(snd, s)
      BY <1>0, <2>2, SenderGoes DEF SenderPc, Goto
    <3>2. mishap' \subseteq Mishaps
      BY <1>0, <2>0, <2>2, FailedType DEF TypeOK, Mishaps
    <3> HIDE DEF c
    <3> QED BY <1>0, <2>0, <2>2, <3>1, <3>2, FailedType, Alone
            DEF TInv, TypeOK, Only, SenderState, HookFits, SenderFits, Bounded, MayTransition, Req
  <2> QED BY <1>7, <2>1, <2>2 DEF QueueExec
<1>8. CASE Push(s)
  <2>1. /\ snd[s].pc = "push" /\ UNCHANGED <<engine, lease, hook, faults, typed, direct>>
        /\ snd' = [snd EXCEPT ![s].pc = Onward(s)]
    BY <1>8 DEF Push, Goto
  <2>2. /\ snd' \in [Sender -> SenderState] /\ snd'[s].pc \in {"notify", "wait"}
        /\ Only(snd, s)
    BY <1>0, <2>1, SenderGoes DEF SenderPc, Onward
  <2> DEFINE entry == [status |-> "pending", attempts |-> 0]
             more == IF engine.dispatch[s] = "none" THEN {"unqueued"} ELSE {}
  <2>3. entry \in Entry /\ Bounded(entry) /\ more \in SUBSET Mishaps
    BY AttemptsAssumption DEF Entry, Bounded, DispatchStatus, Unfinished, Mishaps
  <2>4. WriteListAndUnlock(s, entry, more)
    BY <1>8 DEF Push
  <2>5. SenderFits(s)' /\ lock = s
    BY <1>0, <2>1, <2>2 DEF SenderFits, TypeOK
  <2> HIDE DEF entry, more
  <2> QED BY <1>0, <2>1, <2>2, <2>3, <2>4, <2>5, WriteTypes, SenderLockTypes DEF TypeOK
<1>9. CASE MarkExec(s)
  <2> DEFINE c == DispatchCommand("notify", Req(s))
  <2>0. c \in Command /\ snd[s].pc = "markExec" /\ UNCHANGED <<lock, list, lease, hook, typed, direct>>
    BY <1>0, <1>9, CommandType DEF MarkExec, DispatchOps
  <2>1. CASE Accepted(c) /\ RenderUnlocked /\ Goto(s, "done") /\ faults' = faults
    <3>1. snd' \in [Sender -> SenderState] /\ snd'[s].pc = "done" /\ Only(snd, s)
      BY <1>0, <2>1, SenderGoes DEF SenderPc, Goto
    <3>2. mishap' \subseteq Mishaps /\ dirty' \in BOOLEAN
      BY <1>0, <2>1, LostType DEF TypeOK, RenderUnlocked
    <3> HIDE DEF c
    <3>3. /\ engine' \in EngineState /\ view' \in [Requests -> Entry]
          /\ \A r \in Requests : Bounded(view'[r])
      BY <1>0, <2>0, <2>1, AcceptedType DEF TypeOK
    <3> QED BY <1>0, <2>0, <2>1, <3>1, <3>2, <3>3
            DEF TInv, TypeOK, Only, SenderState, HookFits, SenderFits, Bounded, MayTransition, Req
  <2>2. CASE Failed(c) /\ dirty' = dirty
             /\ snd' = [snd EXCEPT ![s].pc = "transition", ![s].from = "pending", ![s].to = "notified"]
    <3>1. /\ snd' \in [Sender -> SenderState] /\ snd'[s].pc = "transition"
          /\ snd'[s].to = "notified" /\ Only(snd, s)
      <4>1. snd' = Planned(s, "pending", "notified")
        BY <2>2 DEF Planned
      <4>2. {"pending", "notified"} \subseteq DispatchStatus
        BY DEF DispatchStatus, Unfinished
      <4> QED BY <1>0, <4>1, <4>2, SenderPlans
    <3>2. mishap' \subseteq Mishaps
      BY <1>0, <2>0, <2>2, FailedType DEF TypeOK, Mishaps
    <3> HIDE DEF c
    <3> QED BY <1>0, <2>0, <2>2, <3>1, <3>2, FailedType
            DEF TInv, TypeOK, Only, SenderState, HookFits, SenderFits, Bounded, MayTransition, Req
  <2> QED BY <1>9, <2>1, <2>2 DEF MarkExec
<1>10. CASE Transition(s)
  <2>0. /\ snd[s].pc = "transition"
        /\ UNCHANGED <<engine, view, lease, hook, faults, typed, direct, mishap>>
    BY <1>10 DEF Transition
  <2>1. CASE MayTransition(s, StatusOf(Req(s))) /\ LockAndRead(s) /\ Goto(s, "write")
    <3>1. /\ snd' \in [Sender -> SenderState] /\ snd'[s].pc = "write" /\ snd'[s].req = snd[s].req
          /\ snd'[s].from = snd[s].from /\ snd'[s].to = snd[s].to /\ Only(snd, s)
      BY <1>0, <2>1, SenderGoes DEF SenderPc, Goto
    <3>2. list' = view /\ lock' = s
      BY <2>1 DEF LockAndRead
    <3>3. SenderFits(s)'
      <4>1. snd'[s].to \in {"notified", "failed"}
        BY <1>0, <2>0, <3>1 DEF SenderFits
      <4>2. list'[snd'[s].req].status \in {snd'[s].from, snd'[s].to}
            /\ CanTransition(list'[snd'[s].req].status, snd'[s].to)
        BY <2>1, <3>1, <3>2 DEF MayTransition, StatusOf, Req
      <4> QED BY <4>1, <4>2 DEF SenderFits, MayTransition, Req
    <3> QED BY <1>0, <2>0, <2>1, <3>1, <3>2, <3>3, SenderLockTypes DEF TypeOK
  <2>2. CASE lock = Nobody /\ UNCHANGED <<lock, list, dirty>>
             /\ Goto(s, IF snd[s].to = "notified" /\ s \notin Direct THEN "fail" ELSE "done")
    <3>1. snd' \in [Sender -> SenderState] /\ snd'[s].pc \in {"fail", "done"} /\ Only(snd, s)
      BY <1>0, <2>2, SenderGoes DEF SenderPc, Goto
    <3> QED BY <1>0, <2>0, <2>2, <3>1, QuietTypes DEF TypeOK, Only
  <2> QED BY <1>10, <2>1, <2>2 DEF Transition
<1>11. CASE WriteTransition(s)
  <2> DEFINE old == list[Req(s)]
             entry == [status |-> snd[s].to,
                       attempts |-> IF old.status = snd[s].to THEN old.attempts ELSE old.attempts + 1]
  <2>1. /\ snd[s].pc = "write" /\ UNCHANGED <<engine, lease, hook, faults, typed, direct>>
        /\ snd' = [snd EXCEPT ![s].pc = "done"]
        /\ WriteListAndUnlock(Req(s), entry, {})
    BY <1>11 DEF WriteTransition, Goto
  <2>2. snd' \in [Sender -> SenderState] /\ snd'[s].pc = "done" /\ Only(snd, s)
    BY <1>0, <2>1, SenderGoes DEF SenderPc
  <2>3. entry \in Entry /\ Bounded(entry)
    <3>1. old \in Entry /\ Bounded(old)
      BY <1>0 DEF TypeOK
    <3>2. snd[s].to \in {"notified", "failed"} /\ CanTransition(old.status, snd[s].to)
      <4>1. SenderFits(s)
        BY <1>0
      <4> QED BY <2>1, <4>1 DEF SenderFits, MayTransition
    <3> HIDE DEF old
    <3> QED BY <3>1, <3>2, AttemptsAssumption
            DEF Entry, Bounded, CanTransition, Transitions, DispatchStatus, Unfinished, Finished
  <2>4. SenderFits(s)' /\ lock = s
    BY <1>0, <2>1, <2>2 DEF SenderFits, TypeOK
  <2> HIDE DEF entry
  <2>5. /\ view' \in [Requests -> Entry] /\ \A q \in Requests : Bounded(view'[q])
        /\ Unlock /\ mishap' = mishap \cup (IF dirty THEN {"stale"} ELSE {})
    BY <1>0, <2>1, <2>3 DEF WriteListAndUnlock, TypeOK
  <2>6. mishap' \subseteq Mishaps
    BY <1>0, <2>5 DEF TypeOK, Mishaps
  <2> QED BY <1>0, <2>1, <2>2, <2>4, <2>5, <2>6, SenderLockTypes DEF TypeOK
<1> QED BY <1>1, <1>2, <1>3, <1>4, <1>5, <1>6, <1>7, <1>8, <1>9, <1>10, <1>11 DEF SenderStep

LEMMA HookTypes ==
  ASSUME TInv, team' = team, NEW h \in Hook, HookStep(h)
  PROVE  TInv'
<1> DEFINE r == hook[h].req
<1>0. /\ snd \in [Sender -> SenderState] /\ hook \in [Hook -> HookState]
      /\ TypeOK /\ HookFits(h)
      /\ hook[h].pc # "idle" => r \in Requests
      /\ \A q \in Requests : Bounded(view[q]) /\ Bounded(list[q])
  BY DEF TInv, TypeOK, SenderState, HookState, HookFits
<1> HIDE DEF r
<1>1. ASSUME NEW q \in Requests, Claim(h, q) PROVE TInv'
  <2>1. /\ LockAndRead(h) /\ UNCHANGED <<engine, view, snd, faults, typed, direct, mishap>>
        /\ hook' = [hook EXCEPT ![h] = [pc |-> "claim", req |-> q, res |-> "none"]]
        /\ lease' = [lease EXCEPT ![q] = h]
    BY <1>1 DEF Claim
  <2>2. /\ hook' \in [Hook -> HookState] /\ Only(hook, h)
        /\ hook'[h] = [pc |-> "claim", req |-> q, res |-> "none"]
    BY <1>0, <2>1 DEF HookState, HookPc, Results, Only
  <2>3. HookFits(h)' /\ lock' = h
    BY <2>1, <2>2 DEF HookFits, LockAndRead
  <2>4. lease' \in [Requests -> Hook \cup {Nobody}]
    BY <1>0, <2>1 DEF TypeOK
  <2> QED BY <1>0, <2>1, <2>2, <2>3, <2>4, HookLockTypes DEF TypeOK
<1>2. CASE WriteClaim(h)
  <2>1. /\ hook[h].pc = "claim" /\ UNCHANGED <<engine, lease, snd, faults, typed, direct>>
        /\ hook' = [hook EXCEPT ![h].pc = "inject"]
        /\ WriteListAndUnlock(r, list[r], {})
    BY <1>2 DEF WriteClaim, GotoH, r
  <2>2. /\ hook' \in [Hook -> HookState] /\ hook'[h].pc = "inject" /\ Only(hook, h)
        /\ hook'[h].req = hook[h].req /\ hook'[h].res = hook[h].res
    BY <1>0, <2>1, HookGoes DEF HookPc
  <2>3. HookFits(h)' /\ lock = h
    BY <1>0, <2>1, <2>2 DEF HookFits, TypeOK, r
  <2>4. /\ view' \in [Requests -> Entry] /\ \A q \in Requests : Bounded(view'[q])
        /\ Unlock /\ mishap' = mishap \cup (IF dirty THEN {"stale"} ELSE {})
    BY <1>0, <2>1 DEF WriteListAndUnlock, TypeOK
  <2>5. mishap' \subseteq Mishaps
    BY <1>0, <2>4 DEF TypeOK, Mishaps
  <2> QED BY <1>0, <2>1, <2>2, <2>3, <2>4, <2>5, HookLockTypes DEF TypeOK
<1>3. CASE CannotInject(h) \/ InjectUnconfirmed(h) \/ InjectConfirmed(h)
  <2>1. PICK res \in {"failed", "unconfirmed", "confirmed"} :
          hook' = [hook EXCEPT ![h].pc = "finalize", ![h].res = res]
    BY <1>3 DEF CannotInject, InjectUnconfirmed, InjectConfirmed
  <2>2. /\ hook' \in [Hook -> HookState] /\ Only(hook, h)
        /\ hook'[h].pc = "finalize" /\ hook'[h].req = hook[h].req /\ hook'[h].res = res
    BY <1>0, <2>1 DEF HookState, HookPc, Results, Only
  <2>3. HookFits(h)' /\ hook[h].pc = "inject"
    BY <1>0, <1>3, <2>2
       DEF HookFits, CannotInject, InjectUnconfirmed, InjectConfirmed, r
  <2>4. typed' \in [Requests -> 0 .. MaxAttempts + 1]
    <3>1. typed' = typed \/ typed' = [typed EXCEPT ![r] = IF @ > MaxAttempts THEN @ ELSE @ + 1]
      BY <1>3 DEF CannotInject, InjectUnconfirmed, InjectConfirmed, Count, r
    <3>2. typed \in [Requests -> 0 .. MaxAttempts + 1]
      BY <1>0 DEF TypeOK
    <3> QED BY <3>1, <3>2, AttemptsAssumption
  <2>5. UNCHANGED <<lock, list, lease, snd, direct>>
    BY <1>3 DEF CannotInject, InjectUnconfirmed, InjectConfirmed
  <2>6. /\ \A k \in Hook : hook'[k] = hook[k] \/
             /\ hook'[k].pc \notin {"claim", "record", "write"}
             /\ hook'[k].pc # "idle" => hook'[k].req \in Requests
             /\ hook'[k].pc = "finalize" <=> hook'[k].res # "none"
    BY <1>0, <2>2, <2>3 DEF Only, r
  <2>7. CASE UNCHANGED <<engine, view, dirty, faults, mishap>>
    BY <1>0, <2>2, <2>4, <2>5, <2>6, <2>7, QuietTypes DEF TypeOK
  <2>8. CASE InjectConfirmed(h)
    <3> DEFINE c == DispatchCommand("deliver", r)
    <3>1. c \in Command
      BY <1>0, <2>3, CommandType DEF DispatchOps
    <3>2. \/ Accepted(c) /\ RenderUnlocked /\ faults' = faults
          \/ Failed(c) /\ dirty' = dirty
      BY <2>8 DEF InjectConfirmed, r
    <3> HIDE DEF c
    <3>3. /\ engine' \in EngineState /\ view' \in [Requests -> Entry]
          /\ \A q \in Requests : Bounded(view'[q])
          /\ faults' \in 0 .. team.maxFaults /\ dirty' \in BOOLEAN /\ mishap' \subseteq Mishaps
      <4>1. CASE Accepted(c) /\ RenderUnlocked /\ faults' = faults
        BY <1>0, <3>1, <4>1, AcceptedType, LostType DEF TypeOK, RenderUnlocked
      <4>2. CASE Failed(c) /\ dirty' = dirty
        BY <1>0, <3>1, <4>2, FailedType DEF TypeOK, Mishaps
      <4> QED BY <3>2, <4>1, <4>2
    <3>4. TypeOK'
      BY <1>0, <2>2, <2>3, <2>4, <2>5, <3>3 DEF TypeOK, SenderState, HookState, Only
    <3>5. \A k \in Hook : HookFits(k)'
      BY <2>2, <2>3, <2>5 DEF HookFits, TInv, Only, TypeOK
    <3>6. \A s \in Sender : SenderFits(s)'
      BY <2>5 DEF SenderFits, TInv, MayTransition, Req
    <3> QED BY <1>0, <2>5, <3>3, <3>4, <3>5, <3>6 DEF TInv, Bounded
  <2> QED BY <1>3, <2>7, <2>8 DEF CannotInject, InjectUnconfirmed
<1>4. CASE Finalize(h)
  <2>0. /\ hook[h].pc = "finalize"
        /\ UNCHANGED <<engine, view, snd, faults, typed, direct, mishap>>
    BY <1>4 DEF Finalize
  <2>1. CASE StatusOf(r) = "pending" /\ LockAndRead(h) /\ GotoH(h, "record") /\ lease' = lease
    <3>1. /\ hook' \in [Hook -> HookState] /\ hook'[h].pc = "record" /\ Only(hook, h)
          /\ hook'[h].req = hook[h].req /\ hook'[h].res = hook[h].res
      BY <1>0, <2>1, HookGoes DEF HookPc, GotoH
    <3>2. lock' = h /\ list' = view
      BY <2>1 DEF LockAndRead
    <3>3. HookFits(h)'
      BY <1>0, <2>0, <2>1, <3>1, <3>2 DEF HookFits, StatusOf, r
    <3> QED BY <1>0, <2>0, <2>1, <3>1, <3>2, <3>3, HookLockTypes DEF TypeOK
  <2>2. CASE lock = Nobody /\ EndTick(h) /\ Release(h) /\ UNCHANGED <<lock, list, dirty>>
    <3>1. /\ hook' \in [Hook -> HookState] /\ Only(hook, h)
          /\ hook'[h].pc = "idle" /\ hook'[h].res = "none"
      BY <1>0, <2>2, HookEnds
    <3> QED BY <1>0, <2>0, <2>2, <3>1, LeaseTypes, QuietTypes DEF TypeOK, Only
  <2> QED BY <1>4, <2>1, <2>2 DEF Finalize, r
<1>5. CASE Record(h)
  <2> DEFINE c == DispatchCommand(IF FinalEntry(h).status = "notified" THEN "notify" ELSE "fail", r)
  <2>0. /\ hook[h].pc = "record" /\ hook' = [hook EXCEPT ![h].pc = "write"]
        /\ UNCHANGED <<lock, list, dirty, lease, snd, typed, direct>>
    BY <1>5 DEF Record, GotoH
  <2>1. /\ hook' \in [Hook -> HookState] /\ hook'[h].pc = "write" /\ Only(hook, h)
        /\ hook'[h].req = hook[h].req /\ hook'[h].res = hook[h].res
    BY <1>0, <2>0, HookGoes DEF HookPc
  <2>2. c \in Command
    BY <1>0, <2>0, CommandType DEF DispatchOps
  <2>3. \/ UNCHANGED <<engine, view, faults, mishap>>
        \/ Accepted(c) /\ faults' = faults
             /\ mishap' = mishap \cup (LostBy(view, engine') \ {"reset"})
        \/ Failed(c)
    BY <1>5 DEF Record, r
  <2> HIDE DEF c
  <2>4. /\ engine' \in EngineState /\ view' \in [Requests -> Entry]
        /\ \A q \in Requests : Bounded(view'[q])
        /\ faults' \in 0 .. team.maxFaults /\ mishap' \subseteq Mishaps
    <3>1. CASE UNCHANGED <<engine, view, faults, mishap>>
      BY <1>0, <3>1 DEF TypeOK
    <3>2. CASE Accepted(c) /\ faults' = faults
                 /\ mishap' = mishap \cup (LostBy(view, engine') \ {"reset"})
      BY <1>0, <2>2, <3>2, AcceptedType, LostType DEF TypeOK
    <3>3. CASE Failed(c)
      BY <1>0, <2>2, <3>3, FailedType DEF TypeOK, Mishaps
    <3> QED BY <2>3, <3>1, <3>2, <3>3
  <2>5. TypeOK'
    BY <1>0, <2>0, <2>1, <2>4 DEF TypeOK, SenderState, HookState, Only
  <2>6. \A k \in Hook : HookFits(k)'
    BY <2>0, <2>1 DEF HookFits, TInv, Only, TypeOK
  <2>7. \A s \in Sender : SenderFits(s)'
    BY <2>0 DEF SenderFits, TInv, MayTransition, Req
  <2> QED BY <1>0, <2>0, <2>4, <2>5, <2>6, <2>7 DEF TInv, Bounded
<1>6. CASE WriteFinal(h)
  <2> DEFINE entry == FinalEntry(h)
  <2>1. /\ hook[h].pc = "write" /\ UNCHANGED <<engine, snd, faults, typed, direct>>
        /\ WriteListAndUnlock(r, entry, {}) /\ EndTick(h) /\ Release(h)
    BY <1>6 DEF WriteFinal, r
  <2>2. /\ hook' \in [Hook -> HookState] /\ hook'[h].pc = "idle" /\ Only(hook, h)
        /\ hook'[h].res = "none"
    BY <1>0, <2>1, HookEnds
  <2>3. entry \in Entry /\ Bounded(entry)
    <3>1. /\ list[r] \in Entry /\ Bounded(list[r]) /\ list[r].status = "pending"
          /\ hook[h].res \in {"confirmed", "unconfirmed", "failed"}
      <4>1. hook[h] \in HookState
        BY <1>0
      <4> QED BY <1>0, <2>1, <4>1 DEF HookFits, TypeOK, HookState, Results, r
    <3>2. list[r].attempts + 1 \in 0 .. MaxAttempts /\ list[r].attempts \in Nat
      BY <3>1, AttemptsAssumption DEF Entry, Bounded
    <3>3. entry = [status |-> Outcome(hook[h].res, list[r].attempts + 1),
                   attempts |-> list[r].attempts + 1]
      BY DEF FinalEntry, r
    <3>4. \/ Outcome(hook[h].res, list[r].attempts + 1) \in {"notified", "failed"}
          \/ /\ Outcome(hook[h].res, list[r].attempts + 1) = "pending"
             /\ list[r].attempts + 1 < MaxAttempts
      BY <3>1 DEF Outcome
    <3> HIDE DEF entry
    <3> QED BY <3>2, <3>3, <3>4, AttemptsAssumption
            DEF Entry, Bounded, DispatchStatus, Unfinished, Finished
  <2>4. HookFits(h)' /\ lock = h
    BY <1>0, <2>1, <2>2 DEF HookFits, TypeOK
  <2> HIDE DEF entry
  <2>5. /\ view' \in [Requests -> Entry] /\ \A q \in Requests : Bounded(view'[q])
        /\ Unlock /\ mishap' = mishap \cup (IF dirty THEN {"stale"} ELSE {})
    BY <1>0, <2>1, <2>3 DEF WriteListAndUnlock, TypeOK
  <2>6. mishap' \subseteq Mishaps
    BY <1>0, <2>5 DEF TypeOK, Mishaps
  <2> QED BY <1>0, <2>1, <2>2, <2>4, <2>5, <2>6, LeaseTypes, HookLockTypes DEF TypeOK
<1> QED BY <1>1, <1>2, <1>3, <1>4, <1>5, <1>6 DEF HookStep

LEMMA FaultTypes ==
  ASSUME TInv, team' = team,
         \/ \E s \in Sender : SenderDies(s)
         \/ \E h \in Hook : HookDies(h) \/ HookTimesOut(h)
         \/ \E r \in Requests : LeaseLapses(r)
  PROVE  TInv'
<1>0. /\ snd \in [Sender -> SenderState] /\ hook \in [Hook -> HookState] /\ TypeOK
      /\ team.maxFaults \in Nat
      /\ \A q \in Requests : Bounded(view[q])
  BY TeamsAssumption DEF TInv, TypeOK, SenderState, HookState
<1>1. ASSUME NEW s \in Sender, SenderDies(s) PROVE TInv'
  <2>1. /\ snd' = [snd EXCEPT ![s].pc = "done"] /\ FreeLock(s)
        /\ faults < team.maxFaults /\ faults' = faults + 1
        /\ mishap' = mishap \cup (IF snd[s].pc \in {"queue", "push"} THEN {"unqueued"} ELSE {})
        /\ UNCHANGED <<engine, view, lease, hook, typed, direct>>
    BY <1>1 DEF SenderDies, Goto, Fault
  <2>2. snd' \in [Sender -> SenderState] /\ snd'[s].pc = "done" /\ Only(snd, s)
    BY <1>0, <2>1, SenderGoes DEF SenderPc
  <2>3. faults' \in 0 .. team.maxFaults /\ mishap' \subseteq Mishaps
    <3>1. faults \in 0 .. team.maxFaults /\ mishap \subseteq Mishaps
      BY <1>0 DEF TypeOK
    <3> QED BY <1>0, <2>1, <3>1 DEF Mishaps
  <2>4. CASE Unlock /\ lock = s
    BY <1>0, <2>1, <2>2, <2>3, <2>4, SenderLockTypes DEF TypeOK, SenderFits
  <2>5. CASE UNCHANGED <<lock, list, dirty>>
    BY <1>0, <2>1, <2>2, <2>3, <2>5, QuietTypes DEF TypeOK, Only
  <2> QED BY <2>1, <2>4, <2>5 DEF FreeLock
<1>2. ASSUME NEW h \in Hook, HookDies(h) \/ HookTimesOut(h) PROVE TInv'
  <2>1. /\ EndTick(h) /\ faults < team.maxFaults /\ faults' = faults + 1
        /\ (Unlock /\ lock = h) \/ UNCHANGED <<lock, list, dirty>>
        /\ UNCHANGED <<engine, view, snd, typed, direct>>
    BY <1>2 DEF HookDies, HookTimesOut, Fault, FreeLock
  <2>2. /\ hook' \in [Hook -> HookState] /\ Only(hook, h)
        /\ hook'[h].pc = "idle" /\ hook'[h].res = "none"
    BY <1>0, <2>1, HookEnds
  <2>3. faults' \in 0 .. team.maxFaults
    <3>1. faults \in 0 .. team.maxFaults
      BY <1>0 DEF TypeOK
    <3> QED BY <1>0, <2>1, <3>1
  <2>4. mishap' \subseteq Mishaps
    BY <1>0, <1>2, LostType DEF HookDies, HookTimesOut, TypeOK, Mishaps
  <2>5. lease' \in [Requests -> Hook \cup {Nobody}]
    BY <1>0, <1>2, LeaseTypes DEF HookDies, HookTimesOut, TypeOK
  <2>6. CASE Unlock /\ lock = h
    <3>1. HookFits(h)'
      BY <2>2 DEF HookFits
    <3> QED BY <1>0, <2>1, <2>2, <2>3, <2>4, <2>5, <2>6, <3>1, HookLockTypes DEF TypeOK
  <2>7. CASE UNCHANGED <<lock, list, dirty>>
    BY <1>0, <2>1, <2>2, <2>3, <2>4, <2>5, <2>7, QuietTypes DEF TypeOK, Only
  <2> QED BY <2>1, <2>6, <2>7
<1>3. ASSUME NEW r \in Requests, LeaseLapses(r) PROVE TInv'
  <2>1. /\ lease' = [lease EXCEPT ![r] = Nobody]
        /\ UNCHANGED <<engine, view, lock, list, dirty, snd, hook, typed, direct>>
    BY <1>3 DEF LeaseLapses
  <2>2. faults' \in 0 .. team.maxFaults /\ mishap' \subseteq Mishaps
    <3>1. faults \in 0 .. team.maxFaults /\ mishap \subseteq Mishaps
      BY <1>0 DEF TypeOK
    <3>2. \/ faults < team.maxFaults /\ faults' = faults + 1 /\ mishap' = mishap \cup {"lapsed"}
          \/ UNCHANGED <<faults, mishap>>
      BY <1>3 DEF LeaseLapses, Fault
    <3>3. mishap' \subseteq Mishaps
      BY <3>1, <3>2 DEF Mishaps
    <3> QED BY <1>0, <3>1, <3>2, <3>3
  <2> QED BY <1>0, <2>1, <2>2, QuietTypes DEF TypeOK
<1> QED BY <1>1, <1>2, <1>3

\* Who makes a step.
LEMMA WhoSteps ==
  ASSUME TInv, Next
  PROVE  /\ team' = team
         /\ \/ \E s \in Sender : SenderStep(s) \/ SenderDies(s)
            \/ \E h \in Hook : HookStep(h) \/ HookDies(h) \/ HookTimesOut(h)
            \/ \E r \in Requests : LeaseLapses(r)
<1>1. team.hooks \subseteq Hook
  BY TeamsAssumption DEF TInv, TypeOK
<1> QED BY <1>1 DEF Next

LEMMA InitTInv == Init => TInv
<1> SUFFICES ASSUME Init PROVE TInv
  OBVIOUS
<1>1. team.maxFaults \in Nat
  BY TeamsAssumption DEF Init
<1>2. NoList \in [Requests -> Entry] /\ \A r \in Requests : Bounded(NoList[r])
  BY AttemptsAssumption DEF NoList, Absent, Entry, Bounded
<1>3. /\ snd \in [Sender -> SenderState] /\ \A s \in Sender : snd[s].pc = "idle"
  BY DEF Init, SenderState, SenderPc, DispatchStatus, Unfinished, Finished, Sender
<1>4. /\ hook \in [Hook -> HookState]
      /\ \A h \in Hook : hook[h].pc = "idle" /\ hook[h].res = "none"
  BY DEF Init, HookState, HookPc, Results
<1>5. TypeOK
  <2>1. /\ 0 \in 0 .. team.maxFaults /\ 0 \in 0 .. MaxAttempts + 1
    BY <1>1, AttemptsAssumption
  <2>2. /\ faults \in 0 .. team.maxFaults
        /\ typed \in [Requests -> 0 .. MaxAttempts + 1]
    BY <2>1 DEF Init
  <2>3. /\ lease \in [Requests -> Hook \cup {Nobody}] /\ engine \in EngineState
        /\ view \in [Requests -> Entry] /\ list \in [Requests -> Entry]
        /\ lock \in Sender \cup Hook \cup {Nobody} /\ dirty \in BOOLEAN
    BY <1>2, NewEngineType DEF Init
  <2> QED BY <1>3, <1>4, <2>2, <2>3 DEF Init, TypeOK, SenderState, HookState, Mishaps
<1> QED BY <1>2, <1>3, <1>4, <1>5 DEF Init, TInv, HookFits, SenderFits

\* Types, counts within their bound, and what a hook or sender is at with
\* the request it works on: the locked sections are what keep this.
THEOREM TInvariance == Spec => []TInv
<1>1. TInv /\ [Next]_vars => TInv'
  <2> SUFFICES ASSUME TInv, [Next]_vars PROVE TInv'
    OBVIOUS
  <2>1. CASE UNCHANGED vars
    BY <2>1 DEF vars, TInv, TypeOK, Bounded, HookFits, SenderFits, MayTransition, Req
  <2>2. CASE Next
    BY <2>2, WhoSteps, SenderTypes, HookTypes, FaultTypes
  <2> QED BY <2>1, <2>2
<1> QED BY <1>1, InitTInv, PTL DEF Spec

\* Every variable keeps its type, and the lock keeps apart who works under it.
THEOREM TypeCorrect == Spec => []TypeOK
<1>1. TInv => TypeOK
  BY DEF TInv
<1> QED BY <1>1, TInvariance, PTL

LEMMA MishapsStay ==
  ASSUME TInv, [Next]_vars
  PROVE  mishap \subseteq mishap'
<1>1. ASSUME NEW s \in Sender, SenderStep(s) \/ SenderDies(s) PROVE mishap \subseteq mishap'
  BY <1>1 DEF SenderStep, SenderDies, Deduplicate, Enqueue, QueueExec, Push, Receipt, NoReceipt,
     Notify, NotifyFailed, Mark, MarkExec, Fail, Transition, WriteTransition, RenderUnlocked,
     WriteListAndUnlock, Failed, NotRun, RunUnreported
<1>2. ASSUME NEW h \in Hook, HookStep(h) \/ HookDies(h) \/ HookTimesOut(h)
      PROVE  mishap \subseteq mishap'
  BY <1>2 DEF HookStep, HookDies, HookTimesOut, Claim, WriteClaim, CannotInject,
     InjectUnconfirmed, InjectConfirmed, Finalize, Record, WriteFinal, RenderUnlocked,
     WriteListAndUnlock, Failed, NotRun, RunUnreported
<1>3. ASSUME NEW r \in Requests, LeaseLapses(r) PROVE mishap \subseteq mishap'
  BY <1>3 DEF LeaseLapses
<1>4. CASE UNCHANGED vars
  BY <1>4 DEF vars
<1> QED BY <1>1, <1>2, <1>3, <1>4, WhoSteps

-----------------------------------------------------------------------------
(* Leases.                                                                  *)

\* How a step may move a hook and the leases.
GoesOn(h) ==
  /\ hook[h].pc # "idle" /\ hook'[h].pc # "idle" /\ hook'[h].req = hook[h].req
  /\ Only(hook, h) /\ lease' = lease

Ends(h) ==
  /\ hook[h].pc # "idle" /\ hook'[h].pc = "idle" /\ hook'[h].res = "none"
  /\ Only(hook, h) /\ (lease' = lease \/ Release(h))

Begins(h, r) ==
  /\ hook[h].pc = "idle" /\ lease[r] = Nobody /\ StatusOf(r) = "pending" /\ lock = Nobody
  /\ hook'[h] = [pc |-> "claim", req |-> r, res |-> "none"] /\ Only(hook, h)
  /\ lease' = [lease EXCEPT ![r] = h]

LEMMA HookMoves ==
  ASSUME TInv, [Next]_vars
  PROVE  \/ UNCHANGED <<hook, lease>>
         \/ \E h \in Hook : GoesOn(h) \/ Ends(h) \/ \E r \in Requests : Begins(h, r)
         \/ \E r \in Requests : LeaseLapses(r)
<1>0. hook \in [Hook -> HookState]
  BY DEF TInv, TypeOK, HookState
<1>1. ASSUME NEW s \in Sender, SenderStep(s) \/ SenderDies(s) PROVE UNCHANGED <<hook, lease>>
  BY <1>1 DEF SenderStep, SenderDies, Deduplicate, Enqueue, QueueExec, Push, Receipt, NoReceipt,
     Notify, NotifyFailed, Mark, MarkExec, Fail, Transition, WriteTransition
<1>2. ASSUME NEW h \in Hook, NEW r \in Requests, Claim(h, r) PROVE Begins(h, r)
  BY <1>0, <1>2 DEF Claim, Begins, Only, LockAndRead
<1>3. ASSUME NEW h \in Hook, EndTick(h), hook[h].pc # "idle", lease' = lease \/ Release(h)
      PROVE  Ends(h)
  BY <1>0, <1>3, HookEnds DEF Ends
<1>4. ASSUME NEW h \in Hook, WriteFinal(h) \/ HookDies(h) \/ HookTimesOut(h) PROVE Ends(h)
  BY <1>3, <1>4 DEF WriteFinal, HookDies, HookTimesOut
<1>5. ASSUME NEW h \in Hook, NEW where \in HookPc \ {"idle"}, GotoH(h, where),
             hook[h].pc # "idle", lease' = lease
      PROVE  GoesOn(h)
  BY <1>0, <1>5, HookGoes DEF GoesOn, GotoH
<1>6. ASSUME NEW h \in Hook, WriteClaim(h) \/ Record(h) PROVE GoesOn(h)
  BY <1>5, <1>6 DEF WriteClaim, Record, HookPc
<1>7. ASSUME NEW h \in Hook, Finalize(h) PROVE GoesOn(h) \/ Ends(h)
  BY <1>3, <1>5, <1>7 DEF Finalize, HookPc
<1>8. ASSUME NEW h \in Hook, CannotInject(h) \/ InjectUnconfirmed(h) \/ InjectConfirmed(h)
      PROVE  GoesOn(h)
  <2>1. PICK res \in {"failed", "unconfirmed", "confirmed"} :
          /\ hook[h].pc = "inject" /\ lease' = lease
          /\ hook' = [hook EXCEPT ![h].pc = "finalize", ![h].res = res]
    BY <1>8 DEF CannotInject, InjectUnconfirmed, InjectConfirmed
  <2> QED BY <1>0, <2>1 DEF GoesOn, Only, HookState
<1>9. ASSUME NEW h \in Hook, HookStep(h)
      PROVE  GoesOn(h) \/ Ends(h) \/ \E r \in Requests : Begins(h, r)
  BY <1>2, <1>4, <1>6, <1>7, <1>8, <1>9 DEF HookStep
<1>10. CASE UNCHANGED vars
  BY <1>10 DEF vars
<1> QED BY <1>1, <1>4, <1>9, <1>10, WhoSteps

LEMMA NextLInv == LInv /\ TInv /\ [Next]_vars => LInv'
<1> SUFFICES ASSUME LInv, TInv, [Next]_vars, "lapsed" \notin mishap',
                    NEW k \in Hook, NEW q \in Requests, Working(k, q)'
             PROVE  lease'[q] = k
  BY DEF LInv
<1>0. /\ "lapsed" \notin mishap /\ lease \in [Requests -> Hook \cup {Nobody}]
      /\ Nobody \notin Hook /\ DOMAIN hook = Hook
      /\ \A r \in Requests : Working(k, r) => lease[r] = k
  BY MishapsStay, HookAssumption DEF TInv, TypeOK, LInv
<1>1. CASE UNCHANGED <<hook, lease>>
  BY <1>0, <1>1 DEF Working
<1>2. ASSUME NEW h \in Hook, GoesOn(h) PROVE lease'[q] = k
  BY <1>0, <1>2 DEF GoesOn, Only, Working
<1>3. ASSUME NEW h \in Hook, Ends(h) PROVE lease'[q] = k
  <2>1. k # h
    BY <1>3 DEF Ends, Working
  <2>2. lease[q] = k
    BY <1>0, <1>3, <2>1 DEF Ends, Only, Working
  <2> QED BY <1>0, <1>3, <2>1, <2>2 DEF Ends, Release
<1>4. ASSUME NEW h \in Hook, NEW r \in Requests, Begins(h, r) PROVE lease'[q] = k
  <2>1. CASE k = h
    BY <1>0, <1>4, <2>1 DEF Begins, Working
  <2>2. CASE k # h
    <3>1. lease[q] = k
      BY <1>0, <1>4, <2>2 DEF Begins, Only, Working
    <3> QED BY <1>0, <1>4, <3>1 DEF Begins
  <2> QED BY <2>1, <2>2
<1>5. ASSUME NEW r \in Requests, LeaseLapses(r) PROVE lease'[q] = k
  <2>1. ~Working(lease[r], r)
    BY <1>5 DEF LeaseLapses
  <2>2. Working(k, q)
    BY <1>5 DEF LeaseLapses, Working
  <2>3. r # q
    BY <1>0, <2>1, <2>2
  <2> QED BY <1>0, <1>5, <2>2, <2>3 DEF LeaseLapses
<1> QED BY <1>1, <1>2, <1>3, <1>4, <1>5, HookMoves

\* Until a lease has lapsed, the hook that works on a request, between its
\* two sections under the lock, is the one that holds its lease.
THEOREM LInvariance == Spec => []LInv
<1>1. Init => LInv
  BY DEF Init, LInv, Working
<1> QED BY <1>1, NextLInv, TInvariance, PTL DEF Spec

\* Two hooks never work on one request, until a lease lapses under one.
THEOREM WorkAlone == Spec => []HooksWorkAlone
<1>1. LInv => HooksWorkAlone
  BY DEF LInv, HooksWorkAlone
<1> QED BY <1>1, LInvariance, PTL

-----------------------------------------------------------------------------
(* The engine, the view and the list.                                       *)

\* What a legal dispatch command does to the requests.
LEMMA Applied ==
  ASSUME NEW e \in EngineState, NEW op \in DispatchOps, NEW r \in Requests,
         NEW f, f = Apply(e, DispatchCommand(op, r))
  PROVE  /\ f \in EngineState
         /\ \A q \in Requests \ {r} : f.dispatch[q] = e.dispatch[q]
         /\ op = "queue" => f.dispatch[r] = Pushed(e.dispatch[r], "pending")
         /\ op = "notify" => f.dispatch[r] = "notified"
         /\ op = "deliver" => f.dispatch[r] = "delivered"
         /\ op = "fail" => f.dispatch[r] = "failed"
<1>1. f \in EngineState
  BY CommandType, ApplyType
<1> DEFINE to == CASE op = "queue" -> Pushed(e.dispatch[r], "pending")
                   [] op = "notify" -> "notified"
                   [] op = "deliver" -> "delivered"
                   [] op = "fail" -> "failed"
<1>2. f = [e EXCEPT !.dispatch[r] = to]
  BY DEF Apply, DispatchCommand, DispatchOps
<1> HIDE DEF to
<1>3. f.dispatch[r] = to /\ \A q \in Requests \ {r} : f.dispatch[q] = e.dispatch[q]
  BY <1>2 DEF EngineState
<1> QED BY <1>1, <1>3 DEF to

LEMMA LegalDispatch ==
  ASSUME NEW e \in EngineState, NEW op \in DispatchOps, NEW r \in Requests
  PROVE  Legal(e, DispatchCommand(op, r)) <=> e.dispatch[r] \in LegalFrom(op)
BY DEF Legal, DispatchCommand, DispatchOps, MailOps

\* An exec of op on r takes effect, and says so or not.
TakesEffect(op, r) ==
  /\ engine.dispatch[r] \in LegalFrom(op)
  /\ engine' = Apply(engine, DispatchCommand(op, r))
  /\ \/ view' = Rendered(engine')
     \/ view' = view /\ "unreported" \in mishap'

FinalOp(h) == IF FinalEntry(h).status = "notified" THEN "notify" ELSE "fail"

Executes ==
  \/ \E s \in Sender : QueueExec(s) /\ TakesEffect("queue", s)
  \/ \E s \in Sender : MarkExec(s) /\ TakesEffect("notify", Req(s))
  \/ \E h \in Hook : InjectConfirmed(h) /\ TakesEffect("deliver", hook[h].req)
  \/ \E h \in Hook : /\ Record(h) /\ FinalEntry(h).status # "pending"
                     /\ TakesEffect(FinalOp(h), hook[h].req)

Writes(r, entry) ==
  /\ engine' = engine /\ view' = [list EXCEPT ![r] = entry]
  /\ Unlock /\ (dirty => "stale" \in mishap')

WritesList ==
  \/ \E s \in Sender : Push(s) /\ Writes(s, [status |-> "pending", attempts |-> 0])
  \/ \E s \in Sender : /\ WriteTransition(s)
                       /\ \E n : Writes(Req(s), [status |-> snd[s].to, attempts |-> n])
  \/ \E h \in Hook : WriteClaim(h) /\ Writes(hook[h].req, list[hook[h].req])
  \/ \E h \in Hook : WriteFinal(h) /\ Writes(hook[h].req, FinalEntry(h))

LEMMA ExecTakesEffect ==
  ASSUME TInv, NEW op \in DispatchOps, NEW r \in Requests,
         \/ Accepted(DispatchCommand(op, r))
         \/ Failed(DispatchCommand(op, r))
  PROVE  TakesEffect(op, r) \/ (engine' = engine /\ view' = view)
<1>1. engine \in EngineState
  BY DEF TInv, TypeOK
<1>2. Legal(engine, DispatchCommand(op, r)) <=> engine.dispatch[r] \in LegalFrom(op)
  BY <1>1, LegalDispatch
<1> QED BY <1>2 DEF Accepted, Failed, Refused, NotRun, RunUnreported, TakesEffect

LEMMA StoreMoves ==
  ASSUME TInv, [Next]_vars
  PROVE  \/ engine' = engine /\ view' = view
         \/ Executes
         \/ WritesList
<1>0. /\ \A s \in Sender : s \in Requests /\ Req(s) \in Requests
      /\ \A h \in Hook : hook[h].pc # "idle" => hook[h].req \in Requests
      /\ {"queue", "notify", "deliver", "fail"} \subseteq DispatchOps
  BY DEF TInv, TypeOK, HookFits, Sender, Req, DispatchOps
<1>1. ASSUME NEW s \in Sender, QueueExec(s)
      PROVE  TakesEffect("queue", s) \/ (engine' = engine /\ view' = view)
  BY <1>0, <1>1, ExecTakesEffect DEF QueueExec
<1>2. ASSUME NEW s \in Sender, MarkExec(s)
      PROVE  TakesEffect("notify", Req(s)) \/ (engine' = engine /\ view' = view)
  <2>1. PICK r \in Requests : r = Req(s)
    BY <1>0
  <2>2. TakesEffect("notify", r) \/ (engine' = engine /\ view' = view)
    BY <1>0, <1>2, <2>1, ExecTakesEffect DEF MarkExec
  <2> QED BY <2>1, <2>2 DEF TakesEffect
<1>3. ASSUME NEW h \in Hook, InjectConfirmed(h)
      PROVE  TakesEffect("deliver", hook[h].req) \/ (engine' = engine /\ view' = view)
  <2>1. PICK r \in Requests : r = hook[h].req
    BY <1>0, <1>3 DEF InjectConfirmed
  <2>2. TakesEffect("deliver", r) \/ (engine' = engine /\ view' = view)
    BY <1>0, <1>3, <2>1, ExecTakesEffect DEF InjectConfirmed
  <2> QED BY <2>1, <2>2 DEF TakesEffect
<1>4. ASSUME NEW h \in Hook, Record(h)
      PROVE  \/ FinalEntry(h).status # "pending" /\ TakesEffect(FinalOp(h), hook[h].req)
             \/ engine' = engine /\ view' = view
  <2>1. PICK r \in Requests : r = hook[h].req
    BY <1>0, <1>4 DEF Record
  <2>2. PICK op \in DispatchOps : op = FinalOp(h)
    BY <1>0 DEF FinalOp
  <2>3. \/ UNCHANGED <<engine, view>>
        \/ /\ FinalEntry(h).status # "pending"
           /\ Accepted(DispatchCommand(op, r)) \/ Failed(DispatchCommand(op, r))
    BY <1>4, <2>1, <2>2 DEF Record, FinalOp
  <2>4. \/ UNCHANGED <<engine, view>>
        \/ FinalEntry(h).status # "pending" /\ TakesEffect(op, r)
    BY <2>3, ExecTakesEffect
  <2> QED BY <2>1, <2>2, <2>4 DEF TakesEffect
<1>5. ASSUME NEW s \in Sender, Push(s) PROVE Writes(s, [status |-> "pending", attempts |-> 0])
  BY <1>5 DEF Push, Writes, WriteListAndUnlock
<1>6. ASSUME NEW s \in Sender, WriteTransition(s)
      PROVE  \E n : Writes(Req(s), [status |-> snd[s].to, attempts |-> n])
  BY <1>6 DEF WriteTransition, Writes, WriteListAndUnlock
<1>7. ASSUME NEW h \in Hook, WriteClaim(h) PROVE Writes(hook[h].req, list[hook[h].req])
  BY <1>7 DEF WriteClaim, Writes, WriteListAndUnlock
<1>8. ASSUME NEW h \in Hook, WriteFinal(h) PROVE Writes(hook[h].req, FinalEntry(h))
  BY <1>8 DEF WriteFinal, Writes, WriteListAndUnlock
<1>9. ASSUME NEW s \in Sender, SenderStep(s) \/ SenderDies(s),
             ~QueueExec(s), ~MarkExec(s), ~Push(s), ~WriteTransition(s)
      PROVE  engine' = engine /\ view' = view
  BY <1>9 DEF SenderStep, SenderDies, Deduplicate, Enqueue, Receipt, NoReceipt, Notify,
     NotifyFailed, Mark, Fail, Transition
<1>10. ASSUME NEW h \in Hook, HookStep(h) \/ HookDies(h) \/ HookTimesOut(h),
              ~InjectConfirmed(h), ~Record(h), ~WriteClaim(h), ~WriteFinal(h)
       PROVE  engine' = engine /\ view' = view
  BY <1>10 DEF HookStep, HookDies, HookTimesOut, Claim, CannotInject, InjectUnconfirmed, Finalize
<1>11. CASE UNCHANGED vars \/ \E r \in Requests : LeaseLapses(r)
  BY <1>11 DEF vars, LeaseLapses
<1> QED BY <1>1, <1>2, <1>3, <1>4, <1>5, <1>6, <1>7, <1>8, <1>9, <1>10, <1>11, WhoSteps
        DEF Executes, WritesList

\* The list is read anew, kept, or given up.
LEMMA ListMoves ==
  ASSUME TInv, [Next]_vars
  PROVE  \/ UNCHANGED <<list, lock>> /\ (dirty' = dirty \/ dirty' = (lock # Nobody))
         \/ Unlock
         \/ lock = Nobody /\ list' = view /\ dirty' = FALSE /\ UNCHANGED <<engine, view>>
<1>1. ASSUME NEW s \in Sender, SenderStep(s) \/ SenderDies(s)
      PROVE  \/ UNCHANGED <<list, lock>> /\ (dirty' = dirty \/ dirty' = (lock # Nobody))
             \/ Unlock
             \/ lock = Nobody /\ list' = view /\ dirty' = FALSE /\ UNCHANGED <<engine, view>>
  BY <1>1 DEF SenderStep, SenderDies, Deduplicate, Enqueue, QueueExec, Push, Receipt, NoReceipt,
     Notify, NotifyFailed, Mark, MarkExec, Fail, Transition, WriteTransition, RenderUnlocked,
     WriteListAndUnlock, FreeLock, LockAndRead
<1>2. ASSUME NEW h \in Hook, HookStep(h) \/ HookDies(h) \/ HookTimesOut(h)
      PROVE  \/ UNCHANGED <<list, lock>> /\ (dirty' = dirty \/ dirty' = (lock # Nobody))
             \/ Unlock
             \/ lock = Nobody /\ list' = view /\ dirty' = FALSE /\ UNCHANGED <<engine, view>>
  BY <1>2 DEF HookStep, HookDies, HookTimesOut, Claim, WriteClaim, CannotInject,
     InjectUnconfirmed, InjectConfirmed, Finalize, Record, WriteFinal, RenderUnlocked,
     WriteListAndUnlock, FreeLock, LockAndRead
<1>3. CASE UNCHANGED vars \/ \E r \in Requests : LeaseLapses(r)
  BY <1>3 DEF vars, LeaseLapses
<1> QED BY <1>1, <1>2, <1>3, WhoSteps

-----------------------------------------------------------------------------
(* Receipts.                                                                *)

LEMMA TypedStays ==
  ASSUME TInv, [Next]_vars, NEW r \in Requests, Typed(r)
  PROVE  Typed(r)'
<1>1. \A q \in Requests : typed[q] \in 0 .. MaxAttempts + 1
  BY DEF TInv, TypeOK
<1>2. ASSUME NEW q \in Requests, Count(q) PROVE typed[r] > 0 => typed'[r] > 0
  <2>1. typed' = [typed EXCEPT ![q] = IF @ > MaxAttempts THEN @ ELSE @ + 1]
    BY <1>2 DEF Count
  <2> QED BY <1>1, <2>1, AttemptsAssumption DEF TInv, TypeOK
<1>3. ASSUME NEW s \in Sender, SenderStep(s) \/ SenderDies(s)
      PROVE  typed' = typed /\ direct \subseteq direct'
  BY <1>3 DEF SenderStep, SenderDies, Deduplicate, Enqueue, QueueExec, Push, Receipt, NoReceipt,
     Notify, NotifyFailed, Mark, MarkExec, Fail, Transition, WriteTransition
<1>4. ASSUME NEW h \in Hook, HookStep(h) \/ HookDies(h) \/ HookTimesOut(h)
      PROVE  direct' = direct /\ (typed' = typed \/ \E q \in Requests : Count(q))
  <2>1. hook[h].pc # "idle" => hook[h].req \in Requests
    BY DEF TInv, HookFits
  <2> QED BY <1>4, <2>1 DEF HookStep, HookDies, HookTimesOut, Claim, WriteClaim, CannotInject,
          InjectUnconfirmed, InjectConfirmed, Finalize, Record, WriteFinal
<1>5. CASE UNCHANGED vars \/ \E q \in Requests : LeaseLapses(q)
  BY <1>5 DEF vars, LeaseLapses, Typed
<1> QED BY <1>2, <1>3, <1>4, <1>5, WhoSteps DEF Typed

\* A hook that types counts it.
LEMMA Counts ==
  ASSUME TInv, NEW h \in Hook, InjectUnconfirmed(h) \/ InjectConfirmed(h)
  PROVE  Typed(hook[h].req)'
<1>1. /\ hook[h].req \in Requests /\ typed \in [Requests -> 0 .. MaxAttempts + 1]
      /\ hook'[h].req = hook[h].req
  BY DEF TInv, TypeOK, HookFits, InjectUnconfirmed, InjectConfirmed
<1>2. typed' = [typed EXCEPT ![hook[h].req] = IF @ > MaxAttempts THEN @ ELSE @ + 1]
  BY DEF InjectUnconfirmed, InjectConfirmed, Count
<1>3. typed'[hook[h].req] > 0
  BY <1>1, <1>2, AttemptsAssumption
<1> QED BY <1>1, <1>3 DEF Typed

\* Only a result that was confirmed is written down as notified.
LEMMA FinalStatus ==
  ASSUME TInv, NEW h \in Hook, hook[h].pc \in {"record", "write"}
  PROVE  /\ FinalEntry(h).status \in {"notified", "failed", "pending"}
         /\ FinalEntry(h).status = "notified" <=> hook[h].res = "confirmed"
<1>1. hook[h].res \in {"confirmed", "unconfirmed", "failed"}
  BY DEF TInv, TypeOK, HookFits, Results
<1> QED BY <1>1 DEF FinalEntry, Outcome

LEMMA EngineReceipts ==
  ASSUME RInv, TInv, [Next]_vars, NEW q \in Requests, Told(engine'.dispatch[q])
  PROVE  Typed(q)'
<1>0. engine \in EngineState /\ \A r \in Requests : engine.dispatch[r] \in DispatchStatus \cup {"none"}
  BY DEF TInv, TypeOK, EngineState
<1>1. CASE Told(engine.dispatch[q])
  BY <1>1, TypedStays DEF RInv
<1>2. ASSUME NEW op \in DispatchOps, NEW r \in Requests, TakesEffect(op, r),
             ~Told(engine.dispatch[q])
      PROVE  q = r /\ op \in {"notify", "deliver"} /\ op # "queue"
                   /\ (op = "deliver" => Told(engine.dispatch[q]))
  <2>1. engine' = Apply(engine, DispatchCommand(op, r)) /\ engine.dispatch[r] \in LegalFrom(op)
    BY <1>2 DEF TakesEffect
  <2>2. /\ \A x \in Requests \ {r} : engine'.dispatch[x] = engine.dispatch[x]
        /\ op = "queue" => engine'.dispatch[r] = Pushed(engine.dispatch[r], "pending")
        /\ op = "fail" => engine'.dispatch[r] = "failed"
    BY <1>0, <2>1, Applied
  <2>3. q = r
    BY <1>2, <2>2
  <2>4. op \notin {"queue", "fail"}
    BY <1>2, <2>2, <2>3 DEF Told, Pushed
  <2>5. op = "deliver" => engine.dispatch[q] = "notified"
    BY <2>1, <2>3 DEF LegalFrom
  <2> QED BY <2>3, <2>4, <2>5 DEF DispatchOps, Told
<1>3. ASSUME ~Told(engine.dispatch[q]) PROVE Typed(q)'
  <2>0. {"queue", "notify", "deliver", "fail"} \subseteq DispatchOps
    BY DEF DispatchOps
  <2>1. ~ \E s \in Sender : QueueExec(s) /\ TakesEffect("queue", s)
    BY <1>2, <1>3, <2>0 DEF Sender
  <2>2. ASSUME NEW s \in Sender, MarkExec(s), TakesEffect("notify", Req(s))
        PROVE  Typed(q)'
    <3>1. PICK r \in Requests : r = Req(s)
      BY DEF TInv, TypeOK, Req
    <3>2. q = r
      BY <1>2, <1>3, <2>0, <2>2, <3>1 DEF TakesEffect
    <3>3. Typed(q)
      BY <2>2, <3>1, <3>2 DEF RInv, Reporting, MarkExec
    <3> QED BY <3>3, TypedStays
  <2>3. ASSUME NEW h \in Hook, InjectConfirmed(h), TakesEffect("deliver", hook[h].req)
        PROVE  Typed(q)'
    <3>1. PICK r \in Requests : r = hook[h].req
      BY <2>3 DEF TInv, HookFits, InjectConfirmed
    <3> QED BY <1>2, <1>3, <2>0, <2>3, <3>1 DEF TakesEffect
  <2>4. ASSUME NEW h \in Hook, Record(h), TakesEffect(FinalOp(h), hook[h].req)
        PROVE  Typed(q)'
    <3>1. PICK r \in Requests : r = hook[h].req
      BY <2>4 DEF TInv, HookFits, Record
    <3>2. PICK op \in DispatchOps : op = FinalOp(h)
      BY <2>0 DEF FinalOp
    <3>3. q = r /\ op = "notify"
      BY <1>2, <1>3, <2>4, <3>1, <3>2 DEF TakesEffect, FinalOp
    <3>4. hook[h].res = "confirmed"
      BY <2>4, <3>2, <3>3, FinalStatus DEF FinalOp, Record
    <3>5. Typed(q)
      BY <3>1, <3>3, <3>4 DEF RInv
    <3> QED BY <3>5, TypedStays
  <2>5. engine' # engine
    BY <1>3
  <2> QED BY <2>1, <2>2, <2>3, <2>4, <2>5, StoreMoves DEF Executes, WritesList, Writes
<1> QED BY <1>1, <1>3

LEMMA ViewReceipts ==
  ASSUME RInv, TInv, [Next]_vars, NEW q \in Requests, Told(view'[q].status)
  PROVE  Typed(q)'
<1>0. \A r \in Requests : (Told(view[r].status) \/ Told(list[r].status)) => Typed(r)'
  BY TypedStays DEF RInv
<1>1. CASE view' = view
  BY <1>0, <1>1
<1>2. CASE view' = Rendered(engine')
  BY <1>2, EngineReceipts DEF Rendered
<1>3. ASSUME NEW r \in Requests, NEW entry, Writes(r, entry),
             Told(entry.status) => Typed(r)'
      PROVE  Typed(q)'
  <2>1. view' = [list EXCEPT ![r] = entry] /\ list \in [Requests -> Entry]
    BY <1>3 DEF Writes, TInv, TypeOK
  <2> QED BY <1>0, <1>3, <2>1
<1>4. ASSUME WritesList PROVE Typed(q)'
  <2>1. ASSUME NEW s \in Sender, Writes(s, [status |-> "pending", attempts |-> 0])
        PROVE  Typed(q)'
    BY <1>3, <2>1 DEF Sender, Told
  <2>2. ASSUME NEW s \in Sender, WriteTransition(s),
               NEW n, Writes(Req(s), [status |-> snd[s].to, attempts |-> n])
        PROVE  Typed(q)'
    <3>1. PICK r \in Requests : r = Req(s)
      BY DEF TInv, TypeOK, Req
    <3> DEFINE entry == [status |-> snd[s].to, attempts |-> n]
    <3>2. Told(entry.status) => Typed(r)
      BY <2>2, <3>1 DEF RInv, Reporting, WriteTransition, TInv, SenderFits, Told
    <3>3. Told(entry.status) => Typed(r)'
      BY <3>2, TypedStays
    <3>4. PICK e : e = entry
      OBVIOUS
    <3>5. Writes(r, e)
      BY <2>2, <3>1, <3>4 DEF Writes
    <3> QED BY <1>3, <3>3, <3>4, <3>5
  <2>3. ASSUME NEW h \in Hook, WriteClaim(h), Writes(hook[h].req, list[hook[h].req])
        PROVE  Typed(q)'
    <3>1. PICK r \in Requests : r = hook[h].req
      BY <2>3 DEF TInv, HookFits, WriteClaim
    <3>2. PICK e : e = list[r]
      OBVIOUS
    <3>3. Writes(r, e)
      BY <2>3, <3>1, <3>2 DEF Writes
    <3> QED BY <1>0, <1>3, <3>2, <3>3
  <2>4. ASSUME NEW h \in Hook, WriteFinal(h), Writes(hook[h].req, FinalEntry(h))
        PROVE  Typed(q)'
    <3>1. PICK r \in Requests : r = hook[h].req
      BY <2>4 DEF TInv, HookFits, WriteFinal
    <3>2. PICK e : e = FinalEntry(h)
      OBVIOUS
    <3>3. Told(e.status) => Typed(r)
      BY <2>4, <3>1, <3>2, FinalStatus DEF RInv, WriteFinal, Told
    <3>4. Writes(r, e)
      BY <2>4, <3>1, <3>2 DEF Writes
    <3> QED BY <1>3, <3>3, <3>4, TypedStays
  <2> QED BY <1>4, <2>1, <2>2, <2>3, <2>4 DEF WritesList
<1>5. Executes => view' = view \/ view' = Rendered(engine')
  BY DEF Executes, TakesEffect
<1> QED BY <1>1, <1>2, <1>4, <1>5, StoreMoves

\* Whose state a step may change.
\* Where each step of a sender leads.
LEMMA SenderPlaces ==
  ASSUME snd \in [Sender -> SenderState], NEW s \in Sender
  PROVE  /\ Deduplicate(s) => snd'[s].pc \in {"done", "notify", "wait"}
         /\ Enqueue(s) => snd'[s].pc = "queue"
         /\ QueueExec(s) => snd'[s].pc \in {"wait", "notify", "push"}
         /\ Push(s) => snd'[s].pc \in {"wait", "notify"}
         /\ Receipt(s) => snd'[s].pc \in {"done", "notify", "notifyFailed"}
         /\ NoReceipt(s) => snd'[s].pc = "notify"
         /\ Notify(s) => snd'[s].pc \in {"mark", "fail"}
         /\ NotifyFailed(s) => snd'[s].pc \in {"fail", "transition"}
         /\ Mark(s) => snd'[s].pc \in {"markExec", "fail", "done"}
         /\ MarkExec(s) \/ Fail(s) => snd'[s].pc \in {"done", "transition"}
         /\ Transition(s) => snd'[s].pc \in {"write", "fail", "done"}
         /\ WriteTransition(s) \/ SenderDies(s) => snd'[s].pc = "done"
<1>0. \A where : Goto(s, where) => snd'[s].pc = where
  BY DEF Goto, SenderState
<1>1. Deduplicate(s) => snd'[s].pc \in {"done", "notify", "wait"}
  BY <1>0 DEF Deduplicate, Onward
<1>2. Enqueue(s) => snd'[s].pc = "queue"
  BY <1>0 DEF Enqueue
<1>3. QueueExec(s) => snd'[s].pc \in {"wait", "notify", "push"}
  BY <1>0 DEF QueueExec, Onward
<1>4. Push(s) => snd'[s].pc \in {"wait", "notify"}
  BY <1>0 DEF Push, Onward
<1>5. Receipt(s) => snd'[s].pc \in {"done", "notify", "notifyFailed"}
  BY <1>0 DEF Receipt
<1>6. NoReceipt(s) => snd'[s].pc = "notify"
  BY <1>0 DEF NoReceipt
<1>7. Notify(s) => snd'[s].pc \in {"mark", "fail"}
  BY <1>0 DEF Notify
<1>8. NotifyFailed(s) => snd'[s].pc \in {"fail", "transition"}
  BY <1>0 DEF NotifyFailed, SenderState
<1>9. Mark(s) => snd'[s].pc \in {"markExec", "fail", "done"}
  BY <1>0 DEF Mark
<1>10. MarkExec(s) => snd'[s].pc \in {"done", "transition"}
  BY <1>0 DEF MarkExec, SenderState
<1>11. Fail(s) => snd'[s].pc \in {"done", "transition"}
  BY <1>0 DEF Fail, SenderState
<1>12. Transition(s) => snd'[s].pc \in {"write", "fail", "done"}
  BY <1>0 DEF Transition
<1>13. WriteTransition(s) => snd'[s].pc = "done"
  BY <1>0 DEF WriteTransition
<1>14. SenderDies(s) => snd'[s].pc = "done"
  BY <1>0 DEF SenderDies
<1> QED BY <1>1, <1>2, <1>3, <1>4, <1>5, <1>6, <1>7, <1>8, <1>9, <1>10, <1>11, <1>12, <1>13, <1>14
LEMMA SenderMoves ==
  ASSUME TInv, [Next]_vars, NEW s \in Sender
  PROVE  snd'[s] = snd[s] \/ SenderStep(s) \/ SenderDies(s)
<1>0. snd \in [Sender -> SenderState]
  BY DEF TInv, TypeOK, SenderState
<1>1. ASSUME NEW x \in Sender, x # s, SenderStep(x) \/ SenderDies(x) PROVE snd'[s] = snd[s]
  BY <1>0, <1>1 DEF SenderStep, SenderDies, Deduplicate, Enqueue, QueueExec, Push, Receipt,
     NoReceipt, Notify, NotifyFailed, Mark, MarkExec, Fail, Transition, WriteTransition, Goto
<1>2. ASSUME NEW h \in Hook, HookStep(h) \/ HookDies(h) \/ HookTimesOut(h) PROVE snd' = snd
  BY <1>2 DEF HookStep, HookDies, HookTimesOut, Claim, WriteClaim, CannotInject,
     InjectUnconfirmed, InjectConfirmed, Finalize, Record, WriteFinal
<1>3. CASE UNCHANGED vars \/ \E q \in Requests : LeaseLapses(q)
  BY <1>3 DEF vars, LeaseLapses
<1> QED BY <1>1, <1>2, <1>3, WhoSteps

LEMMA ReportReceipts ==
  ASSUME RInv, TInv, [Next]_vars, NEW s \in Sender, Reporting(s)'
  PROVE  Typed(Req(s))'
<1>0. /\ snd \in [Sender -> SenderState] /\ Req(s) \in Requests
  BY DEF TInv, TypeOK, SenderState, Req
<1> DEFINE r == Req(s)
<1>1. Typed(r) => (typed'[r] > 0 \/ r \in direct')
  <2>1. PICK q \in Requests : q = r
    BY <1>0
  <2> HIDE DEF r
  <2> QED BY <2>1, TypedStays DEF Typed
<1>2. snd'[s].req = snd[s].req => (Typed(Req(s))' <=> (typed'[r] > 0 \/ r \in direct'))
  BY DEF Typed, Req
<1>3. Reporting(s) => Typed(r)
  BY DEF RInv
<1> HIDE DEF r
<1>4. CASE snd'[s] = snd[s]
  BY <1>1, <1>2, <1>3, <1>4 DEF Reporting
<1>5. CASE Notify(s)
  <2>1. snd'[s].pc \in {"mark", "fail"} /\ snd'[s].req = snd[s].req
    BY <1>0, <1>5, SenderGoes DEF Notify, Goto, SenderPc
  <2>2. snd'[s].pc = "mark" => r \in direct'
    BY <1>0, <1>5, SenderGoes DEF Notify, Goto, SenderPc, r
  <2> QED BY <1>2, <2>1, <2>2 DEF Reporting
<1>6. CASE Mark(s) \/ MarkExec(s)
  <2>1. snd'[s].req = snd[s].req /\ Reporting(s)
    <3>1. CASE Mark(s)
      BY <1>0, <3>1 DEF Mark, Goto, Reporting, SenderState
    <3>2. CASE MarkExec(s)
      BY <1>0, <3>2 DEF MarkExec, Goto, Reporting, SenderState
    <3> QED BY <1>6, <3>1, <3>2
  <2> QED BY <1>1, <1>2, <1>3, <2>1
<1>7. CASE Transition(s) \/ WriteTransition(s)
  <2>1. /\ snd'[s].req = snd[s].req /\ snd'[s].to = snd[s].to
        /\ snd[s].pc \in {"transition", "write"}
        /\ snd'[s].pc \notin {"mark", "markExec"}
    <3>1. PICK where \in {"write", "fail", "done"} : snd' = [snd EXCEPT ![s].pc = where]
      BY <1>7 DEF Transition, WriteTransition, Goto
    <3> QED BY <1>0, <1>7, <3>1, SenderGoes DEF Transition, WriteTransition, SenderPc
  <2> QED BY <1>1, <1>2, <1>3, <2>1 DEF Reporting
<1>8. CASE NotifyFailed(s) \/ Fail(s)
  <2>1. \/ snd'[s].pc \in {"fail", "done"}
        \/ snd'[s].pc = "transition" /\ snd'[s].to = "failed"
    <3>1. CASE NotifyFailed(s)
      BY <1>0, <3>1 DEF NotifyFailed, Goto, SenderState
    <3>2. CASE Fail(s)
      BY <1>0, <3>2 DEF Fail, Goto, SenderState
    <3> QED BY <1>8, <3>1, <3>2
  <2> QED BY <2>1 DEF Reporting
<1>9. CASE Deduplicate(s) \/ Enqueue(s) \/ QueueExec(s) \/ Push(s) \/ Receipt(s) \/ NoReceipt(s)
             \/ SenderDies(s)
  <2>1. snd'[s].pc \in {"done", "wait", "queue", "push", "notify", "notifyFailed"}
    BY <1>0, <1>9, SenderPlaces DEF Onward
  <2> QED BY <2>1 DEF Reporting
<1> QED BY <1>4, <1>5, <1>6, <1>7, <1>8, <1>9, SenderMoves DEF SenderStep

LEMMA HookReceipts ==
  ASSUME RInv, TInv, [Next]_vars, NEW k \in Hook, hook'[k].res = "confirmed"
  PROVE  Typed(hook[k].req)'
<1>0. hook \in [Hook -> HookState] /\ HookFits(k)
  BY DEF TInv, TypeOK, HookState
<1>1. CASE hook[k].res = "confirmed" /\ hook'[k].req = hook[k].req
  <2>1. PICK q \in Requests : q = hook[k].req
    BY <1>0, <1>1 DEF HookFits
  <2>2. Typed(q)
    BY <1>1, <2>1 DEF RInv
  <2> QED BY <1>1, <2>1, <2>2, TypedStays DEF Typed
<1>2. CASE InjectConfirmed(k)
  BY <1>2, Counts
<1>3. \/ hook[k].res = "confirmed" /\ hook'[k].req = hook[k].req
      \/ InjectConfirmed(k)
  <2>1. ASSUME NEW s \in Sender, SenderStep(s) \/ SenderDies(s) PROVE hook' = hook
    BY <2>1 DEF SenderStep, SenderDies, Deduplicate, Enqueue, QueueExec, Push, Receipt, NoReceipt,
       Notify, NotifyFailed, Mark, MarkExec, Fail, Transition, WriteTransition
  <2>2. ASSUME NEW h \in Hook, HookStep(h) \/ HookDies(h) \/ HookTimesOut(h), ~InjectConfirmed(h)
        PROVE  hook'[k].res = "confirmed" => hook'[k] = hook[k]
                                     \/ (hook'[k].res = hook[k].res /\ hook'[k].req = hook[k].req)
    BY <1>0, <2>2 DEF HookStep, HookDies, HookTimesOut, Claim, WriteClaim, CannotInject,
       InjectUnconfirmed, Finalize, Record, WriteFinal, GotoH, EndTick, HookState
  <2>3. ASSUME NEW h \in Hook, InjectConfirmed(h), h # k PROVE hook'[k] = hook[k]
    BY <1>0, <2>3 DEF InjectConfirmed
  <2>4. CASE UNCHANGED vars \/ \E q \in Requests : LeaseLapses(q)
    BY <2>4 DEF vars, LeaseLapses
  <2> QED BY <2>1, <2>2, <2>3, <2>4, WhoSteps
<1> QED BY <1>1, <1>2, <1>3

LEMMA NextRInv == RInv /\ TInv /\ [Next]_vars => RInv'
<1> SUFFICES ASSUME RInv, TInv, [Next]_vars PROVE RInv'
  OBVIOUS
<1>1. ASSUME NEW r \in Requests, Told(list'[r].status) PROVE Typed(r)'
  <2>1. list' = list \/ list' = view \/ list' = NoList
    BY ListMoves DEF Unlock
  <2>2. ~Told(NoList[r].status)
    BY DEF NoList, Absent, Told
  <2> QED BY <1>1, <2>1, <2>2, TypedStays DEF RInv
<1>2. \A r \in Requests : (Told(engine'.dispatch[r]) \/ Told(view'[r].status)
                            \/ Told(list'[r].status)) => Typed(r)'
  BY <1>1, EngineReceipts, ViewReceipts
<1>3. \A s \in Sender : Reporting(s)' => Typed(Req(s))'
  BY ReportReceipts
<1>4. \A h \in Hook : hook'[h].res = "confirmed" => Typed(hook[h].req)'
  BY HookReceipts
<1> QED BY <1>2, <1>3, <1>4 DEF RInv, Told

\* Whoever is about to report a request as typed has typed it.
THEOREM RInvariance == Spec => []RInv
<1>1. Init => RInv
  BY DEF Init, RInv, NewEngine, NoList, Absent, Told, Reporting
<1> QED BY <1>1, NextRInv, TInvariance, PTL DEF Spec

\* What is notified or delivered was typed into the pane, by a hook or by a
\* sender, whatever execs fail, lists are overwritten or processes die.
THEOREM ReceiptsTrue == Spec => []ReceiptsAreTrue
<1>1. RInv => ReceiptsAreTrue
  BY DEF RInv, ReceiptsAreTrue, StatusOf, Told, Typed
<1> QED BY <1>1, RInvariance, PTL

-----------------------------------------------------------------------------
(* Execs, once more: who else is where when one takes effect.               *)

Effect(op, r) ==
  /\ op \in DispatchOps /\ engine.dispatch[r] \in LegalFrom(op)
  /\ engine' = Apply(engine, DispatchCommand(op, r))

Queues(s) ==
  /\ snd[s].pc = "queue" /\ snd'[s].pc \in {"notify", "wait"} /\ hook' = hook /\ typed' = typed
  /\ Effect("queue", s) /\ view' = Rendered(engine') /\ Unlock
  /\ LostBy(view, engine') \subseteq mishap'

Updates(op, r) ==
  /\ op \in {"notify", "deliver"}
  /\ Effect(op, r) /\ view' = Rendered(engine')
  /\ UNCHANGED <<list, lock>> /\ dirty' = (lock # Nobody)
  /\ LostBy(view, engine') \subseteq mishap'

Records(h) ==
  /\ hook[h].pc = "record" /\ hook'[h].pc = "write" /\ typed' = typed
  /\ hook'[h].req = hook[h].req /\ hook'[h].res = hook[h].res /\ Only(hook, h)
  /\ FinalEntry(h).status # "pending"
  /\ Effect(FinalOp(h), hook[h].req) /\ view' = Rendered(engine')
  /\ UNCHANGED <<list, lock, dirty>>
  /\ LostBy(view, engine') \ {"reset"} \subseteq mishap'

Vanishes(op, r) ==
  /\ Effect(op, r) /\ "unreported" \in mishap' /\ UNCHANGED <<view, list, lock, dirty>>
  /\ op = "queue" => snd[r].pc = "queue" /\ snd'[r].pc = "push"

ListWritten ==
  \/ \E s \in Sender :
       /\ snd[s].pc = "push" /\ snd'[s].pc \in {"notify", "wait"} /\ hook' = hook
       /\ engine.dispatch[s] = "none" => "unqueued" \in mishap'
       /\ Writes(s, [status |-> "pending", attempts |-> 0])
  \/ \E s \in Sender :
       /\ snd[s].pc = "write" /\ hook' = hook
       /\ \E n : Writes(Req(s), [status |-> snd[s].to, attempts |-> n])
  \/ \E h \in Hook :
       /\ hook[h].pc = "claim" /\ GoesOn(h) /\ hook'[h].pc = "inject"
       /\ Writes(hook[h].req, list[hook[h].req])
  \/ \E h \in Hook :
       /\ hook[h].pc = "write" /\ Ends(h)
       /\ Writes(hook[h].req, FinalEntry(h))

LEMMA ListWrites == TInv /\ [Next]_vars /\ WritesList => ListWritten /\ typed' = typed
<1> SUFFICES ASSUME TInv, [Next]_vars, WritesList PROVE ListWritten /\ typed' = typed
  OBVIOUS
<1>0. hook \in [Hook -> HookState] /\ snd \in [Sender -> SenderState]
  BY DEF TInv, TypeOK, HookState, SenderState
<1>1. ASSUME NEW s \in Sender, Push(s)
      PROVE  /\ snd[s].pc = "push" /\ snd'[s].pc \in {"notify", "wait"} /\ hook' = hook
             /\ engine.dispatch[s] = "none" => "unqueued" \in mishap'
             /\ typed' = typed
  BY <1>0, <1>1, SenderGoes DEF Push, WriteListAndUnlock, Goto, Onward, SenderPc
<1>2. ASSUME NEW s \in Sender, WriteTransition(s)
      PROVE  snd[s].pc = "write" /\ hook' = hook /\ typed' = typed
  BY <1>2 DEF WriteTransition
<1>3. ASSUME NEW h \in Hook, WriteClaim(h)
      PROVE  hook[h].pc = "claim" /\ GoesOn(h) /\ hook'[h].pc = "inject" /\ typed' = typed
  BY <1>0, <1>3, HookGoes DEF WriteClaim, GotoH, GoesOn, HookPc
<1>4. ASSUME NEW h \in Hook, WriteFinal(h)
      PROVE  hook[h].pc = "write" /\ Ends(h) /\ typed' = typed
  BY <1>0, <1>4, HookEnds DEF WriteFinal, Ends
<1> QED BY <1>1, <1>2, <1>3, <1>4 DEF WritesList, ListWritten

LEMMA EngineMoves ==
  ASSUME TInv, [Next]_vars
  PROVE  \/ engine' = engine /\ view' = view
         \/ \E s \in Sender : Queues(s)
         \/ \E op \in DispatchOps, r \in Requests : Updates(op, r) \/ Vanishes(op, r)
         \/ \E h \in Hook : Records(h)
         \/ WritesList
<1>0. /\ hook \in [Hook -> HookState] /\ snd \in [Sender -> SenderState]
      /\ \A s \in Sender : s \in Requests /\ Req(s) \in Requests
      /\ \A h \in Hook : hook[h].pc # "idle" => hook[h].req \in Requests
      /\ {"queue", "notify", "deliver", "fail"} \subseteq DispatchOps
  BY DEF TInv, TypeOK, HookState, SenderState, HookFits, Sender, Req, DispatchOps
<1> SUFFICES ASSUME engine' # engine \/ view' # view, Executes
             PROVE  \/ \E s \in Sender : Queues(s)
                    \/ \E op \in DispatchOps, r \in Requests : Updates(op, r) \/ Vanishes(op, r)
                    \/ \E h \in Hook : Records(h)
  BY StoreMoves
<1>1. ASSUME NEW s \in Sender, QueueExec(s), TakesEffect("queue", s)
      PROVE  Queues(s) \/ Vanishes("queue", s)
  <2> DEFINE c == DispatchCommand("queue", s)
  <2>1. Effect("queue", s) /\ snd[s].pc = "queue" /\ hook' = hook /\ typed' = typed
    BY <1>0, <1>1 DEF TakesEffect, Effect, QueueExec
  <2>2. \/ /\ Accepted(c) /\ mishap' = mishap \cup LostBy(view, engine') /\ Unlock
           /\ Goto(s, Onward(s))
        \/ Failed(c) /\ Goto(s, "push") /\ UNCHANGED <<lock, list, dirty>>
    BY <1>1 DEF QueueExec
  <2>3. CASE Accepted(c) /\ mishap' = mishap \cup LostBy(view, engine') /\ Unlock
               /\ Goto(s, Onward(s))
    <3>1. snd'[s].pc \in {"notify", "wait"}
      BY <1>0, <2>3, SenderGoes DEF Goto, Onward, SenderPc
    <3>2. view' = Rendered(engine')
      BY <2>3 DEF Accepted
    <3> QED BY <2>1, <2>3, <3>1, <3>2 DEF Queues
  <2>4. CASE Failed(c) /\ Goto(s, "push") /\ UNCHANGED <<lock, list, dirty>>
    <3>1. snd'[s].pc = "push"
      BY <1>0, <2>4, SenderGoes DEF Goto, SenderPc
    <3>2. view' = view /\ "unreported" \in mishap'
      BY <2>4 DEF Failed, Refused, NotRun, RunUnreported
    <3> QED BY <2>1, <2>4, <3>1, <3>2 DEF Vanishes
  <2> QED BY <2>2, <2>3, <2>4
<1>2. ASSUME NEW s \in Sender, MarkExec(s), TakesEffect("notify", Req(s))
      PROVE  \E r \in Requests : Updates("notify", r) \/ Vanishes("notify", r)
  <2>1. PICK r \in Requests : r = Req(s)
    BY <1>0
  <2> DEFINE c == DispatchCommand("notify", r)
  <2>2. Effect("notify", r) /\ UNCHANGED <<list, lock>>
    BY <1>0, <1>2, <2>1 DEF TakesEffect, Effect, MarkExec
  <2>3. (Accepted(c) /\ RenderUnlocked) \/ (Failed(c) /\ dirty' = dirty)
    BY <1>2, <2>1 DEF MarkExec
  <2>4. CASE Accepted(c) /\ RenderUnlocked
    BY <2>2, <2>4 DEF Updates, Accepted, RenderUnlocked
  <2>5. CASE Failed(c) /\ dirty' = dirty
    BY <2>2, <2>5 DEF Vanishes, Failed, Refused, NotRun, RunUnreported
  <2> QED BY <2>3, <2>4, <2>5
<1>3. ASSUME NEW h \in Hook, InjectConfirmed(h), TakesEffect("deliver", hook[h].req)
      PROVE  \E r \in Requests : Updates("deliver", r) \/ Vanishes("deliver", r)
  <2>1. PICK r \in Requests : r = hook[h].req
    BY <1>0, <1>3 DEF InjectConfirmed
  <2> DEFINE c == DispatchCommand("deliver", r)
  <2>2. Effect("deliver", r) /\ UNCHANGED <<list, lock>>
    BY <1>0, <1>3, <2>1 DEF TakesEffect, Effect, InjectConfirmed
  <2>3. (Accepted(c) /\ RenderUnlocked) \/ (Failed(c) /\ dirty' = dirty)
    BY <1>3, <2>1 DEF InjectConfirmed
  <2>4. CASE Accepted(c) /\ RenderUnlocked
    BY <2>2, <2>4 DEF Updates, Accepted, RenderUnlocked
  <2>5. CASE Failed(c) /\ dirty' = dirty
    BY <2>2, <2>5 DEF Vanishes, Failed, Refused, NotRun, RunUnreported
  <2> QED BY <2>3, <2>4, <2>5
<1>4. ASSUME NEW h \in Hook, Record(h), FinalEntry(h).status # "pending",
             TakesEffect(FinalOp(h), hook[h].req)
      PROVE  Records(h) \/ \E op \in DispatchOps, r \in Requests : Vanishes(op, r)
  <2>1. PICK r \in Requests : r = hook[h].req
    BY <1>0, <1>4 DEF Record
  <2>2. PICK op \in DispatchOps : op = FinalOp(h) /\ op # "queue"
    BY <1>0 DEF FinalOp
  <2> DEFINE c == DispatchCommand(op, r)
  <2>3. Effect(op, r) /\ UNCHANGED <<list, lock, dirty>> /\ typed' = typed
    BY <1>4, <2>1, <2>2 DEF TakesEffect, Effect, Record
  <2>4. (Accepted(c) /\ mishap' = mishap \cup (LostBy(view, engine') \ {"reset"})) \/ Failed(c)
    BY <1>4, <2>1, <2>2 DEF Record, FinalOp
  <2>5. CASE Accepted(c) /\ mishap' = mishap \cup (LostBy(view, engine') \ {"reset"})
    <3>1. /\ hook[h].pc = "record" /\ hook'[h].pc = "write"
          /\ hook'[h].req = hook[h].req /\ hook'[h].res = hook[h].res /\ Only(hook, h)
      BY <1>0, <1>4, HookGoes DEF Record, GotoH, HookPc
    <3>2. Effect(FinalOp(h), hook[h].req)
      BY <2>1, <2>2, <2>3 DEF Effect
    <3> QED BY <1>4, <2>3, <2>5, <3>1, <3>2 DEF Records, Accepted
  <2>6. CASE Failed(c)
    BY <2>2, <2>3, <2>6 DEF Vanishes, Failed, Refused, NotRun, RunUnreported
  <2> QED BY <2>4, <2>5, <2>6
<1> QED BY <1>0, <1>1, <1>2, <1>3, <1>4 DEF Executes

\* The hook that types is at work, and counts it.
LEMMA WhoTypes ==
  ASSUME TInv, [Next]_vars
  PROVE  \/ typed' = typed
         \/ \E h \in Hook :
              /\ hook[h].pc = "inject" /\ hook[h].req \in Requests /\ Count(hook[h].req)
              /\ hook'[h].pc = "finalize" /\ hook'[h].req = hook[h].req
              /\ hook'[h].res # "none" /\ Only(hook, h)
              /\ UNCHANGED <<snd, list, lock>>
<1>0. hook \in [Hook -> HookState] /\ \A h \in Hook : HookFits(h)
  BY DEF TInv, TypeOK, HookState
<1>1. ASSUME NEW s \in Sender, SenderStep(s) \/ SenderDies(s) PROVE typed' = typed
  BY <1>1 DEF SenderStep, SenderDies, Deduplicate, Enqueue, QueueExec, Push, Receipt, NoReceipt,
     Notify, NotifyFailed, Mark, MarkExec, Fail, Transition, WriteTransition
<1>2. ASSUME NEW h \in Hook, HookStep(h) \/ HookDies(h) \/ HookTimesOut(h),
             ~InjectUnconfirmed(h), ~InjectConfirmed(h)
      PROVE  typed' = typed
  BY <1>2 DEF HookStep, HookDies, HookTimesOut, Claim, WriteClaim, CannotInject, Finalize,
     Record, WriteFinal
<1>3. ASSUME NEW h \in Hook, InjectUnconfirmed(h) \/ InjectConfirmed(h)
      PROVE  /\ hook[h].pc = "inject" /\ hook[h].req \in Requests /\ Count(hook[h].req)
             /\ hook'[h].pc = "finalize" /\ hook'[h].req = hook[h].req
             /\ hook'[h].res # "none" /\ Only(hook, h)
             /\ UNCHANGED <<snd, list, lock>>
  <2>1. PICK res \in {"unconfirmed", "confirmed"} :
          hook' = [hook EXCEPT ![h].pc = "finalize", ![h].res = res]
    BY <1>3 DEF InjectUnconfirmed, InjectConfirmed
  <2>2. /\ hook[h].pc = "inject" /\ Count(hook[h].req) /\ UNCHANGED <<snd, list, lock>>
    BY <1>3 DEF InjectUnconfirmed, InjectConfirmed
  <2> QED BY <1>0, <2>1, <2>2 DEF Only, HookState, HookFits
<1>4. CASE UNCHANGED vars \/ \E r \in Requests : LeaseLapses(r)
  BY <1>4 DEF vars, LeaseLapses
<1> QED BY <1>1, <1>2, <1>3, <1>4, WhoSteps

-----------------------------------------------------------------------------
(* What differs.                                                            *)

\* What an exec does: only a queue makes a record.
LEMMA Effects ==
  ASSUME TInv, NEW op \in DispatchOps, NEW r \in Requests, Effect(op, r)
  PROVE  /\ engine' \in EngineState
         /\ \A q \in Requests \ {r} : engine'.dispatch[q] = engine.dispatch[q]
         /\ op # "queue" => engine.dispatch[r] # "none"
         /\ engine'.dispatch[r] # "none"
<1>1. engine \in EngineState
  BY DEF TInv, TypeOK
<1>2. /\ engine' = Apply(engine, DispatchCommand(op, r)) /\ engine.dispatch[r] \in LegalFrom(op)
  BY DEF Effect
<1>3. /\ engine' \in EngineState
      /\ \A q \in Requests \ {r} : engine'.dispatch[q] = engine.dispatch[q]
      /\ op = "queue" => engine'.dispatch[r] = Pushed(engine.dispatch[r], "pending")
      /\ op = "notify" => engine'.dispatch[r] = "notified"
      /\ op = "deliver" => engine'.dispatch[r] = "delivered"
      /\ op = "fail" => engine'.dispatch[r] = "failed"
  BY <1>1, <1>2, Applied
<1>4. op # "queue" => engine.dispatch[r] # "none"
  BY <1>2 DEF LegalFrom, DispatchOps, Unfinished
<1>5. engine'.dispatch[r] # "none"
  BY <1>3 DEF DispatchOps, Pushed
<1> QED BY <1>3, <1>4, <1>5

\* While every exec that takes effect renders its view, a step does one of these.
LEMMA Reported ==
  ASSUME TInv, [Next]_vars, "unreported" \notin mishap'
  PROVE  \/ engine' = engine /\ view' = view
         \/ \E s \in Sender : Queues(s)
         \/ \E op \in DispatchOps, r \in Requests : Updates(op, r)
         \/ \E h \in Hook : Records(h)
         \/ WritesList
BY EngineMoves DEF Vanishes

\* A request that is not queued yet is left alone.
LEMMA BeforeQueue ==
  ASSUME TInv, [Next]_vars, NEW s \in Sender, snd'[s].pc \in {"idle", "queue", "push"}
  PROVE  snd[s].pc \in {"idle", "queue", "push"}
<1>0. snd \in [Sender -> SenderState]
  BY DEF TInv, TypeOK, SenderState
<1>1. CASE snd'[s] = snd[s]
  BY <1>1
<1>2. CASE SenderStep(s)
  <2>1. Deduplicate(s) => snd'[s].pc \in {"done", "wait"}
    BY <1>0 DEF Deduplicate, SenderState
  <2>2. ~Deduplicate(s) /\ ~Enqueue(s) /\ ~QueueExec(s) =>
          snd'[s].pc \notin {"idle", "queue", "push"}
    BY <1>0, <1>2 DEF SenderStep, Push, Receipt, NoReceipt, Notify, NotifyFailed, Mark, MarkExec,
       Fail, Transition, WriteTransition, Goto, Onward, SenderState
  <2>3. Enqueue(s) \/ QueueExec(s) => snd[s].pc \in {"idle", "queue"}
    BY DEF Enqueue, QueueExec
  <2> QED BY <2>1, <2>2, <2>3
<1>3. CASE SenderDies(s)
  BY <1>0, <1>3 DEF SenderDies, Goto, SenderState
<1> QED BY <1>1, <1>2, <1>3, SenderMoves

\* A sender that writes found its request in the list, so did a hook.
LEMMA FoundInList ==
  ASSUME TInv
  PROVE  /\ \A s \in Sender : snd[s].pc = "write" =>
              Req(s) \in Requests /\ list[Req(s)].status # "none"
         /\ \A h \in Hook : hook[h].pc = "write" =>
              hook[h].req \in Requests /\ list[hook[h].req].status = "pending"
<1>1. ASSUME NEW s \in Sender, snd[s].pc = "write"
      PROVE  Req(s) \in Requests /\ list[Req(s)].status # "none"
  <2>1. /\ snd[s] \in SenderState /\ SenderFits(s)
    BY DEF TInv, TypeOK, SenderState
  <2> QED BY <1>1, <2>1 DEF SenderFits, SenderState, MayTransition, CanTransition, Transitions,
             Req, DispatchStatus, Unfinished, Finished
<1>2. ASSUME NEW h \in Hook, hook[h].pc = "write"
      PROVE  hook[h].req \in Requests /\ list[hook[h].req].status = "pending"
  BY <1>2 DEF TInv, HookFits
<1> QED BY <1>1, <1>2

\* What a list holds is in the view that is written from it.
LEMMA Written ==
  ASSUME TInv, ListWritten
  PROVE  /\ engine' = engine /\ Unlock /\ (dirty => "stale" \in mishap') /\ lock # Nobody
         /\ \E r \in Requests :
              /\ \A q \in Requests \ {r} : view'[q] = list[q]
              /\ view'[r] = list[r] \/ view'[r].status # "none"
              /\ \/ snd[r].pc = "push" /\ snd'[r].pc \in {"notify", "wait"}
                 \/ list[r].status # "none"
                 \/ \E h \in Hook : Working(h, r)
<1> DEFINE WrittenInto(r) ==
      /\ engine' = engine /\ Unlock /\ (dirty => "stale" \in mishap') /\ lock # Nobody
      /\ \A q \in Requests \ {r} : view'[q] = list[q]
      /\ view'[r] = list[r] \/ view'[r].status # "none"
      /\ \/ snd[r].pc = "push" /\ snd'[r].pc \in {"notify", "wait"}
         \/ list[r].status # "none"
         \/ \E h \in Hook : Working(h, r)
<1>0. /\ list \in [Requests -> Entry] /\ Nobody \notin Hook \cup Requests
      /\ Sender = Requests
      /\ \A s \in Sender : snd[s].pc \in {"push", "write"} => lock = s
      /\ \A h \in Hook : hook[h].pc \in {"claim", "write"} => lock = h
  BY HookAssumption DEF TInv, TypeOK, Sender
<1>1. ASSUME NEW s \in Sender, snd[s].pc = "push", snd'[s].pc \in {"notify", "wait"},
             Writes(s, [status |-> "pending", attempts |-> 0])
      PROVE  WrittenInto(s)
  BY <1>0, <1>1 DEF Writes
<1>2. ASSUME NEW s \in Sender, snd[s].pc = "write", NEW n,
             Writes(Req(s), [status |-> snd[s].to, attempts |-> n])
      PROVE  \E r \in Requests : WrittenInto(r)
  <2>1. PICK r \in Requests : r = Req(s)
    BY <1>2, FoundInList
  <2>2. snd[s].to # "none" /\ list[r].status # "none"
    BY <1>2, <2>1, FoundInList DEF TInv, SenderFits
  <2> QED BY <1>0, <1>2, <2>1, <2>2 DEF Writes
<1>3. ASSUME NEW h \in Hook, hook[h].pc = "claim", Writes(hook[h].req, list[hook[h].req])
      PROVE  \E r \in Requests : WrittenInto(r)
  <2>1. PICK r \in Requests : r = hook[h].req
    BY <1>3 DEF TInv, HookFits
  <2> QED BY <1>0, <1>3, <2>1 DEF Writes, Working
<1>4. ASSUME NEW h \in Hook, hook[h].pc = "write", Writes(hook[h].req, FinalEntry(h))
      PROVE  \E r \in Requests : WrittenInto(r)
  <2>1. PICK r \in Requests : r = hook[h].req
    BY <1>4, FoundInList
  <2>2. FinalEntry(h).status # "none"
    BY <1>4, FinalStatus
  <2> QED BY <1>0, <1>4, <2>1, <2>2 DEF Writes, Working
<1>5. \E r \in Requests : WrittenInto(r)
  <2> HIDE DEF WrittenInto
  <2> QED BY <1>0, <1>1, <1>2, <1>3, <1>4 DEF ListWritten
<1> QED BY <1>5

\* What is not known yet stays so until its sender has queued it.
LEMMA UnknownStays ==
  ASSUME TInv, BInv, [Next]_vars, "unreported" \notin mishap',
         NEW s \in Sender, snd'[s].pc \in {"idle", "queue", "push"}
  PROVE  Unknown(s)'
<1>0. /\ snd[s].pc \in {"idle", "queue", "push"} /\ "unreported" \notin mishap
      /\ s \in Requests /\ Unknown(s)
      /\ engine \in EngineState /\ hook \in [Hook -> HookState]
      /\ typed \in [Requests -> 0 .. MaxAttempts + 1]
  BY BeforeQueue, MishapsStay DEF BInv, TInv, TypeOK, HookState, Sender
<1>1. engine'.dispatch[s] = "none" /\ view'[s].status = "none"
  <2>0. engine.dispatch[s] = "none" /\ view[s].status = "none" /\ list[s].status = "none"
    BY <1>0 DEF Unknown
  <2>1. ASSUME NEW op \in DispatchOps, NEW r \in Requests, Effect(op, r),
               view' = Rendered(engine'), op = "queue" => r # s
        PROVE  engine'.dispatch[s] = "none" /\ view'[s].status = "none"
    <3>1. engine'.dispatch[s] = "none"
      BY <2>0, <2>1, <1>0, Effects
    <3> QED BY <2>1, <3>1, <1>0 DEF Rendered
  <2>2. ASSUME NEW x \in Sender, Queues(x)
        PROVE  engine'.dispatch[s] = "none" /\ view'[s].status = "none"
    BY <1>0, <2>1, <2>2 DEF Queues, Effect, Sender
  <2>3. ASSUME NEW op \in DispatchOps, NEW r \in Requests, Updates(op, r)
        PROVE  engine'.dispatch[s] = "none" /\ view'[s].status = "none"
    BY <2>1, <2>3 DEF Updates
  <2>4. ASSUME NEW h \in Hook, Records(h)
        PROVE  engine'.dispatch[s] = "none" /\ view'[s].status = "none"
    <3>1. PICK op \in DispatchOps, r \in Requests : op = FinalOp(h) /\ r = hook[h].req /\ op # "queue"
      BY <2>4 DEF Records, TInv, HookFits, FinalOp, DispatchOps
    <3> QED BY <2>1, <2>4, <3>1 DEF Records, Effect
  <2>5. CASE WritesList
    BY <1>0, <2>0, <2>5, ListWrites, Written DEF Unknown
  <2>6. CASE engine' = engine /\ view' = view
    BY <2>0, <2>6
  <2> QED BY <2>2, <2>3, <2>4, <2>5, <2>6, Reported
<1>2. list'[s].status = "none"
  <2>1. list' = list \/ list' = view \/ list' = NoList
    BY ListMoves DEF Unlock
  <2> QED BY <1>0, <2>1 DEF Unknown, NoList, Absent
<1>3. typed'[s] = 0
  <2>1. ASSUME NEW h \in Hook, hook[h].pc = "inject", Count(hook[h].req)
        PROVE  typed'[s] = typed[s]
    BY <1>0, <2>1 DEF Unknown, Working, Count
  <2> QED BY <1>0, <2>1, WhoTypes DEF Unknown
<1>4. \A h \in Hook : ~Working(h, s)'
  <2> SUFFICES ASSUME NEW h \in Hook, Working(h, s)' PROVE FALSE
    OBVIOUS
  <2>0. ~Working(h, s) /\ StatusOf(s) = "none"
    BY <1>0 DEF Unknown, StatusOf
  <2>1. hook' # hook
    BY <2>0 DEF Working
  <2>2. ASSUME NEW k \in Hook, GoesOn(k) \/ Ends(k) PROVE FALSE
    BY <1>0, <2>0, <2>2 DEF GoesOn, Ends, Only, Working
  <2>3. ASSUME NEW k \in Hook, NEW r \in Requests, Begins(k, r) PROVE FALSE
    BY <1>0, <2>0, <2>3 DEF Begins, Only, Working
  <2>4. ASSUME NEW r \in Requests, LeaseLapses(r) PROVE FALSE
    BY <2>1, <2>4 DEF LeaseLapses
  <2> QED BY <2>1, <2>2, <2>3, <2>4, HookMoves
<1> QED BY <1>1, <1>2, <1>3, <1>4 DEF Unknown

\* A hook that is to write its result stays where it is until it unlocks.
LEMMA WriteWaits ==
  ASSUME TInv, [Next]_vars, NEW h \in Hook, hook[h].pc = "write"
  PROVE  hook'[h] = hook[h] \/ Unlock
<1>0. hook \in [Hook -> HookState] /\ lock = h
  BY DEF TInv, TypeOK, HookState
<1>1. ASSUME NEW s \in Sender, SenderStep(s) \/ SenderDies(s) PROVE hook' = hook
  BY <1>1 DEF SenderStep, SenderDies, Deduplicate, Enqueue, QueueExec, Push, Receipt, NoReceipt,
     Notify, NotifyFailed, Mark, MarkExec, Fail, Transition, WriteTransition
<1>2. ASSUME NEW k \in Hook, k # h, HookStep(k) \/ HookDies(k) \/ HookTimesOut(k)
      PROVE  hook'[h] = hook[h]
  BY <1>0, <1>2 DEF HookStep, HookDies, HookTimesOut, Claim, WriteClaim, CannotInject,
     InjectUnconfirmed, InjectConfirmed, Finalize, Record, WriteFinal, GotoH, EndTick
<1>3. CASE HookStep(h) \/ HookDies(h) \/ HookTimesOut(h)
  BY <1>0, <1>3 DEF HookStep, HookDies, HookTimesOut, Claim, WriteClaim, CannotInject,
     InjectUnconfirmed, InjectConfirmed, Finalize, Record, WriteFinal, WriteListAndUnlock, FreeLock
<1>4. CASE UNCHANGED vars \/ \E r \in Requests : LeaseLapses(r)
  BY <1>4 DEF vars, LeaseLapses
<1> QED BY <1>1, <1>2, <1>3, <1>4, WhoSteps

\* An exec of the lock's holder keeps what it has read and records its result.
LEMMA RecordsResult ==
  ASSUME TInv, NEW h \in Hook, Records(h)
  PROVE  Recorded(h)'
<1>1. PICK op \in DispatchOps, r \in Requests :
        op = FinalOp(h) /\ r = hook[h].req /\ op # "queue"
  BY DEF Records, TInv, HookFits, FinalOp, DispatchOps
<1>2. Effect(op, r) /\ engine \in EngineState
  BY <1>1 DEF Records, TInv, TypeOK
<1>3. /\ op = "notify" => engine'.dispatch[r] = "notified"
      /\ op = "fail" => engine'.dispatch[r] = "failed"
  BY <1>2, Applied DEF Effect
<1>4. FinalEntry(h).status \in {"notified", "failed"}
  BY FinalStatus DEF Records
<1>5. engine'.dispatch[r] = FinalEntry(h).status
  BY <1>1, <1>3, <1>4 DEF FinalOp
<1>6. FinalEntry(h)' = FinalEntry(h) /\ hook'[h].req = r
  BY <1>1 DEF Records, FinalEntry
<1> QED BY <1>5, <1>6 DEF Records, Recorded

LEMMA NextBInv == BInv /\ TInv /\ [Next]_vars => BInv'
<1> SUFFICES ASSUME BInv, TInv, [Next]_vars, "unreported" \notin mishap' PROVE BInv'
  BY DEF BInv
<1>0. "unreported" \notin mishap
  BY MishapsStay
<1>1. \A s \in Sender : snd'[s].pc \in {"idle", "queue", "push"} => Unknown(s)'
  BY UnknownStays
<1>2. ASSUME NEW r \in Requests, engine'.dispatch[r] # "none"
      PROVE  view'[r].status # "none" /\ (lock' # Nobody => list'[r].status # "none")
  <2>0. engine.dispatch[r] # "none" =>
          view[r].status # "none" /\ (lock # Nobody => list[r].status # "none")
    BY <1>0 DEF BInv
  <2>1. CASE engine' = engine /\ view' = view
    BY <1>2, <2>0, <2>1, ListMoves DEF Unlock
  <2>2. ASSUME NEW s \in Sender, Queues(s)
        PROVE  view'[r].status # "none" /\ (lock' # Nobody => list'[r].status # "none")
    BY <1>2, <2>2 DEF Queues, Rendered, Unlock
  <2>3. ASSUME NEW op \in DispatchOps, NEW q \in Requests, Effect(op, q), op # "queue",
               view' = Rendered(engine'), UNCHANGED <<list, lock>>
        PROVE  view'[r].status # "none" /\ (lock' # Nobody => list'[r].status # "none")
    <3>1. engine.dispatch[r] # "none"
      BY <1>2, <2>3, Effects
    <3> QED BY <1>2, <2>0, <2>3, <3>1 DEF Rendered
  <2>4. ASSUME NEW op \in DispatchOps, NEW q \in Requests, Updates(op, q)
        PROVE  view'[r].status # "none" /\ (lock' # Nobody => list'[r].status # "none")
    BY <2>3, <2>4 DEF Updates
  <2>5. ASSUME NEW h \in Hook, Records(h)
        PROVE  view'[r].status # "none" /\ (lock' # Nobody => list'[r].status # "none")
    <3>1. PICK op \in DispatchOps, q \in Requests :
            op = FinalOp(h) /\ q = hook[h].req /\ op # "queue"
      BY <2>5 DEF Records, TInv, HookFits, FinalOp, DispatchOps
    <3> QED BY <2>3, <2>5, <3>1 DEF Records
  <2>6. CASE WritesList
    <3>1. ListWritten
      BY <2>6, ListWrites
    <3> QED BY <1>2, <2>0, <3>1, Written DEF Unlock
  <2> QED BY <2>1, <2>2, <2>4, <2>5, <2>6, Reported
<1>3. ASSUME lock' # Nobody PROVE view' = list' \/ view' = Rendered(engine')
  <2>0. lock # Nobody => view = list \/ view = Rendered(engine)
    BY <1>0 DEF BInv
  <2>1. CASE engine' = engine /\ view' = view
    BY <1>3, <2>0, <2>1, ListMoves DEF Unlock
  <2>2. CASE WritesList
    BY <1>3, <2>2, ListWrites, Written DEF Unlock
  <2> QED BY <2>1, <2>2, Reported DEF Queues, Updates, Records
<1>4. ASSUME lock' # Nobody, ~dirty' PROVE view' = list' \/ \E h \in Hook : Recorded(h)'
  <2>0. lock # Nobody /\ ~dirty => view = list \/ \E h \in Hook : Recorded(h)
    BY <1>0 DEF BInv
  <2>1. CASE engine' = engine /\ view' = view /\ UNCHANGED <<list, lock>>
    <3>1. ~dirty
      BY <1>4, <2>1, ListMoves DEF Unlock
    <3>2. ASSUME NEW h \in Hook, Recorded(h) PROVE Recorded(h)'
      <4>1. hook'[h] = hook[h]
        BY <1>4, <3>2, WriteWaits DEF Recorded, Unlock
      <4>2. FinalEntry(h)' = FinalEntry(h)
        BY <2>1, <4>1 DEF FinalEntry
      <4> QED BY <2>1, <3>2, <4>1, <4>2 DEF Recorded
    <3> QED BY <1>4, <2>0, <2>1, <3>1, <3>2
  <2>2. CASE engine' = engine /\ view' = view /\ ~UNCHANGED <<list, lock>>
    BY <1>4, <2>2, ListMoves DEF Unlock
  <2>3. ASSUME NEW h \in Hook, Records(h) PROVE Recorded(h)'
    BY <2>3, RecordsResult
  <2>4. CASE WritesList
    BY <1>4, <2>4, ListWrites, Written DEF Unlock
  <2> QED BY <1>4, <2>1, <2>2, <2>3, <2>4, Reported DEF Queues, Updates, Unlock
<1> QED BY <1>1, <1>2, <1>3, <1>4 DEF BInv, Unknown, Recorded

\* Unless an exec took effect unreported, the engine knows no request whose
\* sender has yet to queue it; the view and the list of whoever holds the lock
\* hold every request of the engine, and differ only where an exec has rendered.
THEOREM BInvariance == Spec => []BInv
<1>1. Init => BInv
  BY DEF Init, BInv, NewEngine, NoList, Absent, Unknown, Working, Sender
<1> QED BY <1>1, NextBInv, TInvariance, PTL DEF Spec

-----------------------------------------------------------------------------
(* The view moves forward.                                                  *)

AnyStatus == DispatchStatus \cup {"none"}

LEMMA ForwardFacts ==
  /\ \A a \in AnyStatus : Forward(a, a)
  /\ \A b \in DispatchStatus : Forward("pending", b)
  /\ \A a, b, c \in DispatchStatus : Forward(a, b) /\ CanTransition(b, c) => Forward(a, c)
  /\ \A a \in DispatchStatus : Forward(a, "pending") => a = "pending"
BY DEF Forward, CanTransition, Transitions, AnyStatus, DispatchStatus, Unfinished, Finished

LEMMA Statuses ==
  ASSUME TInv, NEW r \in Requests
  PROVE  /\ engine.dispatch[r] \in AnyStatus /\ view[r].status \in AnyStatus
         /\ list[r].status \in AnyStatus
BY DEF TInv, TypeOK, EngineState, Entry, AnyStatus

\* How a hook comes to where it is to write its result.
LEMMA ToWrite ==
  ASSUME TInv, TInv', [Next]_vars, NEW h \in Hook, hook'[h].pc = "write"
  PROVE  /\ lock = h /\ lock' = h /\ UNCHANGED list /\ (~dirty' => ~dirty)
         /\ hook'[h].req = hook[h].req
         /\ hook'[h] = hook[h] \/ hook[h].pc = "record"
<1>0. /\ hook \in [Hook -> HookState] /\ lock' = h /\ h # Nobody
      /\ hook[h].pc \in {"record", "write"} => lock = h
  BY HookAssumption DEF TInv, TypeOK, HookState
<1>1. /\ hook'[h].req = hook[h].req
      /\ hook'[h] = hook[h] \/ hook[h].pc = "record"
  <2>1. ASSUME NEW s \in Sender, SenderStep(s) \/ SenderDies(s) PROVE hook' = hook
    BY <2>1 DEF SenderStep, SenderDies, Deduplicate, Enqueue, QueueExec, Push, Receipt, NoReceipt,
       Notify, NotifyFailed, Mark, MarkExec, Fail, Transition, WriteTransition
  <2>2. ASSUME NEW k \in Hook, k # h, HookStep(k) \/ HookDies(k) \/ HookTimesOut(k)
        PROVE  hook'[h] = hook[h]
    BY <1>0, <2>2 DEF HookStep, HookDies, HookTimesOut, Claim, WriteClaim, CannotInject,
       InjectUnconfirmed, InjectConfirmed, Finalize, Record, WriteFinal, GotoH, EndTick
  <2>3. CASE Record(h)
    BY <1>0, <2>3, HookGoes DEF Record, GotoH, HookPc
  <2>4. ASSUME ~Record(h), HookStep(h) \/ HookDies(h) \/ HookTimesOut(h)
        PROVE  FALSE
    BY <1>0, <2>4 DEF HookStep, HookDies, HookTimesOut, Claim, WriteClaim, CannotInject,
       InjectUnconfirmed, InjectConfirmed, Finalize, WriteFinal, GotoH, EndTick, HookState
  <2>5. CASE UNCHANGED vars \/ \E r \in Requests : LeaseLapses(r)
    BY <2>5 DEF vars, LeaseLapses
  <2> QED BY <2>1, <2>2, <2>3, <2>4, <2>5, WhoSteps
<1>2. lock = h
  BY <1>0, <1>1
<1>3. UNCHANGED list /\ (~dirty' => ~dirty)
  <2>1. lock # Nobody /\ lock' # Nobody
    BY <1>0, <1>2
  <2>2. UNCHANGED list /\ (dirty' = dirty \/ dirty' = TRUE)
    BY <2>1, ListMoves DEF Unlock
  <2> QED BY <2>2
<1> QED BY <1>0, <1>1, <1>2, <1>3

\* Who reads the list of an unlocked moment reads the view as it still is,
\* unless he has had an exec render it himself.
LEMMA FreshList ==
  ASSUME TInv, BInv, "unreported" \notin mishap, lock # Nobody, ~dirty
  PROVE  view = list \/ \E h \in Hook : lock = h /\ hook[h].pc = "write" /\ Recorded(h)
BY DEF BInv, Recorded, TInv, TypeOK

\* A view rendered anew is further on, but for what it is behind in.
LEMMA RenderedForward ==
  ASSUME TInv, \A r \in Requests : Ahead(view[r].status, engine.dispatch[r]),
         NEW op \in DispatchOps, NEW q \in Requests, Effect(op, q),
         view' = Rendered(engine'), "behind" \notin LostBy(view, engine')
  PROVE  /\ \A r \in Requests : Forward(view[r].status, view'[r].status)
         /\ \A r \in Requests : Ahead(view'[r].status, engine'.dispatch[r])
<1>0. ASSUME NEW r \in Requests
      PROVE  /\ engine'.dispatch[r] \in AnyStatus /\ view'[r].status = engine'.dispatch[r]
             /\ engine.dispatch[r] # "none" => engine'.dispatch[r] # "none"
  BY Effects DEF Rendered, EngineState, AnyStatus
<1>1. ASSUME NEW r \in Requests PROVE Forward(view[r].status, view'[r].status)
  <2>1. CASE view[r].status = "none"
    BY <2>1 DEF Forward
  <2>2. CASE view[r].status = "pending"
    <3>1. engine'.dispatch[r] \in DispatchStatus
      BY <1>0, <2>2 DEF Ahead, AnyStatus
    <3> QED BY <1>0, <2>2, <3>1, ForwardFacts
  <2>3. CASE Settled(view[r].status)
    BY <1>0, <2>3 DEF LostBy
  <2> QED BY <2>1, <2>2, <2>3, Statuses DEF Settled, AnyStatus
<1>2. \A r \in Requests : Ahead(view'[r].status, engine'.dispatch[r])
  BY <1>0, ForwardFacts DEF Ahead
<1> QED BY <1>1, <1>2

\* So is a list that was written over the view that it was read from.
LEMMA WrittenForward ==
  ASSUME TInv, BInv, FInv, Smooth, "stale" \notin mishap', "unqueued" \notin mishap',
         ListWritten
  PROVE  /\ \A r \in Requests : Forward(view[r].status, view'[r].status)
         /\ \A r \in Requests : Ahead(view'[r].status, engine'.dispatch[r])
<1>0. /\ engine' = engine /\ ~dirty /\ lock # Nobody
      /\ \A r \in Requests : Ahead(view[r].status, engine.dispatch[r])
      /\ "unreported" \notin mishap
      /\ list \in [Requests -> Entry]
  BY Written DEF FInv, Smooth, TInv, TypeOK
<1>1. ASSUME view' = view
      PROVE  /\ \A r \in Requests : Forward(view[r].status, view'[r].status)
             /\ \A r \in Requests : Ahead(view'[r].status, engine'.dispatch[r])
  BY <1>0, <1>1, Statuses, ForwardFacts
<1>2. ASSUME NEW s \in Sender, snd[s].pc = "push",
             engine.dispatch[s] = "none" => "unqueued" \in mishap'
      PROVE  FALSE
  BY <1>0, <1>2 DEF BInv, Unknown
<1>3. ASSUME NEW s \in Sender, snd[s].pc = "write", NEW n,
             Writes(Req(s), [status |-> snd[s].to, attempts |-> n])
      PROVE  /\ \A r \in Requests : Forward(view[r].status, view'[r].status)
             /\ \A r \in Requests : Ahead(view'[r].status, engine'.dispatch[r])
  <2>1. view = list
    <3>1. lock = s /\ s \notin Hook
      BY <1>3, HookAssumption DEF TInv, TypeOK, Sender
    <3> QED BY <1>0, <3>1, FreshList
  <2>2. PICK q \in Requests : q = Req(s)
    BY <1>3, FoundInList
  <2>3. PICK to \in DispatchStatus : to = snd[s].to /\ CanTransition(view[q].status, to)
    BY <1>3, <2>1, <2>2 DEF TInv, SenderFits, MayTransition, DispatchStatus, Unfinished, Finished
  <2>4. view[q].status \in DispatchStatus
    BY <1>3, <2>1, <2>2, FoundInList, Statuses DEF AnyStatus
  <2>5. engine.dispatch[q] \in DispatchStatus /\ Forward(engine.dispatch[q], view[q].status)
    BY <1>0, <2>4, Statuses DEF Ahead, AnyStatus, DispatchStatus, Unfinished, Finished
  <2>6. view'[q].status = to /\ \A r \in Requests \ {q} : view'[r] = view[r]
    BY <1>0, <1>3, <2>1, <2>2, <2>3 DEF Writes
  <2>7. Forward(view[q].status, to) /\ Ahead(to, engine.dispatch[q])
    <3>1. Forward(engine.dispatch[q], to) /\ Forward(view[q].status, to)
      BY <2>3, <2>4, <2>5, ForwardFacts DEF AnyStatus
    <3> QED BY <2>5, <3>1 DEF Ahead, DispatchStatus, Unfinished, Finished
  <2> QED BY <1>0, <2>6, <2>7, Statuses, ForwardFacts
<1>4. ASSUME NEW h \in Hook, hook[h].pc = "claim", Writes(hook[h].req, list[hook[h].req])
      PROVE  view' = view
  <2>1. view = list
    BY <1>0, <1>4, FreshList, Alone
  <2> QED BY <1>0, <1>4, <2>1 DEF Writes
<1>5. ASSUME NEW h \in Hook, hook[h].pc = "write", Writes(hook[h].req, FinalEntry(h))
      PROVE  /\ \A r \in Requests : Forward(view[r].status, view'[r].status)
             /\ \A r \in Requests : Ahead(view'[r].status, engine'.dispatch[r])
  <2>1. PICK q \in Requests : q = hook[h].req /\ list[q].status = "pending"
    BY <1>5, FoundInList
  <2>2. PICK to \in DispatchStatus : to = FinalEntry(h).status
    BY <1>5, FinalStatus DEF DispatchStatus, Unfinished, Finished
  <2>3. view'[q].status = to /\ \A r \in Requests \ {q} : view'[r] = list[r]
    BY <1>0, <1>5, <2>1, <2>2 DEF Writes
  <2>4. CASE view = list
    <3>1. engine.dispatch[q] = "pending"
      <4>1. engine.dispatch[q] \in DispatchStatus /\ Forward(engine.dispatch[q], "pending")
        BY <1>0, <2>1, <2>4, Statuses DEF Ahead, AnyStatus
      <4> QED BY <4>1, ForwardFacts
    <3>2. Forward("pending", to) /\ Ahead(to, engine.dispatch[q])
      BY <3>1, ForwardFacts DEF Ahead, DispatchStatus, Unfinished, Finished
    <3> QED BY <1>0, <2>1, <2>3, <2>4, <3>2, Statuses, ForwardFacts
  <2>5. CASE Recorded(h)
    <3>1. view = Rendered(engine) /\ engine.dispatch[q] = to
      BY <2>1, <2>2, <2>5 DEF Recorded
    <3>2. \A r \in Requests \ {q} : Ahead(list[r].status, engine.dispatch[r])
      BY <1>0, <1>5, <2>1 DEF FInv
    <3>3. ASSUME NEW r \in Requests \ {q}
          PROVE  /\ Forward(view[r].status, view'[r].status)
                 /\ Ahead(view'[r].status, engine'.dispatch[r])
      BY <1>0, <2>3, <3>1, <3>2 DEF Ahead, Rendered
    <3>4. Forward(view[q].status, view'[q].status) /\ Ahead(view'[q].status, engine'.dispatch[q])
      BY <1>0, <2>3, <3>1, Statuses, ForwardFacts DEF Rendered, Ahead
    <3> QED BY <3>3, <3>4
  <2> QED BY <1>0, <1>5, <2>4, <2>5, FreshList, Alone
<1> QED BY <1>1, <1>2, <1>3, <1>4, <1>5 DEF ListWritten

LEMMA ForwardStep ==
  ASSUME TInv, TInv', BInv, FInv, [Next]_vars, Smooth'
  PROVE  FInv' /\ \A r \in Requests : Forward(view[r].status, view'[r].status)
<1>0. /\ Smooth /\ "unreported" \notin mishap /\ "unreported" \notin mishap'
      /\ "behind" \notin mishap' /\ "stale" \notin mishap' /\ "unqueued" \notin mishap'
      /\ \A r \in Requests : Ahead(view[r].status, engine.dispatch[r])
      /\ \A h \in Hook : hook[h].pc = "write" /\ ~dirty =>
           \A r \in Requests \ {hook[h].req} : Ahead(list[r].status, engine.dispatch[r])
  <2>1. mishap \subseteq mishap'
    BY MishapsStay
  <2>2. Smooth
    BY <2>1 DEF Smooth
  <2> QED BY <2>1, <2>2 DEF Smooth, FInv
<1>1. /\ \A r \in Requests : Forward(view[r].status, view'[r].status)
      /\ \A r \in Requests : Ahead(view'[r].status, engine'.dispatch[r])
  <2>1. CASE engine' = engine /\ view' = view
    BY <1>0, <2>1, Statuses, ForwardFacts
  <2>2. ASSUME NEW s \in Sender, Queues(s)
        PROVE  /\ \A r \in Requests : Forward(view[r].status, view'[r].status)
               /\ \A r \in Requests : Ahead(view'[r].status, engine'.dispatch[r])
    BY <1>0, <2>2, RenderedForward DEF Queues, Effect, Sender
  <2>3. ASSUME NEW op \in DispatchOps, NEW q \in Requests, Updates(op, q)
        PROVE  /\ \A r \in Requests : Forward(view[r].status, view'[r].status)
               /\ \A r \in Requests : Ahead(view'[r].status, engine'.dispatch[r])
    BY <1>0, <2>3, RenderedForward DEF Updates
  <2>4. ASSUME NEW h \in Hook, Records(h)
        PROVE  /\ \A r \in Requests : Forward(view[r].status, view'[r].status)
               /\ \A r \in Requests : Ahead(view'[r].status, engine'.dispatch[r])
    <3>1. PICK op \in DispatchOps, q \in Requests : op = FinalOp(h) /\ q = hook[h].req
      BY <2>4 DEF Records, TInv, HookFits, FinalOp, DispatchOps
    <3>2. "behind" \notin LostBy(view, engine')
      BY <1>0, <2>4 DEF Records
    <3>3. Effect(op, q) /\ view' = Rendered(engine')
      BY <2>4, <3>1 DEF Records
    <3> QED BY <1>0, <3>2, <3>3, RenderedForward
  <2>5. CASE WritesList
    BY <1>0, <2>5, ListWrites, WrittenForward
  <2> QED BY <1>0, <2>1, <2>2, <2>3, <2>4, <2>5, Reported
<1>2. ASSUME NEW h \in Hook, hook'[h].pc = "write", ~dirty', NEW r \in Requests \ {hook'[h].req}
      PROVE  Ahead(list'[r].status, engine'.dispatch[r])
  <2>0. /\ lock = h /\ lock' = h /\ UNCHANGED list /\ ~dirty /\ h # Nobody
        /\ hook'[h].req = hook[h].req
        /\ hook'[h] = hook[h] \/ hook[h].pc = "record"
    BY <1>2, ToWrite, HookAssumption
  <2>1. Ahead(list[r].status, engine.dispatch[r])
    <3>1. CASE hook[h].pc = "write"
      BY <1>0, <1>2, <2>0, <3>1
    <3>2. CASE hook[h].pc = "record"
      <4>1. view = list
        BY <1>0, <2>0, <3>2, FreshList
      <4> QED BY <1>0, <4>1
    <3> QED BY <1>2, <2>0, <3>1, <3>2
  <2>2. engine'.dispatch[r] = engine.dispatch[r]
    <3>1. ~ \E s \in Sender : Queues(s)
      BY <2>0 DEF Queues, Unlock
    <3>2. ~ \E op \in DispatchOps, q \in Requests : Updates(op, q)
      BY <1>2, <2>0 DEF Updates
    <3>3. ASSUME NEW k \in Hook, Records(k) PROVE engine'.dispatch[r] = engine.dispatch[r]
      <4>1. k = h
        BY <2>0, <3>3 DEF Records, TInv, TypeOK
      <4>2. PICK op \in DispatchOps, q \in Requests : op = FinalOp(h) /\ q = hook[h].req
        BY <3>3, <4>1 DEF Records, TInv, HookFits, FinalOp, DispatchOps
      <4>3. Effect(op, q) /\ r # q
        BY <1>2, <2>0, <3>3, <4>1, <4>2 DEF Records
      <4> QED BY <4>3, Effects
    <3>4. WritesList => engine' = engine
      BY ListWrites, Written
    <3> QED BY <1>0, <3>1, <3>2, <3>3, <3>4, Reported
  <2> QED BY <2>0, <2>1, <2>2
<1> QED BY <1>1, <1>2 DEF FInv, Ahead

\* Until a mishap the status of a request in the view, and in the list that a
\* hook is about to write over it, is never behind the engine's.
THEOREM FInvariance == Spec => []FInv
<1>1. Init => FInv
  BY DEF Init, FInv, NewEngine, NoList, Absent, Ahead, Forward
<1>2. FInv /\ BInv /\ TInv /\ TInv' /\ [Next]_vars => FInv'
  BY ForwardStep DEF FInv, Smooth
<1> QED BY <1>1, <1>2, BInvariance, TInvariance, PTL DEF Spec

\* No request of the view goes back: pending before notified before delivered,
\* and failed is final, until a list is written over a newer view, an exec is
\* killed after it took effect or does not queue, or the view is rendered
\* from an engine that had not been told.
THEOREM ForwardOnly == Spec => ViewMovesForward
<1>1. FInv /\ BInv /\ TInv /\ TInv' /\ [Next]_vars =>
        [mishap' \cap {"behind", "stale", "unreported", "unqueued"} = {} =>
           \A r \in Requests : Forward(view[r].status, view'[r].status)]_vars
  BY ForwardStep DEF Smooth
<1> QED BY <1>1, FInvariance, BInvariance, TInvariance, PTL DEF Spec, ViewMovesForward

-----------------------------------------------------------------------------
(* Attempts.                                                                *)

\* A hook drops its result: the request was settled meanwhile.
Drops(h) ==
  /\ StatusOf(hook[h].req) # "pending" /\ lock = Nobody
  /\ UNCHANGED <<view, lock, list, engine, typed>>

\* A hook that has a result keeps it, until it is written or dropped.
LEMMA ResultStays ==
  ASSUME TInv, [Next]_vars, "uncounted" \notin mishap', NEW h \in Hook, hook[h].res # "none"
  PROVE  \/ /\ hook'[h].pc # "idle" /\ hook'[h].res # "none" /\ hook'[h].req = hook[h].req
            /\ hook[h].pc = "write" => hook'[h].pc = "write"
         \/ WriteFinal(h)
         \/ Drops(h)
<1>0. hook \in [Hook -> HookState] /\ hook[h].pc \in {"finalize", "record", "write"}
  BY DEF TInv, TypeOK, HookState, HookFits
<1>1. ASSUME NEW s \in Sender, SenderStep(s) \/ SenderDies(s) PROVE hook' = hook
  BY <1>1 DEF SenderStep, SenderDies, Deduplicate, Enqueue, QueueExec, Push, Receipt, NoReceipt,
     Notify, NotifyFailed, Mark, MarkExec, Fail, Transition, WriteTransition
<1>2. ASSUME NEW k \in Hook, k # h, HookStep(k) \/ HookDies(k) \/ HookTimesOut(k)
      PROVE  hook'[h] = hook[h]
  BY <1>0, <1>2 DEF HookStep, HookDies, HookTimesOut, Claim, WriteClaim, CannotInject,
     InjectUnconfirmed, InjectConfirmed, Finalize, Record, WriteFinal, GotoH, EndTick
<1>3. CASE HookDies(h) \/ HookTimesOut(h)
  BY <1>3 DEF HookDies, HookTimesOut
<1>4. CASE HookStep(h)
  <2>1. Finalize(h) \/ Record(h) \/ WriteFinal(h)
    BY <1>0, <1>4 DEF HookStep, Claim, WriteClaim, CannotInject, InjectUnconfirmed, InjectConfirmed
  <2>2. CASE GotoH(h, "record") \/ GotoH(h, "write")
    <3>1. /\ hook'[h].pc \in {"record", "write"} /\ hook'[h].res = hook[h].res
          /\ hook'[h].req = hook[h].req
      BY <1>0, <2>2, HookGoes DEF GotoH, HookPc
    <3>2. hook[h].pc # "write" \/ WriteFinal(h)
      BY <2>1 DEF Finalize, Record
    <3> QED BY <3>1, <3>2
  <2>3. CASE Finalize(h) /\ ~GotoH(h, "record")
    BY <2>3 DEF Finalize, Drops
  <2> QED BY <2>1, <2>2, <2>3 DEF Record
<1>5. CASE UNCHANGED vars \/ \E r \in Requests : LeaseLapses(r)
  BY <1>0, <1>5 DEF vars, LeaseLapses
<1> QED BY <1>0, <1>1, <1>2, <1>3, <1>4, <1>5, WhoSteps

\* So what covers the attempts of a request goes on covering them.
LEMMA CoveredStays ==
  ASSUME TInv, LInv, [Next]_vars, "uncounted" \notin mishap', "lapsed" \notin mishap,
         NEW r \in Requests, NEW e \in Entry, Covered(e, r),
         \A h \in Hook : hook[h].req = r => ~WriteFinal(h) /\ ~Drops(h)
  PROVE  Covered(e, r)'
<1> SUFFICES ASSUME e.status = "pending"
             PROVE  \/ typed'[r] <= e.attempts
                    \/ /\ typed'[r] <= e.attempts + 1
                       /\ \E h \in Hook : Working(h, r)' /\ hook'[h].res # "none"
  BY DEF Covered
<1>0. /\ typed \in [Requests -> 0 .. MaxAttempts + 1] /\ e.attempts \in Nat
      /\ \A h \in Hook : HookFits(h)
      /\ \A h \in Hook : Working(h, r) => lease[r] = h
  BY AttemptsAssumption DEF TInv, TypeOK, Entry, LInv
<1>1. ASSUME typed'[r] = typed[r], ~(typed[r] <= e.attempts)
      PROVE  /\ typed'[r] <= e.attempts + 1
             /\ \E h \in Hook : Working(h, r)' /\ hook'[h].res # "none"
  <2>1. PICK h \in Hook : Working(h, r) /\ hook[h].res # "none" /\ typed[r] <= e.attempts + 1
    BY <1>1 DEF Covered
  <2>2. ~WriteFinal(h) /\ ~Drops(h)
    BY <2>1 DEF Working
  <2>3. Working(h, r)' /\ hook'[h].res # "none"
    BY <2>1, <2>2, ResultStays DEF Working
  <2> QED BY <1>1, <2>1, <2>3
<1>2. ASSUME NEW h \in Hook, hook[h].pc = "inject", hook[h].req = r, Count(r),
             hook'[h].pc = "finalize", hook'[h].req = r, hook'[h].res # "none"
      PROVE  /\ typed'[r] <= e.attempts + 1
             /\ \E k \in Hook : Working(k, r)' /\ hook'[k].res # "none"
  <2>1. ~ \E k \in Hook : Working(k, r) /\ hook[k].res # "none"
    BY <1>0, <1>2 DEF Working, HookFits
  <2>2. typed[r] <= e.attempts
    BY <2>1 DEF Covered
  <2>3. typed'[r] \in {typed[r], typed[r] + 1}
    BY <1>0, <1>2 DEF Count
  <2>4. typed'[r] <= e.attempts + 1
    BY <1>0, <2>2, <2>3
  <2> QED BY <1>2, <2>4 DEF Working
<1>3. ASSUME NEW h \in Hook, hook[h].req # r, Count(hook[h].req)
      PROVE  typed'[r] = typed[r]
  BY <1>0, <1>3 DEF Count
<1> QED BY <1>0, <1>1, <1>2, <1>3, WhoTypes

\* A hook that begins, or is about to type, may do so once more.
LEMMA MayType ==
  ASSUME TInv, TInv', LInv, AInv, [Next]_vars, Steady', NEW h \in Hook,
         hook'[h].pc \in {"claim", "inject"}
  PROVE  typed'[hook'[h].req] < MaxAttempts
<1>0. /\ hook \in [Hook -> HookState] /\ \A k \in Hook : HookFits(k)
      /\ typed \in [Requests -> 0 .. MaxAttempts + 1] /\ view \in [Requests -> Entry]
      /\ \A r \in Requests : Bounded(view[r]) /\ \A k \in Hook : Working(k, r) => lease[r] = k
      /\ lock = Nobody => \A k \in Hook : hook[k].pc # "write"
      /\ \A r \in Requests : lease[r] # Nobody \/ \A k \in Hook : ~Working(k, r)
      /\ MaxAttempts \in Nat
  <2>1. "lapsed" \notin mishap
    BY MishapsStay DEF Steady
  <2> QED BY <2>1, HookAssumption, AttemptsAssumption DEF TInv, TypeOK, HookState, LInv
<1>1. Steady
  BY MishapsStay DEF Steady
<1>2. CASE hook'[h].req = hook[h].req /\ hook[h].pc \in {"claim", "inject"}
  <2>1. PICK r \in Requests : r = hook[h].req
    BY <1>0, <1>2 DEF HookFits
  <2>2. typed[r] < MaxAttempts
    BY <1>1, <1>2, <2>1 DEF AInv
  <2>3. typed'[r] = typed[r]
    <3>1. ASSUME NEW k \in Hook, hook[k].pc = "inject", hook[k].req \in Requests,
                 Count(hook[k].req), hook'[k].pc = "finalize"
          PROVE  typed'[r] = typed[r]
      <4>1. k # h
        BY <3>1
      <4>2. hook[k].req # r
        BY <1>0, <1>2, <2>1, <3>1, <4>1 DEF Working
      <4> QED BY <1>0, <3>1, <4>2 DEF Count
    <3> QED BY <3>1, WhoTypes
  <2> QED BY <1>2, <2>1, <2>2, <2>3
<1>3. ASSUME NEW r \in Requests, Begins(h, r), typed' = typed
      PROVE  typed'[hook'[h].req] < MaxAttempts
  <2>1. Covered(view[r], r) /\ \A k \in Hook : ~Working(k, r)
    BY <1>0, <1>1, <1>3 DEF AInv, Begins
  <2>2. typed[r] <= view[r].attempts /\ view[r].attempts < MaxAttempts
    BY <1>0, <1>3, <2>1 DEF Covered, Bounded, Begins, StatusOf
  <2>3. view[r].attempts \in Nat /\ typed[r] \in Nat
    BY <1>0 DEF Entry
  <2> QED BY <1>0, <1>3, <2>2, <2>3 DEF Begins
<1>4. \/ hook'[h].req = hook[h].req /\ hook[h].pc \in {"claim", "inject"}
      \/ \E r \in Requests : Begins(h, r) /\ typed' = typed
  <2>1. ASSUME NEW s \in Sender, SenderStep(s) \/ SenderDies(s) PROVE hook' = hook
    BY <2>1 DEF SenderStep, SenderDies, Deduplicate, Enqueue, QueueExec, Push, Receipt, NoReceipt,
       Notify, NotifyFailed, Mark, MarkExec, Fail, Transition, WriteTransition
  <2>2. ASSUME NEW k \in Hook, k # h, HookStep(k) \/ HookDies(k) \/ HookTimesOut(k)
        PROVE  hook'[h] = hook[h]
    BY <1>0, <2>2 DEF HookStep, HookDies, HookTimesOut, Claim, WriteClaim, CannotInject,
       InjectUnconfirmed, InjectConfirmed, Finalize, Record, WriteFinal, GotoH, EndTick
  <2>3. CASE WriteClaim(h)
    BY <1>0, <2>3, HookGoes DEF WriteClaim, GotoH, HookPc
  <2>4. ASSUME NEW r \in Requests, Claim(h, r) PROVE Begins(h, r) /\ typed' = typed
    BY <1>0, <2>4 DEF Claim, Begins, Only, LockAndRead
  <2>5. ASSUME ~WriteClaim(h), ~ \E r \in Requests : Claim(h, r),
               HookStep(h) \/ HookDies(h) \/ HookTimesOut(h)
        PROVE  FALSE
    BY <1>0, <2>5 DEF HookStep, HookDies, HookTimesOut, CannotInject,
       InjectUnconfirmed, InjectConfirmed, Finalize, Record, WriteFinal, GotoH, EndTick, HookState
  <2>6. CASE UNCHANGED vars \/ \E r \in Requests : LeaseLapses(r)
    BY <2>6 DEF vars, LeaseLapses
  <2> QED BY <2>1, <2>2, <2>3, <2>4, <2>5, <2>6, WhoSteps
<1> QED BY <1>2, <1>3, <1>4

\* A view that is rendered without losing a count is covered as it was.
LEMMA RenderedCovered ==
  ASSUME TInv, LInv, BInv, [Next]_vars, Steady', ~WritesList,
         \A h \in Hook : hook[h].pc # "write",
         \A q \in Requests : Covered(view[q], q),
         NEW op \in DispatchOps, NEW x \in Requests, Effect(op, x),
         op = "queue" => snd[x].pc = "queue" /\ typed' = typed,
         view' = Rendered(engine'), LostBy(view, engine') \subseteq mishap',
         NEW r \in Requests
  PROVE  Covered(view[r], r)'
<1>0. /\ view \in [Requests -> Entry] /\ typed \in [Requests -> 0 .. MaxAttempts + 1]
      /\ mishap \subseteq mishap' /\ "unreported" \notin mishap /\ "lapsed" \notin mishap
      /\ "uncounted" \notin mishap' /\ "reset" \notin mishap' /\ "behind" \notin mishap'
      /\ view'[r] = [status |-> engine'.dispatch[r], attempts |-> 0]
  BY MishapsStay DEF TInv, TypeOK, Steady, Rendered
<1> SUFFICES ASSUME engine'.dispatch[r] = "pending" PROVE Covered(view[r], r)'
  BY <1>0 DEF Covered
<1>1. CASE engine.dispatch[r] = "none"
  <2>1. r = x /\ op = "queue"
    BY <1>1, Effects
  <2>2. typed[r] = 0
    BY <1>0, <2>1 DEF BInv, Unknown, Sender
  <2>3. typed'[r] <= view'[r].attempts
    BY <1>0, <2>1, <2>2
  <2> QED BY <2>3 DEF Covered
<1>2. CASE engine.dispatch[r] # "none"
  <2>1. view[r].status # "none"
    BY <1>0, <1>2 DEF BInv
  <2>2. ~Settled(view[r].status)
    <3>1. ~(Settled(view[r].status) /\ ~Forward(view[r].status, "pending"))
      BY <1>0 DEF LostBy
    <3>2. Settled(view[r].status) => ~Forward(view[r].status, "pending")
      BY DEF Settled, Forward, CanTransition, Transitions, DispatchStatus, Unfinished, Finished
    <3> QED BY <3>1, <3>2
  <2>3. view[r].status = "pending"
    BY <2>1, <2>2, Statuses DEF Settled, AnyStatus
  <2>4. ~(view[r].attempts > 0)
    BY <1>0, <2>3 DEF LostBy
  <2>5. view'[r] = view[r]
    <3>1. view[r].attempts = 0
      BY <1>0, <2>4, AttemptsAssumption DEF Entry
    <3> QED BY <1>0, <2>3, <3>1 DEF Entry
  <2>6. PICK e \in Entry : e = view[r]
    BY <1>0
  <2>7. \A h \in Hook : hook[h].req = r => ~WriteFinal(h) /\ ~Drops(h)
    BY <2>3 DEF WriteFinal, Drops, StatusOf
  <2>8. Covered(e, r)'
    BY <1>0, <2>6, <2>7, CoveredStays
  <2> QED BY <2>5, <2>6, <2>8 DEF Covered
<1> QED BY <1>1, <1>2

\* So is a list that is written.
LEMMA WrittenCovered ==
  ASSUME TInv, TInv', BInv, AInv, [Next]_vars, Steady', WritesList, NEW r \in Requests
  PROVE  Covered(view[r], r)'
<1>0. /\ ListWritten /\ typed' = typed /\ lock # Nobody
      /\ list \in [Requests -> Entry] /\ typed \in [Requests -> 0 .. MaxAttempts + 1]
      /\ hook \in [Hook -> HookState]
      /\ Steady /\ "unreported" \notin mishap
      /\ \A h \in Hook : HookFits(h)
  <2>1. Steady
    BY MishapsStay DEF Steady
  <2> QED BY <2>1, ListWrites, Written DEF TInv, TypeOK, HookState, Steady
<1>1. Covered(list[r], r)
  BY <1>0 DEF AInv
<1>2. ASSUME hook' = hook, NEW q \in Requests, NEW e, view' = [list EXCEPT ![q] = e],
             e.status = "pending" => e.attempts = 0 /\ typed[q] = 0
      PROVE  Covered(view[r], r)'
  <2>1. CASE r = q
    <3>1. view'[r] = e
      BY <1>0, <1>2, <2>1
    <3>2. e.status = "pending" => typed'[r] <= e.attempts
      BY <1>0, <1>2, <2>1
    <3> QED BY <3>1, <3>2 DEF Covered
  <2>2. CASE r # q
    BY <1>0, <1>1, <1>2, <2>2 DEF Covered, Working
  <2> QED BY <2>1, <2>2
<1>3. ASSUME NEW s \in Sender, snd[s].pc = "push", hook' = hook,
             Writes(s, [status |-> "pending", attempts |-> 0])
      PROVE  Covered(view[r], r)'
  <2>1. typed[s] = 0
    BY <1>0, <1>3 DEF BInv, Unknown
  <2> QED BY <1>2, <1>3, <2>1 DEF Writes, Sender
<1>4. ASSUME NEW s \in Sender, snd[s].pc = "write", hook' = hook,
             NEW n, Writes(Req(s), [status |-> snd[s].to, attempts |-> n])
      PROVE  Covered(view[r], r)'
  <2>1. snd[s].to # "pending"
    BY <1>4 DEF TInv, SenderFits
  <2>2. PICK q \in Requests : q = Req(s)
    BY <1>4, FoundInList
  <2> QED BY <1>2, <1>4, <2>1, <2>2 DEF Writes
<1>5. ASSUME NEW h \in Hook, hook[h].pc = "claim", GoesOn(h),
             Writes(hook[h].req, list[hook[h].req])
      PROVE  Covered(view[r], r)'
  <2>1. view' = list
    BY <1>0, <1>5 DEF Writes
  <2>2. hook[h].res = "none"
    BY <1>0, <1>5 DEF HookFits
  <2>3. ASSUME NEW k \in Hook, Working(k, r), hook[k].res # "none"
        PROVE  Working(k, r)' /\ hook'[k].res # "none"
    BY <1>0, <1>5, <2>2, <2>3 DEF GoesOn, Only, Working
  <2> QED BY <1>0, <1>1, <2>1, <2>3 DEF Covered
<1>6. ASSUME NEW h \in Hook, hook[h].pc = "write", Ends(h),
             Writes(hook[h].req, FinalEntry(h))
      PROVE  Covered(view[r], r)'
  <2>1. PICK q \in Requests : q = hook[h].req /\ list[q].status = "pending"
    BY <1>6, FoundInList
  <2>2. CASE r = q
    <3>1. FinalEntry(h).attempts = list[q].attempts + 1 /\ view'[r] = FinalEntry(h)
      BY <1>0, <1>6, <2>1, <2>2 DEF Writes, FinalEntry
    <3>2. typed[r] <= list[q].attempts + 1
      <4>1. list[q].attempts \in Nat /\ typed[r] \in Nat
        BY <1>0, AttemptsAssumption DEF Entry
      <4>2. typed[r] <= list[q].attempts \/ typed[r] <= list[q].attempts + 1
        BY <1>1, <2>1, <2>2 DEF Covered
      <4> QED BY <4>1, <4>2
    <3> QED BY <1>0, <3>1, <3>2 DEF Covered
  <2>3. CASE r # q
    <3>1. ASSUME NEW k \in Hook, Working(k, r), hook[k].res # "none"
          PROVE  Working(k, r)' /\ hook'[k].res # "none"
      BY <1>0, <1>6, <2>1, <2>3, <3>1 DEF Ends, Only, Working
    <3>2. view'[r] = list[r]
      BY <1>0, <1>6, <2>1, <2>3 DEF Writes
    <3> QED BY <1>0, <1>1, <3>1, <3>2 DEF Covered
  <2> QED BY <2>2, <2>3
<1> QED BY <1>0, <1>3, <1>4, <1>5, <1>6 DEF ListWritten

LEMMA ViewCovered ==
  ASSUME TInv, TInv', LInv, BInv, AInv, [Next]_vars, Steady',
         \A h \in Hook : hook'[h].pc # "write", NEW r \in Requests
  PROVE  Covered(view[r], r)'
<1>0. /\ mishap \subseteq mishap' /\ Steady /\ view \in [Requests -> Entry]
      /\ "uncounted" \notin mishap' /\ "lapsed" \notin mishap /\ "unreported" \notin mishap'
  <2>1. mishap \subseteq mishap'
    BY MishapsStay
  <2>2. Steady
    BY <2>1 DEF Steady
  <2> QED BY <2>1, <2>2 DEF Steady, TInv, TypeOK
<1>1. CASE WritesList
  BY <1>1, WrittenCovered
<1>2. ASSUME ~WritesList PROVE Covered(view[r], r)'
  <2>1. \A h \in Hook : ~WriteFinal(h)
    BY <1>2 DEF WritesList, WriteFinal, Writes, WriteListAndUnlock
  <2>2. \A h \in Hook : hook[h].pc # "write"
    <3> SUFFICES ASSUME NEW h \in Hook, hook[h].pc = "write" PROVE FALSE
      OBVIOUS
    <3>1. hook[h].res # "none" /\ lock = h /\ h # Nobody
      BY HookAssumption DEF TInv, TypeOK, HookFits
    <3>2. ~Drops(h)
      BY <3>1 DEF Drops
    <3> QED BY <1>0, <2>1, <3>1, <3>2, ResultStays
  <2>3. \A q \in Requests : Covered(view[q], q)
    BY <1>0, <2>2 DEF AInv
  <2>4. CASE engine' = engine /\ view' = view
    <3>1. PICK e \in Entry : e = view[r]
      BY <1>0
    <3>2. CASE e.status = "pending"
      <4>1. \A h \in Hook : hook[h].req = r => ~Drops(h)
        BY <3>1, <3>2 DEF Drops, StatusOf
      <4>2. Covered(e, r)'
        BY <1>0, <2>1, <2>3, <3>1, <4>1, CoveredStays
      <4> QED BY <2>4, <3>1, <4>2 DEF Covered
    <3>3. CASE e.status # "pending"
      BY <2>4, <3>1, <3>3 DEF Covered
    <3> QED BY <3>2, <3>3
  <2>5. ASSUME NEW s \in Sender, Queues(s) PROVE Covered(view[r], r)'
    BY <1>2, <2>2, <2>3, <2>5, RenderedCovered DEF Queues, Effect, Sender
  <2>6. ASSUME NEW op \in DispatchOps, NEW x \in Requests, Updates(op, x)
        PROVE  Covered(view[r], r)'
    BY <1>2, <2>2, <2>3, <2>6, RenderedCovered DEF Updates
  <2>7. ~ \E h \in Hook : Records(h)
    BY DEF Records
  <2> QED BY <1>0, <1>2, <2>4, <2>5, <2>6, <2>7, Reported
<1> QED BY <1>1, <1>2

LEMMA ListCovered ==
  ASSUME TInv, TInv', LInv, AInv, [Next]_vars, Steady', lock' # Nobody, NEW r \in Requests
  PROVE  Covered(list[r], r)'
<1>0. /\ mishap \subseteq mishap' /\ Steady
      /\ view \in [Requests -> Entry] /\ list \in [Requests -> Entry]
      /\ "uncounted" \notin mishap' /\ "lapsed" \notin mishap
      /\ \A h \in Hook : ~WriteFinal(h) /\ ~Unlock
      /\ lock = Nobody => \A h \in Hook : hook[h].pc # "write"
  <2>1. mishap \subseteq mishap'
    BY MishapsStay
  <2>2. Steady
    BY <2>1 DEF Steady
  <2> QED BY <2>1, <2>2, HookAssumption DEF Steady, TInv, TypeOK, WriteFinal, WriteListAndUnlock, Unlock
<1>1. \A h \in Hook : ~Drops(h)
  BY DEF Drops
<1>2. PICK e \in Entry : e = list'[r] /\ Covered(e, r)
  <2>1. CASE lock # Nobody
    <3>1. Covered(list[r], r) /\ list' = list
      BY <1>0, <2>1, ListMoves DEF AInv, Unlock
    <3> QED BY <1>0, <3>1
  <2>2. CASE lock = Nobody
    <3>1. list' = view
      BY <2>2, ListMoves DEF Unlock
    <3>2. Covered(view[r], r)
      BY <1>0, <2>2 DEF AInv
    <3> QED BY <1>0, <3>1, <3>2
  <2> QED BY <2>1, <2>2
<1>3. Covered(e, r)'
  BY <1>0, <1>1, <1>2, CoveredStays
<1> QED BY <1>2, <1>3 DEF Covered

LEMMA NextAInv == AInv /\ BInv /\ LInv /\ TInv /\ TInv' /\ [Next]_vars => AInv'
<1> SUFFICES ASSUME AInv, BInv, LInv, TInv, TInv', [Next]_vars, Steady' PROVE AInv'
  BY DEF AInv, Steady
<1>1. Steady
  BY MishapsStay DEF Steady
<1>2. ASSUME NEW r \in Requests PROVE typed'[r] <= MaxAttempts
  <2>0. /\ typed \in [Requests -> 0 .. MaxAttempts + 1] /\ MaxAttempts \in Nat
        /\ typed[r] <= MaxAttempts
    BY <1>1, AttemptsAssumption DEF AInv, TInv, TypeOK
  <2>1. ASSUME NEW h \in Hook, hook[h].pc = "inject", hook[h].req \in Requests,
               Count(hook[h].req)
        PROVE  typed'[r] <= MaxAttempts
    <3>1. typed[hook[h].req] < MaxAttempts
      BY <1>1, <2>1 DEF AInv
    <3> QED BY <2>0, <2>1, <3>1 DEF Count
  <2> QED BY <2>0, <2>1, WhoTypes
<1>3. \A h \in Hook : hook'[h].pc \in {"claim", "inject"} => typed'[hook'[h].req] < MaxAttempts
  BY MayType
<1>4. (\A h \in Hook : hook'[h].pc # "write") => \A r \in Requests : Covered(view[r], r)'
  BY ViewCovered
<1>5. lock' # Nobody => \A r \in Requests : Covered(list[r], r)'
  BY ListCovered
<1> QED BY <1>2, <1>3, <1>4, <1>5 DEF AInv, Covered, Working

\* The attempts that the view counts cover all that hooks have typed.
THEOREM AInvariance == Spec => []AInv
<1>1. Init => AInv
  <2> SUFFICES ASSUME Init PROVE AInv
    OBVIOUS
  <2>1. /\ \A r \in Requests : typed[r] = 0 /\ view[r].status = "none"
        /\ \A h \in Hook : hook[h].pc = "idle"
        /\ lock = Nobody /\ MaxAttempts \in Nat
    BY AttemptsAssumption DEF Init, NoList, Absent
  <2>2. \A r \in Requests : typed[r] <= MaxAttempts
    BY <2>1
  <2> QED BY <2>1, <2>2 DEF AInv, Covered
<1> QED BY <1>1, NextAInv, BInvariance, LInvariance, TInvariance, PTL DEF Spec

\* The hooks type a request at most MaxAttempts times, until a mishap takes
\* the count from the view or keeps it from being written.
THEOREM AttemptsBounded == Spec => []AttemptsAreBounded
<1>1. AInv => AttemptsAreBounded
  BY DEF AInv, AttemptsAreBounded, Steady
<1> QED BY <1>1, AInvariance, PTL

-----------------------------------------------------------------------------
(* One pending request for an instruction.                                  *)

\* A sender comes to queue only after it found no twin.
LEMMA ToQueue ==
  ASSUME TInv, [Next]_vars, NEW s \in Sender, snd'[s].pc \in {"queue", "push"}
  PROVE  snd[s].pc \in {"queue", "push"} \/ Enqueue(s)
<1>0. snd \in [Sender -> SenderState]
  BY DEF TInv, TypeOK, SenderState
<1>1. CASE SenderStep(s)
  <2>1. ~Enqueue(s) /\ ~QueueExec(s) => snd'[s].pc \notin {"queue", "push"}
    BY <1>0, <1>1, SenderPlaces DEF SenderStep, Onward
  <2> QED BY <2>1 DEF QueueExec
<1>2. CASE SenderDies(s)
  BY <1>0, <1>2 DEF SenderDies, Goto, SenderState
<1> QED BY <1>1, <1>2, SenderMoves

\* It pushes what it could not queue, or dies.
LEMMA FromPush ==
  ASSUME TInv, [Next]_vars, NEW s \in Sender, snd[s].pc = "push", snd'[s].pc # "push",
         "unqueued" \notin mishap'
  PROVE  /\ Push(s) /\ WritesList /\ Unlock /\ engine' = engine
         /\ view'[s].status = "pending"
<1>1. Push(s)
  <2>1. ~SenderDies(s)
    BY DEF SenderDies
  <2>2. SenderStep(s) => Push(s)
    BY DEF SenderStep, Deduplicate, Enqueue, QueueExec, Receipt, NoReceipt, Notify, NotifyFailed,
       Mark, MarkExec, Fail, Transition, WriteTransition
  <2> QED BY <2>1, <2>2, SenderMoves
<1>2. Writes(s, [status |-> "pending", attempts |-> 0])
  BY <1>1 DEF Push, Writes, WriteListAndUnlock
<1> QED BY <1>1, <1>2 DEF WritesList, Writes, TInv, TypeOK, Sender

\* What an exec renders as pending was so, or is what the lock's holder queues.
LEMMA RenderedPending ==
  ASSUME TInv, OInv, Sane, NEW op \in DispatchOps, NEW x \in Requests, Effect(op, x),
         op = "queue" => snd[x].pc = "queue",
         view' = Rendered(engine'), "behind" \notin LostBy(view, engine'),
         NEW r \in Requests, view'[r].status = "pending"
  PROVE  view[r].status = "pending" \/ snd[r].pc \in {"queue", "push"}
<1>1. engine'.dispatch[r] = "pending"
  BY DEF Rendered
<1>2. ~Settled(view[r].status)
  <2>1. ~(Settled(view[r].status) /\ ~Forward(view[r].status, "pending"))
    BY <1>1 DEF LostBy
  <2>2. Settled(view[r].status) => ~Forward(view[r].status, "pending")
    BY DEF Settled, Forward, CanTransition, Transitions, DispatchStatus, Unfinished, Finished
  <2> QED BY <2>1, <2>2
<1>3. view[r].status \in {"pending", "none"}
  BY <1>2, Statuses DEF Settled, AnyStatus
<1>4. CASE engine.dispatch[r] = "none"
  BY <1>1, <1>4, Effects
<1>5. CASE engine.dispatch[r] # "none"
  BY <1>3, <1>5 DEF OInv
<1> QED BY <1>4, <1>5

\* What a list written says is pending, the list said; or its holder pushes it.
LEMMA WrittenPending ==
  ASSUME TInv, ListWritten, NEW r \in Requests, view'[r].status = "pending"
  PROVE  list[r].status = "pending" \/ snd[r].pc = "push"
<1>0. list \in [Requests -> Entry] /\ Sender = Requests
  BY DEF TInv, TypeOK, Sender
<1>1. ASSUME NEW s \in Sender, snd[s].pc = "push",
             Writes(s, [status |-> "pending", attempts |-> 0])
      PROVE  list[r].status = "pending" \/ snd[r].pc = "push"
  BY <1>0, <1>1 DEF Writes
<1>2. ASSUME NEW s \in Sender, snd[s].pc = "write", NEW n,
             Writes(Req(s), [status |-> snd[s].to, attempts |-> n])
      PROVE  list[r].status = "pending"
  <2>1. PICK q \in Requests : q = Req(s) /\ snd[s].to # "pending"
    BY <1>2, FoundInList DEF TInv, SenderFits
  <2> QED BY <1>0, <1>2, <2>1 DEF Writes
<1>3. ASSUME NEW h \in Hook, hook[h].pc = "claim", Writes(hook[h].req, list[hook[h].req])
      PROVE  list[r].status = "pending"
  BY <1>0, <1>3 DEF Writes
<1>4. ASSUME NEW h \in Hook, hook[h].pc = "write", Writes(hook[h].req, FinalEntry(h))
      PROVE  list[r].status = "pending"
  <2>1. PICK q \in Requests : q = hook[h].req /\ list[q].status = "pending"
    BY <1>4, FoundInList
  <2> QED BY <1>0, <1>4, <2>1 DEF Writes
<1> QED BY <1>1, <1>2, <1>3, <1>4 DEF ListWritten

\* How the view and the engine move, until the engine is ahead of the view or
\* a list is stale.
LEMMA SaneMoves ==
  ASSUME TInv, TInv', OInv, [Next]_vars, Sane'
  PROVE  \/ engine' = engine /\ view' = view
         \/ \E op \in DispatchOps, x \in Requests : Vanishes(op, x)
         \/ WritesList /\ ListWritten
         \/ \E op \in DispatchOps, x \in Requests :
              /\ Effect(op, x) /\ view' = Rendered(engine')
              /\ "behind" \notin LostBy(view, engine')
              /\ op = "queue" => snd[x].pc = "queue"
              /\ Unlock \/ (UNCHANGED <<list, lock>> /\ op # "queue")
<1>0. "behind" \notin mishap'
  BY DEF Sane
<1>1. ASSUME NEW s \in Sender, Queues(s)
      PROVE  \E op \in DispatchOps, x \in Requests :
              /\ Effect(op, x) /\ view' = Rendered(engine')
              /\ "behind" \notin LostBy(view, engine')
              /\ op = "queue" => snd[x].pc = "queue"
              /\ Unlock \/ (UNCHANGED <<list, lock>> /\ op # "queue")
  BY <1>0, <1>1 DEF Queues, Effect, Sender
<1>2. ASSUME NEW op \in DispatchOps, NEW x \in Requests, Updates(op, x)
      PROVE   /\ Effect(op, x) /\ view' = Rendered(engine')
              /\ "behind" \notin LostBy(view, engine')
              /\ op # "queue" /\ UNCHANGED <<list, lock>>
  BY <1>0, <1>2 DEF Updates
<1>3. ASSUME NEW h \in Hook, Records(h)
      PROVE  \E op \in DispatchOps, x \in Requests :
              /\ Effect(op, x) /\ view' = Rendered(engine')
              /\ "behind" \notin LostBy(view, engine')
              /\ op # "queue" /\ UNCHANGED <<list, lock>>
  <2>1. PICK op \in DispatchOps, q \in Requests :
          op = FinalOp(h) /\ q = hook[h].req /\ op # "queue"
    BY <1>3 DEF Records, TInv, HookFits, FinalOp, DispatchOps
  <2>2. "behind" \notin LostBy(view, engine')
    BY <1>0, <1>3 DEF Records
  <2>3. Effect(op, q) /\ view' = Rendered(engine') /\ UNCHANGED <<list, lock>>
    BY <1>3, <2>1 DEF Records
  <2> QED BY <2>1, <2>2, <2>3
<1> QED BY <1>1, <1>2, <1>3, EngineMoves, ListWrites

LEMMA NextOInv == OInv /\ TInv /\ TInv' /\ [Next]_vars => OInv'
<1> SUFFICES ASSUME OInv, TInv, TInv', [Next]_vars, Sane' PROVE OInv'
  BY DEF OInv, Sane
<1>0. /\ Sane /\ team' = team /\ Sender = Requests /\ Nobody \notin Requests
      /\ "stale" \notin mishap' /\ "unqueued" \notin mishap'
      /\ \A s \in Sender : snd[s].pc \in {"queue", "push"} => lock = s
      /\ \A s \in Sender : snd'[s].pc \in {"queue", "push"} => lock' = s
  <2>1. Sane
    BY MishapsStay DEF Sane
  <2>2. team' = team
    BY WhoSteps DEF vars
  <2> QED BY <2>1, <2>2, HookAssumption DEF Sane, TInv, TypeOK, Sender
<1>1. OnePending(view)'
  <2> SUFFICES ASSUME NEW q \in Requests, NEW r \in Requests, Twins(q, r),
                      view'[q].status = "pending", view'[r].status = "pending"
               PROVE  FALSE
    BY <1>0 DEF OnePending, Twins, Equivalent
  <2>0. /\ q # r /\ Twins(r, q)
        /\ ~(view[q].status = "pending" /\ view[r].status = "pending")
        /\ ~(list[q].status = "pending" /\ list[r].status = "pending")
        /\ snd[q].pc \in {"queue", "push"} =>
             view[r].status # "pending" /\ list[r].status # "pending"
        /\ snd[r].pc \in {"queue", "push"} =>
             view[q].status # "pending" /\ list[q].status # "pending"
    BY <1>0 DEF Twins, OInv, OnePending
  <2>1. CASE view' = view
    BY <2>0, <2>1
  <2>2. CASE ListWritten
    BY <1>0, <2>0, <2>2, WrittenPending
  <2>3. ASSUME NEW op \in DispatchOps, NEW x \in Requests, Effect(op, x),
               view' = Rendered(engine'), "behind" \notin LostBy(view, engine'),
               op = "queue" => snd[x].pc = "queue"
        PROVE  FALSE
    <3>1. /\ view[q].status = "pending" \/ snd[q].pc \in {"queue", "push"}
          /\ view[r].status = "pending" \/ snd[r].pc \in {"queue", "push"}
      BY <1>0, <2>3, RenderedPending
    <3> QED BY <1>0, <2>0, <3>1
  <2> QED BY <2>1, <2>2, <2>3, SaneMoves DEF Vanishes
<1>2. OnePending(list)'
  <2>1. list' = list \/ list' = view \/ list' = NoList
    BY ListMoves DEF Unlock
  <2> QED BY <1>0, <2>1 DEF OInv, OnePending, Twins, Equivalent, NoList, Absent
<1>3. ASSUME NEW s \in Sender, snd'[s].pc \in {"queue", "push"},
             NEW q \in Requests, Twins(q, s)
      PROVE  view'[q].status # "pending" /\ list'[q].status # "pending"
  <2>1. CASE Enqueue(s)
    BY <1>3, <2>1 DEF Enqueue, Twins, LockAndRead, Pending, StatusOf
  <2>2. CASE snd[s].pc \in {"queue", "push"}
    <3>1. view[q].status # "pending" /\ list[q].status # "pending"
      BY <1>0, <1>3, <2>2 DEF OInv
    <3>2. list' = list /\ lock = s /\ ~Unlock /\ s # Nobody
      BY <1>0, <1>3, <2>2, ListMoves DEF Unlock
    <3>3. ASSUME NEW op \in DispatchOps, NEW x \in Requests, Effect(op, x),
                 view' = Rendered(engine'), "behind" \notin LostBy(view, engine'),
                 op = "queue" => snd[x].pc = "queue", view'[q].status = "pending"
          PROVE  FALSE
      <4>1. snd[q].pc \in {"queue", "push"}
        BY <1>0, <3>1, <3>3, RenderedPending
      <4> QED BY <1>0, <1>3, <3>2, <4>1 DEF Twins
    <3>4. ~WritesList
      BY <3>2, ListWrites, Written
    <3> QED BY <3>1, <3>2, <3>3, <3>4, SaneMoves DEF Vanishes
  <2> QED BY <1>3, <2>1, <2>2, ToQueue
<1>4. ASSUME NEW r \in Requests, engine'.dispatch[r] # "none", snd'[r].pc # "push"
      PROVE  view'[r].status # "none" /\ (lock' # Nobody => list'[r].status # "none")
  <2>1. CASE snd[r].pc = "push"
    BY <1>0, <1>4, <2>1, FromPush DEF Unlock
  <2>2. CASE snd[r].pc # "push"
    <3>0. engine.dispatch[r] # "none" =>
            view[r].status # "none" /\ (lock # Nobody => list[r].status # "none")
      BY <1>0, <2>2 DEF OInv
    <3>1. CASE engine' = engine /\ view' = view
      BY <1>4, <3>0, <3>1, ListMoves DEF Unlock
    <3>2. ASSUME NEW op \in DispatchOps, NEW x \in Requests, Vanishes(op, x)
          PROVE  view'[r].status # "none" /\ (lock' # Nobody => list'[r].status # "none")
      <4>1. engine.dispatch[r] # "none"
        BY <1>4, <3>2, Effects DEF Vanishes
      <4> QED BY <3>0, <3>2, <4>1 DEF Vanishes
    <3>3. CASE ListWritten
      BY <1>4, <3>0, <3>3, Written DEF Unlock
    <3>4. ASSUME NEW op \in DispatchOps, NEW x \in Requests, Effect(op, x),
                 view' = Rendered(engine'),
                 Unlock \/ (UNCHANGED <<list, lock>> /\ op # "queue")
          PROVE  view'[r].status # "none" /\ (lock' # Nobody => list'[r].status # "none")
      <4>1. view'[r].status # "none"
        BY <1>4, <3>4 DEF Rendered
      <4>2. CASE Unlock
        BY <4>1, <4>2 DEF Unlock
      <4>3. CASE UNCHANGED <<list, lock>> /\ op # "queue"
        <5>1. engine.dispatch[r] # "none"
          BY <1>4, <3>4, <4>3, Effects
        <5> QED BY <3>0, <4>1, <4>3, <5>1
      <4> QED BY <3>4, <4>2, <4>3
    <3> QED BY <3>1, <3>2, <3>3, <3>4, SaneMoves
  <2> QED BY <2>1, <2>2
<1>5. /\ \A q, s \in Requests : Twins(q, s)' = Twins(q, s)
  BY <1>0 DEF Twins, Equivalent
<1> QED BY <1>0, <1>1, <1>2, <1>3, <1>4, <1>5 DEF OInv

\* Of two requests that match each other at most one is pending, in the view
\* and in the list; and until a sender that found none pending has queued its
\* own, none is.
THEOREM OInvariance == Spec => []OInv
<1>1. Init => OInv
  BY DEF Init, OInv, OnePending, NewEngine, NoList, Absent, Sender
<1> QED BY <1>1, NextOInv, TInvariance, PTL DEF Spec

\* Of the requests of an instruction that match each other one at most is
\* pending, even when execs are killed unseen, hooks die and leases lapse.
THEOREM OnePendingOnly == Spec => []OnePendingPerInstruction
<1>1. OInv => OnePendingPerInstruction
  BY DEF OInv, OnePendingPerInstruction, Sane, OnePending, Twins, Pending, StatusOf
<1> QED BY <1>1, OInvariance, PTL
=============================================================================
