--------------------------- MODULE DispatchQueue ---------------------------
(***************************************************************************)
(* The dispatch requests of one team: the instructions that the leader and *)
(* workers queue for a pane (src/src/team/state/dispatch.ts, mcp-comm.ts,  *)
(* runtime.ts), and the notify hooks that type them into the pane          *)
(* (src/src/scripts/notify-hook/team-dispatch.ts).                         *)
(*                                                                         *)
(*   engine  the records of the Rust engine; one omx-runtime exec is one   *)
(*           step here (RuntimeExec shows when it may be taken as one)     *)
(*   view    dispatch.json.  Every exec renders it from the engine; the    *)
(*           senders and the hooks read it and write whole lists to it     *)
(*   lock    the dispatch lock (DirLock); execs other than QueueDispatch   *)
(*           and those of a finalizing hook run outside of it              *)
(*   lease   the .processing- directory of a request, good for 30 s        *)
(*                                                                         *)
(* A sender names the request that it would create; a request is the name  *)
(* of its creator.  Once the engine has run dispatch.json is there, and    *)
(* the copy in dispatch/requests.json is not read: it is left out, as are  *)
(* cooldowns (a hook may skip a request for a tick) and mailbox records.   *)
(***************************************************************************)
EXTENDS RuntimeEngine

CONSTANTS
  Hook,           \* processes that run drainPendingTeamDispatch
  Nobody,         \* holds a free lock or lease
  Teams,          \* the teams considered (see the variable team)
  MaxAttempts     \* MAX_UNCONFIRMED_ATTEMPTS

ASSUME HookAssumption == Nobody \notin Hook \cup Requests /\ Hook \cap Requests = {}
ASSUME TeamsAssumption ==
  Teams \subseteq [hooks : SUBSET Hook, direct : SUBSET Requests,
                  equivalent : SUBSET (Requests \X Requests), maxFaults : Nat]
ASSUME AttemptsAssumption == MaxAttempts \in Nat \ {0}

Sender == Requests

VARIABLES
  team,     \* its hooks; the requests sent with transport_direct, those that
            \* equivalentPendingDispatch matches; and a bound on its faults:
            \* failed execs, deaths, lapsed leases and lock timeouts
  engine,   \* the engine's state
  view,     \* dispatch.json
  lock,     \* holder of the dispatch lock
  list,     \* the list that the holder of the lock has read
  dirty,    \* history: an exec has rendered the view since it was read
  lease,    \* lease[r]: the hook whose token is in the lease directory of r
  snd,      \* snd[s]: where the sender is, its request, its transition
  hook,     \* hook[h]: where the hook is, its claim, the injector's result
  faults,   \* faults so far
  typed,    \* history: how often a hook typed the request into the pane
  direct,   \* history: the requests that a sender typed into the pane
  mishap    \* history: what went wrong so far (see below)

vars == <<team, engine, view, lock, list, dirty, lease, snd, hook, faults, typed, direct,
          mishap>>

Direct == team.direct
Equivalent == team.equivalent

\* "unqueued"   a QueueDispatch failed: the request is only in the view
\* "behind"     the view was settled in a way the engine had not been told of,
\*              and was rendered from the engine again
\* "stale"      a list was written over a view that an exec had rendered since
\* "reset"      a rendered view lost the attempt count of a pending request
\* "unreported" an exec was killed after it had taken effect
\* "lapsed"     a lease was taken from a hook that was still at work
\* "uncounted"  a hook typed and did not get to record its attempt
Mishaps == {"unqueued", "behind", "stale", "reset",
            "unreported", "lapsed", "uncounted"}

Absent == [status |-> "none", attempts |-> 0]
Entry == [status : DispatchStatus \cup {"none"}, attempts : 0 .. MaxAttempts + 1]
NoList == [r \in Requests |-> Absent]

SenderPc == {"idle", "queue", "push", "wait", "notify", "mark", "markExec",
             "notifyFailed", "fail", "transition", "write", "done"}
HookPc == {"idle", "claim", "inject", "finalize", "record", "write"}
Results == {"none", "confirmed", "unconfirmed", "failed"}

TypeOK ==
  /\ team \in Teams
  /\ engine \in EngineState
  /\ view \in [Requests -> Entry]
  /\ dirty \in BOOLEAN
  /\ list \in [Requests -> Entry]
  /\ lock \in Sender \cup Hook \cup {Nobody}
  /\ lease \in [Requests -> Hook \cup {Nobody}]
  /\ snd \in [Sender -> [pc : SenderPc, req : Requests,
                         from : DispatchStatus, to : DispatchStatus]]
  /\ hook \in [Hook -> [pc : HookPc, req : Requests \cup {Nobody}, res : Results]]
  /\ faults \in 0 .. team.maxFaults
  /\ typed \in [Requests -> 0 .. MaxAttempts + 1]
  /\ direct \subseteq Requests
  /\ mishap \subseteq Mishaps
  /\ \A s \in Sender : snd[s].pc \in {"queue", "push", "write"} => lock = s
  /\ \A h \in Hook : hook[h].pc \in {"claim", "record", "write"} => lock = h

Init ==
  /\ team \in Teams
  /\ engine = NewEngine
  /\ view = NoList /\ list = NoList
  /\ lock = Nobody /\ dirty = FALSE
  /\ lease = [r \in Requests |-> Nobody]
  /\ snd = [s \in Sender |-> [pc |-> "idle", req |-> s, from |-> "pending", to |-> "failed"]]
  /\ hook = [h \in Hook |-> [pc |-> "idle", req |-> Nobody, res |-> "none"]]
  /\ faults = 0
  /\ typed = [r \in Requests |-> 0] /\ direct = {} /\ mishap = {}

-----------------------------------------------------------------------------
(* The statuses of a request.                                              *)

\* TEAM_DISPATCH_REQUEST_STATUS_TRANSITIONS
Transitions == {<<"pending", "notified">>, <<"pending", "failed">>,
                <<"notified", "delivered">>, <<"notified", "failed">>}

CanTransition(from, to) == from = to \/ <<from, to>> \in Transitions

\* What may become of a request, several transitions taken as one.
Forward(from, to) ==
  \/ CanTransition(from, to)
  \/ from = "none"
  \/ from = "pending" /\ to = "delivered"

-----------------------------------------------------------------------------
(* omx-runtime exec, as one step.                                          *)

Settled(status) == status \in DispatchStatus \ {"pending"}

\* write_compatibility_view: statuses from the engine, metadata as queued,
\* which never holds an attempt_count.
Rendered(e) == [r \in Requests |-> [status |-> e.dispatch[r], attempts |-> 0]]

\* What a view loses by being rendered anew from the engine e.
LostBy(v, e) ==
  (IF \E r \in Requests : Settled(v[r].status) /\ ~Forward(v[r].status, e.dispatch[r])
     THEN {"behind"} ELSE {})
  \cup
  (IF \E r \in Requests : v[r].status = "pending" /\ v[r].attempts > 0
                            /\ e.dispatch[r] = "pending" THEN {"reset"} ELSE {})

\* The runtime accepts the command: the engine and the view are new.
Accepted(c) ==
  /\ Legal(engine, c)
  /\ engine' = Apply(engine, c)
  /\ view' = Rendered(engine')

\* It refuses the command, and writes nothing.
Refused(c) == ~Legal(engine, c) /\ UNCHANGED <<engine, view>>

\* The binary is missing, or the call is killed before it persists.
NotRun == faults < team.maxFaults /\ faults' = faults + 1 /\ UNCHANGED <<engine, view, mishap>>

\* The call is killed after it has persisted: done, but reported as failed.
RunUnreported(c) ==
  /\ faults < team.maxFaults /\ faults' = faults + 1
  /\ Legal(engine, c)
  /\ engine' = Apply(engine, c)
  /\ mishap' = mishap \cup {"unreported"}
  /\ UNCHANGED view

Failed(c) == (Refused(c) /\ UNCHANGED <<faults, mishap>>) \/ NotRun \/ RunUnreported(c)

DispatchCommand(op, r) == [op |-> op, on |-> r]

-----------------------------------------------------------------------------
(* The dispatch lock.                                                      *)

\* withDispatchLock: p has the lock and reads the list.
LockAndRead(p) ==
  /\ lock = Nobody
  /\ lock' = p
  /\ list' = view
  /\ dirty' = FALSE

Unlock == lock' = Nobody /\ list' = NoList /\ dirty' = FALSE

\* An exec outside of the lock renders the view under a holder's eyes.
RenderUnlocked ==
  /\ dirty' = (lock # Nobody)
  /\ mishap' = mishap \cup LostBy(view, engine')

\* The holder writes the whole list, with a new entry for r, and unlocks.
WriteListAndUnlock(r, entry, more) ==
  /\ view' = [list EXCEPT ![r] = entry]
  /\ mishap' = mishap \cup more \cup (IF dirty THEN {"stale"} ELSE {})
  /\ Unlock

-----------------------------------------------------------------------------
(* The senders: queueInboxInstruction and queueDirectMailboxMessage, then  *)
(* dispatchCriticalInboxInstruction or finalizeHookPreferredMailboxDispatch*)

Goto(s, where) == snd' = [snd EXCEPT ![s].pc = where]
Req(s) == snd[s].req
StatusOf(r) == view[r].status
Onward(s) == IF s \in Direct THEN "notify" ELSE "wait"

Pending(q) == StatusOf(q) = "pending"

\* enqueueDispatchRequest finds an equivalent pending request: the sender goes
\* on with that one (a direct sender is done).
Deduplicate(s) ==
  /\ snd[s].pc = "idle" /\ lock = Nobody
  /\ \E q \in Requests :
       /\ <<q, s>> \in Equivalent /\ Pending(q)
       /\ snd' = [snd EXCEPT ![s].req = q,
                             ![s].pc = IF s \in Direct THEN "done" ELSE "wait"]
  /\ UNCHANGED <<engine, view, lock, list, dirty, lease, hook, faults, typed, direct, mishap>>

\* Mutation of Enqueue: the pending requests are not looked through.
EnqueueUnchecked(s) ==
  /\ snd[s].pc = "idle"
  /\ LockAndRead(s)
  /\ Goto(s, "queue")
  /\ UNCHANGED <<engine, view, lease, hook, faults, typed, direct, mishap>>

\* enqueueDispatchRequest, under the lock until the request is in the view.
Enqueue(s) ==
  /\ snd[s].pc = "idle"
  /\ ~ \E q \in Requests : <<q, s>> \in Equivalent /\ Pending(q)
  /\ LockAndRead(s)
  /\ Goto(s, "queue")
  /\ UNCHANGED <<engine, view, lease, hook, faults, typed, direct, mishap>>

\* QueueDispatch: the exec has put the request into the view, or it failed.
QueueExec(s) ==
  /\ snd[s].pc = "queue"
  /\ LET c == DispatchCommand("queue", s) IN
     \/ /\ Accepted(c)
        /\ mishap' = mishap \cup LostBy(view, engine')
        /\ Unlock
        /\ Goto(s, Onward(s))
        /\ UNCHANGED faults
     \/ /\ Failed(c)
        /\ Goto(s, "push")
        /\ UNCHANGED <<lock, list, dirty>>
  /\ UNCHANGED <<lease, hook, typed, direct>>

\* The exec failed: the request is pushed onto the list.
Push(s) ==
  /\ snd[s].pc = "push"
  /\ WriteListAndUnlock(s, [status |-> "pending", attempts |-> 0],
                        IF engine.dispatch[s] = "none" THEN {"unqueued"} ELSE {})
  /\ Goto(s, Onward(s))
  /\ UNCHANGED <<engine, lease, hook, faults, typed, direct>>

\* waitForDispatchReceipt sees that the request is settled.  A receipt that
\* says notified may not do, when the worker shows no sign of having started.
Receipt(s) ==
  /\ snd[s].pc = "wait"
  /\ \/ StatusOf(Req(s)) \in {"notified", "delivered"} /\ Goto(s, "done")
     \/ StatusOf(Req(s)) = "notified" /\ Goto(s, "notify")
     \/ StatusOf(Req(s)) = "failed" /\ Goto(s, "notifyFailed")
  /\ UNCHANGED <<engine, view, lock, list, dirty, lease, hook, faults, typed, direct, mishap>>

\* Mutation of NoReceipt: the sender waits for as long as it takes.
NoReceiptEver(s) == FALSE /\ snd[s].pc = "wait"

\* The deadline passes, or there is no such request (any more).
NoReceipt(s) ==
  /\ snd[s].pc = "wait"
  /\ StatusOf(Req(s)) \in {"none", "pending"}
  /\ Goto(s, "notify")
  /\ UNCHANGED <<engine, view, lock, list, dirty, lease, hook, faults, typed, direct, mishap>>

\* notifyWorkerOutcome: the sender types the instruction into the pane itself.
\* It succeeds; or types, and sees no sign of a start; or cannot type.
Notify(s) ==
  /\ snd[s].pc = "notify"
  /\ \/ direct' = direct \cup {Req(s)} /\ Goto(s, "mark")
     \/ direct' = direct \cup {Req(s)} /\ s \notin Direct /\ Goto(s, "fail")
     \/ direct' = direct /\ Goto(s, "fail")
  /\ UNCHANGED <<engine, view, lock, list, dirty, lease, hook, faults, typed, mishap>>

\* The same after a receipt that says failed; the request stays failed.
NotifyFailed(s) ==
  /\ snd[s].pc = "notifyFailed"
  /\ \/ direct' = direct \cup {Req(s)} /\ Goto(s, "fail")
     \/ /\ direct' \in {direct, direct \cup {Req(s)}}
        /\ snd' = [snd EXCEPT ![s].pc = "transition", ![s].from = "failed", ![s].to = "failed"]
  /\ UNCHANGED <<engine, view, lock, list, dirty, lease, hook, faults, typed, mishap>>

\* markDispatchRequestNotified up to its exec: read the request.
Mark(s) ==
  /\ snd[s].pc = "mark"
  /\ Goto(s, CASE Pending(Req(s)) -> "markExec"
               [] StatusOf(Req(s)) = "failed" /\ s \notin Direct -> "fail"
               [] OTHER -> "done")
  /\ UNCHANGED <<engine, view, lock, list, dirty, lease, hook, faults, typed, direct, mishap>>

\* MarkNotified, outside of the lock; when it fails, the transition in the list.
MarkExec(s) ==
  /\ snd[s].pc = "markExec"
  /\ LET c == DispatchCommand("notify", Req(s)) IN
     \/ /\ Accepted(c)
        /\ RenderUnlocked
        /\ Goto(s, "done")
        /\ UNCHANGED faults
     \/ /\ Failed(c)
        /\ snd' = [snd EXCEPT ![s].pc = "transition", ![s].from = "pending", ![s].to = "notified"]
        /\ UNCHANGED dirty
  /\ UNCHANGED <<lock, list, lease, hook, typed, direct>>

\* The current status is read, to be changed to failed.  A direct sender only
\* fails what is pending; a sender of an inbox leaves what has failed.
Fail(s) ==
  /\ snd[s].pc = "fail"
  /\ LET status == StatusOf(Req(s)) IN
     \/ /\ \/ status \in {"none", "failed"}
           \/ s \in Direct /\ Settled(status)
        /\ Goto(s, "done")
     \/ /\ status # "none"
        /\ s \in Direct => status = "pending"
        /\ snd' = [snd EXCEPT ![s].pc = "transition", ![s].from = status, ![s].to = "failed"]
  /\ UNCHANGED <<engine, view, lock, list, dirty, lease, hook, faults, typed, direct, mishap>>

\* transitionDispatchRequest: the request is as it was, or changed already.
MayTransition(s, status) ==
  status \in {snd[s].from, snd[s].to} /\ CanTransition(status, snd[s].to)

\* transitionDispatchRequest, under the lock.  When it may not, a sender that
\* wanted to record its success goes on to record the failure before it.
Transition(s) ==
  /\ snd[s].pc = "transition"
  /\ \/ /\ MayTransition(s, StatusOf(Req(s)))
        /\ LockAndRead(s)
        /\ Goto(s, "write")
     \/ /\ ~MayTransition(s, StatusOf(Req(s)))
        /\ lock = Nobody
        /\ Goto(s, IF snd[s].to = "notified" /\ s \notin Direct THEN "fail" ELSE "done")
        /\ UNCHANGED <<lock, list, dirty>>
  /\ UNCHANGED <<engine, view, lease, hook, faults, typed, direct, mishap>>

WriteTransition(s) ==
  /\ snd[s].pc = "write"
  /\ LET old == list[Req(s)] IN
     WriteListAndUnlock(Req(s),
       [status |-> snd[s].to,
        attempts |-> IF old.status = snd[s].to THEN old.attempts ELSE old.attempts + 1], {})
  /\ Goto(s, "done")
  /\ UNCHANGED <<engine, lease, hook, faults, typed, direct>>

-----------------------------------------------------------------------------
(* The notify hooks: drainPendingTeamDispatch, one request per tick.       *)

GotoH(h, where) == hook' = [hook EXCEPT ![h].pc = where]
EndTick(h) == hook' = [hook EXCEPT ![h] = [pc |-> "idle", req |-> Nobody, res |-> "none"]]
Release(h) == lease' = [r \in Requests |-> IF lease[r] = h THEN Nobody ELSE lease[r]]
Working(h, r) == hook[h].pc # "idle" /\ hook[h].req = r

\* Mutation of Claim: a request is taken without its lease.
ClaimUnleased(h, r) ==
  /\ hook[h].pc = "idle" /\ r \notin Direct
  /\ StatusOf(r) = "pending"
  /\ LockAndRead(h)
  /\ lease' = [lease EXCEPT ![r] = h]
  /\ hook' = [hook EXCEPT ![h] = [pc |-> "claim", req |-> r, res |-> "none"]]
  /\ UNCHANGED <<engine, view, snd, faults, typed, direct, mishap>>

\* Under the lock: a pending request that nobody has the lease of.
Claim(h, r) ==
  /\ hook[h].pc = "idle" /\ r \notin Direct
  /\ StatusOf(r) = "pending"
  /\ LockAndRead(h)
  /\ lease[r] = Nobody
  /\ lease' = [lease EXCEPT ![r] = h]
  /\ hook' = [hook EXCEPT ![h] = [pc |-> "claim", req |-> r, res |-> "none"]]
  /\ UNCHANGED <<engine, view, snd, faults, typed, direct, mishap>>

\* The cooldowns are reserved, which writes the list back as it was read.
WriteClaim(h) ==
  /\ hook[h].pc = "claim"
  /\ WriteListAndUnlock(hook[h].req, list[hook[h].req], {})
  /\ GotoH(h, "inject")
  /\ UNCHANGED <<engine, lease, snd, faults, typed, direct>>

Count(r) == typed' = [typed EXCEPT ![r] = IF @ > MaxAttempts THEN @ ELSE @ + 1]

\* injectDispatchRequest cannot type: no pane, a pane that is not ready, ...
CannotInject(h) ==
  /\ hook[h].pc = "inject"
  /\ hook' = [hook EXCEPT ![h].pc = "finalize", ![h].res = "failed"]
  /\ UNCHANGED <<engine, view, lock, list, dirty, lease, snd, faults, typed, direct, mishap>>

\* It types, and the text is still in the input area after all its checks.
InjectUnconfirmed(h) ==
  /\ hook[h].pc = "inject"
  /\ Count(hook[h].req)
  /\ hook' = [hook EXCEPT ![h].pc = "finalize", ![h].res = "unconfirmed"]
  /\ UNCHANGED <<engine, view, lock, list, dirty, lease, snd, faults, direct, mishap>>

\* It types and sees the text consumed: MarkDelivered, which the engine
\* refuses as long as the request is pending there.
InjectConfirmed(h) ==
  /\ hook[h].pc = "inject"
  /\ Count(hook[h].req)
  /\ hook' = [hook EXCEPT ![h].pc = "finalize", ![h].res = "confirmed"]
  /\ LET c == DispatchCommand("deliver", hook[h].req) IN
     \/ Accepted(c) /\ RenderUnlocked /\ UNCHANGED faults
     \/ Failed(c) /\ UNCHANGED dirty
  /\ UNCHANGED <<lock, list, lease, snd, direct>>

\* Mutation of Outcome: result.ok is not looked at.
OutcomeIgnoringOk(res, attempts) ==
  IF res = "unconfirmed" THEN IF attempts < MaxAttempts THEN "pending" ELSE "failed"
                         ELSE "notified"

\* finalizeClaimedDispatchRequest: what becomes of a request that the injector
\* left with this result, and how its attempts count.
Outcome(res, attempts) ==
  CASE res = "confirmed" -> "notified"
    [] res = "failed" -> "failed"
    [] res = "unconfirmed" -> IF attempts < MaxAttempts THEN "pending" ELSE "failed"

\* Mutation of FinalEntry: the attempt is not counted.
FinalEntryUncounted(h) ==
  LET old == list[hook[h].req] IN
  [status |-> Outcome(hook[h].res, old.attempts + 1), attempts |-> old.attempts]

FinalEntry(h) ==
  LET n == list[hook[h].req].attempts + 1 IN
  [status |-> Outcome(hook[h].res, n), attempts |-> n]

\* Mutation of Finalize: the request is not looked at again.
FinalizeUnchecked(h) ==
  /\ hook[h].pc = "finalize"
  /\ LockAndRead(h)
  /\ GotoH(h, "record")
  /\ UNCHANGED <<engine, view, lease, snd, faults, typed, direct, mishap>>

\* Under the lock again: the request is still pending.  Otherwise its fate was
\* settled meanwhile, and this result is dropped.
Finalize(h) ==
  /\ hook[h].pc = "finalize"
  /\ \/ /\ StatusOf(hook[h].req) = "pending"
        /\ LockAndRead(h)
        /\ GotoH(h, "record")
        /\ UNCHANGED lease
     \/ /\ StatusOf(hook[h].req) # "pending" /\ lock = Nobody
        /\ EndTick(h) /\ Release(h)
        /\ UNCHANGED <<lock, list, dirty>>
  /\ UNCHANGED <<engine, view, snd, faults, typed, direct, mishap>>

\* MarkNotified or MarkFailed; whether the exec succeeds makes no difference.
Record(h) ==
  /\ hook[h].pc = "record"
  /\ GotoH(h, "write")
  /\ LET c == DispatchCommand(IF FinalEntry(h).status = "notified" THEN "notify" ELSE "fail",
                              hook[h].req)
     IN \/ /\ FinalEntry(h).status = "pending"
           /\ UNCHANGED <<engine, view, faults, mishap>>
        \/ /\ FinalEntry(h).status # "pending" /\ Accepted(c)
           /\ mishap' = mishap \cup (LostBy(view, engine') \ {"reset"})
           /\ UNCHANGED faults
        \/ FinalEntry(h).status # "pending" /\ Failed(c)
  /\ UNCHANGED <<lock, list, dirty, lease, snd, typed, direct>>

\* The list, with the new entry, is written over the view; the lease goes.
WriteFinal(h) ==
  /\ hook[h].pc = "write"
  /\ WriteListAndUnlock(hook[h].req, FinalEntry(h), {})
  /\ EndTick(h) /\ Release(h)
  /\ UNCHANGED <<engine, snd, faults, typed, direct>>

-----------------------------------------------------------------------------
(* Faults.                                                                 *)

Fault == faults < team.maxFaults /\ faults' = faults + 1

FreeLock(p) ==
  IF lock = p THEN Unlock ELSE UNCHANGED <<lock, list, dirty>>

\* A sender dies, or its call times out at the lock.  A lock that it holds is
\* recovered after its stale time.
SenderDies(s) ==
  /\ Fault
  /\ snd[s].pc \notin {"idle", "done"}
  /\ Goto(s, "done")
  /\ FreeLock(s)
  /\ mishap' = mishap \cup (IF snd[s].pc \in {"queue", "push"} THEN {"unqueued"} ELSE {})
  /\ UNCHANGED <<engine, view, lease, hook, typed, direct>>

\* A hook dies.  Its lease stays.
HookDies(h) ==
  /\ Fault
  /\ hook[h].pc # "idle"
  /\ EndTick(h)
  /\ FreeLock(h)
  /\ mishap' = mishap \cup (IF hook[h].res # "none" THEN {"uncounted"} ELSE {})
                      \cup (IF hook[h].pc = "write" THEN LostBy(list, engine) ELSE {})
  /\ UNCHANGED <<engine, view, lease, snd, typed, direct>>

\* A hook that has typed cannot get the lock to record it: it gives up.
HookTimesOut(h) ==
  /\ Fault
  /\ hook[h].pc = "finalize" /\ lock # Nobody
  /\ EndTick(h) /\ Release(h)
  /\ mishap' = mishap \cup {"uncounted"}
  /\ UNCHANGED <<engine, view, lock, list, dirty, snd, typed, direct>>

\* A lease is 30 s old: the next hook to try takes it.  It belongs to a hook
\* that has died, or to one that is still at work.
LeaseLapses(r) ==
  /\ lease[r] # Nobody
  /\ lease' = [lease EXCEPT ![r] = Nobody]
  /\ \/ /\ Working(lease[r], r) /\ Fault
        /\ mishap' = mishap \cup {"lapsed"}
     \/ ~Working(lease[r], r) /\ UNCHANGED <<faults, mishap>>
  /\ UNCHANGED <<engine, view, lock, list, dirty, snd, hook, typed, direct>>

-----------------------------------------------------------------------------
SenderStep(s) ==
  \/ Deduplicate(s) \/ Enqueue(s) \/ QueueExec(s) \/ Push(s)
  \/ Receipt(s) \/ NoReceipt(s) \/ Notify(s) \/ NotifyFailed(s)
  \/ Mark(s) \/ MarkExec(s) \/ Fail(s) \/ Transition(s) \/ WriteTransition(s)

HookStep(h) ==
  \/ \E r \in Requests : Claim(h, r)
  \/ WriteClaim(h) \/ CannotInject(h) \/ InjectUnconfirmed(h) \/ InjectConfirmed(h)
  \/ Finalize(h) \/ Record(h) \/ WriteFinal(h)

Next ==
  /\ \/ \E s \in Sender : SenderStep(s) \/ SenderDies(s)
     \/ \E h \in team.hooks : HookStep(h) \/ HookDies(h) \/ HookTimesOut(h)
     \/ \E r \in Requests : LeaseLapses(r)
  /\ UNCHANGED team

Spec == Init /\ [][Next]_vars

\* A sender goes on once it has begun; hooks run on every turn of an agent, and a watcher polls.
FairSpec ==
  /\ Spec
  /\ \A s \in Sender : WF_vars(snd[s].pc # "idle" /\ SenderStep(s) /\ UNCHANGED team)
  /\ \A h \in Hook : WF_vars(h \in team.hooks /\ HookStep(h) /\ UNCHANGED team)
  /\ \A r \in Requests : WF_vars(LeaseLapses(r) /\ UNCHANGED team)

-----------------------------------------------------------------------------
\* A request that says notified or delivered was typed into the pane, by a
\* hook or by a sender.
ReceiptsAreTrue ==
  \A r \in Requests :
    StatusOf(r) \in {"notified", "delivered"} => typed[r] > 0 \/ r \in direct

\* Two hooks never work on one request, unless its lease lapsed under one.
HooksWorkAlone ==
  "lapsed" \notin mishap =>
    \A h, k \in Hook, r \in Requests : Working(h, r) /\ Working(k, r) => h = k

\* "Unconfirmed sends can stay pending while retries remain; otherwise they
\* fail": the hooks type a request at most MaxAttempts times.  The count lives
\* in the view alone, so an exec for anything else that renders the view in
\* between starts it anew; and so do the other mishaps.
AttemptsAreBounded ==
  mishap \subseteq {"unqueued"} => \A r \in Requests : typed[r] <= MaxAttempts

\* At most one request for an instruction is pending, unless one that was
\* settled came back or one that was queued was not in the view.  The match is
\* not symmetric (an inbox instruction without a correlation key is compared by
\* its text), and the later one is looked up: so both must match the other.
OnePendingPerInstruction ==
  mishap \cap {"behind", "stale", "unqueued"} = {} =>
    \A q, r \in Requests :
      {<<q, r>>, <<r, q>>} \subseteq Equivalent /\ q # r => ~(Pending(q) /\ Pending(r))

\* pending before notified before delivered, and failed is final ("failed ->
\* notified is not allowed for the same request_id").  What is settled in the
\* view only, or overwritten by an older list, may come back.
ViewMovesForward ==
  [][mishap' \cap {"behind", "stale", "unreported", "unqueued"} = {} =>
       \A r \in Requests :
         Forward(view[r].status, view'[r].status)]_vars

\* Every sender comes to an end, and no request that the hooks are to deliver
\* stays pending.  (One of a direct sender may: when it fails in the view only
\* and the next exec renders it pending, nobody looks at it again.)
RequestsSettle ==
  <>[](/\ \A s \in Sender : snd[s].pc \in {"idle", "done"}
       /\ \A r \in Requests : Pending(r) => r \in Direct)
=============================================================================
