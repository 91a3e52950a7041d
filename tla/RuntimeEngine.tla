--------------------------- MODULE RuntimeEngine ---------------------------
(***************************************************************************)
(* The state of the Rust engine (src/crates/omx-runtime-core) as a pure    *)
(* object: which command is legal in a state, what it does, and the state  *)
(* a log of events rebuilds.  An event holds what its command held, so a   *)
(* command and the event it produces are the same record [op, on].         *)
(*                                                                         *)
(*   acquire, renew               on an owner     authority.rs             *)
(*   queue, notify, deliver, fail on a request    dispatch.rs              *)
(*   create, mailNotify, mailDeliver on a message mailbox.rs               *)
(*   replay, capture              change nothing a later command looks at  *)
(***************************************************************************)
EXTENDS SequencesExt

CONSTANTS Requests, Messages, Owners, NoOwner

ASSUME OwnerAssumption == NoOwner \notin Owners

Unfinished == {"pending", "notified"}
Finished == {"delivered", "failed"}
DispatchStatus == Unfinished \cup Finished
MailStatus == {"created", "notified", "delivered"}

DispatchOps == {"queue", "notify", "deliver", "fail"}
MailOps == {"create", "mailNotify", "mailDeliver"}

Command ==
  [op : {"acquire", "renew"}, on : Owners]
    \cup [op : DispatchOps, on : Requests]
    \cup [op : MailOps, on : Messages]
    \cup [op : {"replay", "capture"}, on : {NoOwner}]

EngineState ==
  [dispatch : [Requests -> DispatchStatus \cup {"none"}],
   mailbox  : [Messages -> MailStatus \cup {"none"}],
   owner    : Owners \cup {NoOwner}]

NewEngine ==
  [dispatch |-> [r \in Requests |-> "none"],
   mailbox  |-> [m \in Messages |-> "none"],
   owner    |-> NoOwner]

-----------------------------------------------------------------------------
\* The statuses of a dispatch record from which an operation is accepted.
LegalFrom(op) ==
  CASE op = "notify"  -> {"pending"}
    [] op = "deliver" -> {"notified"}
    [] op = "fail"    -> Unfinished
    [] OTHER          -> DispatchStatus \cup {"none"}

\* Mutation of Legal: acquire takes the authority from whoever holds it.
LegalStealing(s, c) ==
  CASE c.op \in DispatchOps -> s.dispatch[c.on] \in LegalFrom(c.op)
    [] c.op = "renew" -> s.owner = c.on
    [] c.op \in MailOps \ {"create"} -> s.mailbox[c.on] \in MailStatus \ {"delivered"}
    [] OTHER -> TRUE

\* Whether process() accepts a command.  queue and create look at nothing.
Legal(s, c) ==
  CASE c.op \in DispatchOps -> s.dispatch[c.on] \in LegalFrom(c.op)
    [] c.op = "acquire" -> s.owner \in {NoOwner, c.on}
    [] c.op = "renew" -> s.owner = c.on
    [] c.op \in MailOps \ {"create"} -> s.mailbox[c.on] \in MailStatus \ {"delivered"}
    [] OTHER -> TRUE

\* What a new record becomes.  queue and create push without looking, and
\* find_mut only ever finds the first record of an id.
Pushed(old, new) == IF old = "none" THEN new ELSE old

\* What an accepted command does.
Apply(s, c) ==
  CASE c.op = "queue"   -> [s EXCEPT !.dispatch[c.on] = Pushed(@, "pending")]
    [] c.op = "notify"  -> [s EXCEPT !.dispatch[c.on] = "notified"]
    [] c.op = "deliver" -> [s EXCEPT !.dispatch[c.on] = "delivered"]
    [] c.op = "fail"    -> [s EXCEPT !.dispatch[c.on] = "failed"]
    [] c.op = "create"      -> [s EXCEPT !.mailbox[c.on] = Pushed(@, "created")]
    [] c.op = "mailNotify"  -> [s EXCEPT !.mailbox[c.on] = "notified"]
    [] c.op = "mailDeliver" -> [s EXCEPT !.mailbox[c.on] = "delivered"]
    [] c.op \in {"acquire", "renew"} -> [s EXCEPT !.owner = c.on]
    [] OTHER -> s

\* replay_event: an event the state does not accept is skipped (let _ = ...).
ReplayEvent(s, e) == IF Legal(s, e) THEN Apply(s, e) ELSE s

\* The loop of load() over the events.
Replay(log) ==
  LET after[n \in 0 .. Len(log)] ==
        IF n = 0 THEN NewEngine ELSE ReplayEvent(after[n - 1], log[n])
  IN after[Len(log)]

\* The events of some operations that were legal where they stand in the log:
\* the others are skipped when it is replayed.
ReplaysCleanly(log, ops) ==
  \A n \in DOMAIN log :
    log[n].op \in ops => Legal(Replay(SubSeq(log, 1, n - 1)), log[n])

\* The log without the events in a set.
Without(log, gone) ==
  LET kept[n \in 0 .. Len(log)] ==
        IF n = 0 THEN <<>>
        ELSE IF log[n] \in gone THEN kept[n - 1]
        ELSE Append(kept[n - 1], log[n])
  IN kept[Len(log)]

\* The events of some requests that some operations leave behind.
Events(ops, requests) == {e \in Command : e.op \in ops /\ e.on \in requests}

\* The requests that are delivered or failed.
Ended(s) == {r \in Requests : s.dispatch[r] \in Finished}

\* Mutation of Compacted: the last event of a finished request is kept.
CompactedKeepingLast(log, s) == Without(log, Events({"queue", "notify"}, Ended(s)))

\* Mutation of Compacted: requests that are only notified are forgotten too.
CompactedNotified(log, s) ==
  Without(log, Events(DispatchOps, {r \in Requests : s.dispatch[r] # "pending"}))

\* compact(): forget the events of requests that are delivered or failed.
Compacted(log, s) == Without(log, Events(DispatchOps, Ended(s)))
=============================================================================
