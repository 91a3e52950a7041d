---------------------------- MODULE RuntimeExec ----------------------------
(***************************************************************************)
(* omx-runtime exec and init (src/crates/omx-runtime/src/main.rs) on one   *)
(* state directory, run by processes that share nothing but its files:     *)
(*                                                                         *)
(*   load     shared flock: events.json, mailbox.json; then process() in   *)
(*            memory; an unreadable event log means a new, empty engine    *)
(*   persist  exclusive flock: events.json and mailbox.json, in place      *)
(*   view     no lock: dispatch.json and mailbox.json, in place            *)
(*                                                                         *)
(* The flock covers load and persist each by itself, never both.  A write  *)
(* in place truncates the file and then fills it: a reader, or a crash, in *)
(* between meets an empty file, and two writers may leave a mixture.       *)
(*                                                                         *)
(* A file is the set of the texts in it: {} missing or truncated, {x} the  *)
(* text x, more than one a mixture, which does not parse.  The files that  *)
(* nobody loads again (snapshot.json, authority.json, backlog.json,        *)
(* readiness.json, replay.json) are left out.                              *)
(***************************************************************************)
EXTENDS RuntimeEngine

CONSTANTS
  Proc,           \* processes that run omx-runtime
  Commands,       \* the commands they issue
  NoCommand,      \* stands for the init subcommand
  InitLogs,       \* the logs that calls long gone may have left
  MaxExecs,       \* bound on the calls of omx-runtime
  MaxCrashes      \* bound on the calls that are killed

ASSUME CommandsAssumption == Commands \subseteq Command /\ NoCommand \notin Command
\* Those calls, too, worked with a mailbox.json that was not stale.
ASSUME InitLogsAssumption ==
  /\ InitLogs \subseteq Seq(Command)
  /\ \A log \in InitLogs :
       ReplaysCleanly(log, DispatchOps \cup MailOps \cup {"acquire", "renew"})
ASSUME BoundsAssumption == MaxExecs \in Nat /\ MaxCrashes \in Nat

VARIABLES
  pc,         \* pc[p]: where the call of p is, "idle" outside of any call
  run,        \* run[p]: its command, the log it loaded, the engine it holds
  events,     \* events.json
  mailbox,    \* mailbox.json
  dispatch,   \* dispatch.json
  issued,     \* calls so far
  crashes,    \* calls killed so far
  committed,  \* history: the log last written to events.json
  acked,      \* history: the commands whose caller was told of success
  forgotten,  \* history: the finished requests whose events were compacted
  mishap      \* history: what went wrong so far (see below)

vars == <<pc, run, events, mailbox, dispatch, issued, crashes, committed, acked,
          forgotten, mishap>>

\* "writeback"  an engine was persisted over a log it had not loaded
\* "lost"       a call died between truncating events.json and filling it
\* "init"       init emptied the directory
\* "view"       mailbox.json or dispatch.json came to hold a mixture or an
\*              older engine's records, or was left so by a call that died
Mishaps == {"writeback", "lost", "init", "view"}

Persisting == {"events", "mail", "mailWrite"}
Viewing == {"view", "viewWrite", "viewMailWrite"}
Status == {"idle", "lock"} \cup Persisting \cup Viewing

Run == [cmd : Commands \cup {NoCommand}, base : Seq(Command), log : Seq(Command),
        dispatch : [Requests -> DispatchStatus \cup {"none"}],
        mailbox : [Messages -> MailStatus \cup {"none"}]]

NoRun == [cmd |-> NoCommand, base |-> <<>>, log |-> <<>>,
          dispatch |-> NewEngine.dispatch, mailbox |-> NewEngine.mailbox]

Parses(file) == Cardinality(file) = 1
Text(file) == CHOOSE x \in file : TRUE

\* The exclusive flock admits one writer of events.json at a time.
OneWriter == \A p, q \in Proc : {pc[p], pc[q]} \subseteq Persisting => p = q

TypeOK ==
  /\ pc \in [Proc -> Status]
  /\ \A p \in Proc : run[p] \in Run
  /\ events \in SUBSET Seq(Command) /\ Cardinality(events) <= 1
  /\ mailbox \in SUBSET [Messages -> MailStatus \cup {"none"}]
  /\ dispatch \in SUBSET [Requests -> DispatchStatus \cup {"none"}]
  /\ issued \in 0 .. MaxExecs
  /\ crashes \in 0 .. MaxCrashes
  /\ committed \in Seq(Command)
  /\ acked \subseteq Commands
  /\ forgotten \subseteq Requests
  /\ mishap \subseteq Mishaps
  /\ OneWriter

Init ==
  /\ pc = [p \in Proc |-> "idle"]
  /\ run = [p \in Proc |-> NoRun]
  /\ \E log \in InitLogs :
       /\ committed = log
       /\ events = {log}
       /\ mailbox = {Replay(log).mailbox}
       /\ dispatch = {Replay(log).dispatch}
  /\ issued = 0 /\ crashes = 0
  /\ acked = {} /\ forgotten = {} /\ mishap = {}

-----------------------------------------------------------------------------
Goto(p, where) == pc' = [pc EXCEPT ![p] = where]
Note(what) == mishap' = mishap \cup what

\* The outcomes of filling a file that the writer truncated before.  If the
\* file is no longer empty, another writer has filled it in between.
Filled(file, text) == IF file \subseteq {text} THEN {{text}} ELSE {{text}, file \cup {text}}

NobodyPersists == \A p \in Proc : pc[p] \notin Persisting

\* load(), or an empty engine when it fails.  A mailbox.json that parses
\* replaces the mailbox the events rebuilt.
Loaded ==
  CASE ~Parses(events) -> NewEngine
    [] Parses(events) /\ Parses(mailbox) ->
         [Replay(Text(events)) EXCEPT !.mailbox = Text(mailbox)]
    [] OTHER -> Replay(Text(events))

\* Mutation of LoadedLog: the events are replayed but not kept.
LoadedLogForgotten == <<>>

LoadedLog == IF Parses(events) THEN Text(events) ELSE <<>>

\* exec: load under the shared lock, process the command, with --compact
\* forget what is finished.  The rest happens in the memory of p.  A command
\* that is not legal ends the call with an error, before anything is written.
Exec(p, c, compact) ==
  /\ pc[p] = "idle" /\ issued < MaxExecs
  /\ NobodyPersists
  /\ Legal(Loaded, c)
  /\ LET s == Apply(Loaded, c)
         l == Append(LoadedLog, c)
     IN run' = [run EXCEPT ![p] =
          [cmd |-> c, base |-> committed,
           log |-> IF compact THEN Compacted(l, s) ELSE l,
           dispatch |-> s.dispatch, mailbox |-> s.mailbox]]
  /\ Note(IF Loaded = Replay(committed) THEN {} ELSE {"view"})
  /\ issued' = issued + 1
  /\ Goto(p, "lock")
  /\ UNCHANGED <<events, mailbox, dispatch, crashes, committed, acked, forgotten>>

\* init: an empty engine, persisted over whatever is there.
Initialise(p) ==
  /\ pc[p] = "idle" /\ issued < MaxExecs
  /\ run' = [run EXCEPT ![p] = NoRun]
  /\ issued' = issued + 1
  /\ Goto(p, "lock")
  /\ UNCHANGED <<events, mailbox, dispatch, crashes, committed, acked, forgotten, mishap>>

\* Mutation of LockAndTruncate: persist does not take the flock.
TruncateUnlocked(p) ==
  /\ pc[p] = "lock"
  /\ events' = {}
  /\ Goto(p, "events")
  /\ UNCHANGED <<run, mailbox, dispatch, issued, crashes, committed, acked, forgotten, mishap>>

\* Mutation of LockAndTruncate: load keeps its shared flock for the whole call.
LockWhileShared(p) ==
  /\ pc[p] = "lock"
  /\ \A q \in Proc \ {p} : pc[q] = "idle"
  /\ events' = {}
  /\ Goto(p, "events")
  /\ UNCHANGED <<run, mailbox, dispatch, issued, crashes, committed, acked, forgotten, mishap>>

\* persist: lock_exclusive, then fs::write truncates events.json.
LockAndTruncate(p) ==
  /\ pc[p] = "lock"
  /\ NobodyPersists
  /\ events' = {}
  /\ Goto(p, "events")
  /\ UNCHANGED <<run, mailbox, dispatch, issued, crashes, committed, acked, forgotten, mishap>>

\* The finished requests of a call that its log says nothing of (any more).
Dropped(r) ==
  {q \in Requests : /\ r.dispatch[q] \in Finished
                    /\ \A e \in Range(r.log) : e.op \in DispatchOps => e.on # q}

\* The events are in events.json: the moment the command takes effect.
WriteEvents(p) ==
  /\ pc[p] = "events"
  /\ events' = {run[p].log}
  /\ committed' = run[p].log
  /\ forgotten' = forgotten \cup Dropped(run[p])
  /\ Note(CASE run[p].cmd = NoCommand -> {"init"}
            [] run[p].cmd # NoCommand /\ run[p].base # committed -> {"writeback"}
            [] OTHER -> {})
  /\ Goto(p, "mail")
  /\ UNCHANGED <<run, mailbox, dispatch, issued, crashes, acked>>

\* persist: fs::write truncates mailbox.json.
TruncateMailbox(p) ==
  /\ pc[p] = "mail"
  /\ Goto(p, "mailWrite")
  /\ mailbox' = {}
  /\ UNCHANGED <<run, events, dispatch, issued, crashes, committed, acked, forgotten, mishap>>

\* p is about to write the records of an engine that is not the last one
\* persisted, and the one that persisted it will not write after p.
Superseded(p, before) ==
  /\ run[p].log # committed
  /\ ~ \E q \in Proc : pc[q] \in before /\ run[q].log = committed

\* The end of persist: mailbox.json, then the flock is dropped.  init is done.
WriteMailbox(p) ==
  /\ pc[p] = "mailWrite"
  /\ mailbox' \in Filled(mailbox, run[p].mailbox)
  /\ Note(IF Parses(mailbox') THEN {} ELSE {"view"})
  /\ Goto(p, IF run[p].cmd = NoCommand THEN "idle" ELSE "view")
  /\ run' = IF run[p].cmd = NoCommand THEN [run EXCEPT ![p] = NoRun] ELSE run
  /\ UNCHANGED <<events, dispatch, issued, crashes, committed, acked, forgotten>>

\* view: fs::write truncates dispatch.json, then fills it; and truncates
\* mailbox.json (one step: nobody reads the one file for the other).
TruncateDispatch(p) ==
  /\ pc[p] = "view"
  /\ dispatch' = {}
  /\ Goto(p, "viewWrite")
  /\ UNCHANGED <<run, events, mailbox, issued, crashes, committed, acked, forgotten, mishap>>

WriteDispatch(p) ==
  /\ pc[p] = "viewWrite"
  /\ dispatch' \in Filled(dispatch, run[p].dispatch)
  /\ Note(IF Parses(dispatch') /\ ~Superseded(p, Persisting \cup {"view", "viewWrite"})
          THEN {} ELSE {"view"})
  /\ mailbox' = {}
  /\ Goto(p, "viewMailWrite")
  /\ UNCHANGED <<run, events, issued, crashes, committed, acked, forgotten>>

\* Mutation of WriteMailboxView: success is reported before the view is out.
WriteMailboxViewNowhere(p) ==
  /\ pc[p] = "viewMailWrite"
  /\ acked' = acked \cup {run[p].cmd}
  /\ Goto(p, "idle")
  /\ run' = [run EXCEPT ![p] = NoRun]
  /\ UNCHANGED <<events, mailbox, dispatch, issued, crashes, committed, forgotten, mishap>>

\* view: mailbox.json once more; then the event is printed and exec succeeds.
WriteMailboxView(p) ==
  /\ pc[p] = "viewMailWrite"
  /\ mailbox' \in Filled(mailbox, run[p].mailbox)
  /\ Note(IF Parses(mailbox') /\ ~Superseded(p, Persisting \cup Viewing)
          THEN {} ELSE {"view"})
  /\ acked' = acked \cup {run[p].cmd}
  /\ Goto(p, "idle")
  /\ run' = [run EXCEPT ![p] = NoRun]
  /\ UNCHANGED <<events, dispatch, issued, crashes, committed, forgotten>>

\* The call of p is killed, by the timeout of its caller (10 s in bridge.ts,
\* 5 s in team-dispatch.ts) or otherwise.  The system drops its flock.
Crash(p) ==
  /\ pc[p] # "idle" /\ crashes < MaxCrashes
  /\ crashes' = crashes + 1
  /\ committed' = IF pc[p] = "events" THEN <<>> ELSE committed
  /\ Note(CASE pc[p] = "lock" -> {}
            [] pc[p] = "events" -> {"lost"}
            [] OTHER -> {"view"})
  /\ Goto(p, "idle")
  /\ run' = [run EXCEPT ![p] = NoRun]
  /\ UNCHANGED <<events, mailbox, dispatch, issued, acked, forgotten>>

Step(p) ==
  \/ LockAndTruncate(p) \/ WriteEvents(p) \/ TruncateMailbox(p) \/ WriteMailbox(p)
  \/ TruncateDispatch(p) \/ WriteDispatch(p) \/ WriteMailboxView(p)

Next ==
  \E p \in Proc :
    \/ \E c \in Commands, compact \in BOOLEAN : Exec(p, c, compact)
    \/ Initialise(p)
    \/ Step(p)
    \/ Crash(p)

Spec == Init /\ [][Next]_vars

FairSpec == Spec /\ \A p \in Proc : WF_vars(Step(p))

-----------------------------------------------------------------------------
\* events.json is what the last call that filled it wrote.  It is unreadable,
\* so that the next call would start from nothing, only while a call is
\* filling it under the flock or after a call has died at that point.
LogIsReadable ==
  \/ events = {committed}
  \/ events = {} /\ ("lost" \in mishap \/ \E p \in Proc : pc[p] = "events")

\* Whatever calls overlap or die, and however often the log is compacted, the
\* replay of events.json skips no dispatch or authority event: load() ignores
\* the errors of replay_event, so an event skipped would be lost unseen.  The
\* same of mailbox events, until an engine works with a stale mailbox.json.
LogReplaysCleanly ==
  \A log \in events :
    /\ ReplaysCleanly(log, DispatchOps \cup {"acquire", "renew"})
    /\ "view" \notin mishap => ReplaysCleanly(log, MailOps)

\* An acknowledged command is in the log, or its request is finished and was
\* compacted, unless two calls overlapped so that one wrote back over the
\* other, a call died in the middle of events.json, or init was called.
AcksAreDurable ==
  mishap \cap {"writeback", "lost", "init"} = {} =>
    \A c \in acked :
      \/ c \in Range(committed)
      \/ c.op \in DispatchOps /\ c.on \in forgotten

\* "Exactly one semantic authority owner may be active at a time": until one
\* of the same mishaps, no two owners are told that they have the authority.
OneAuthority ==
  mishap \cap {"writeback", "lost", "init"} = {} =>
    \A c, d \in acked :
      {c.op, d.op} \subseteq {"acquire", "renew"} => c.on = d.on

\* When no call runs, the files that the TypeScript side reads agree with the
\* log, up to finished requests that were compacted, unless a view was written
\* late or left unfinished, the log was lost or init (which writes none) ran.
QuietViewIsCurrent ==
  (\A p \in Proc : pc[p] = "idle") /\ mishap \subseteq {"writeback"} /\ committed # <<>> =>
    /\ mailbox = {Replay(committed).mailbox}
    /\ Parses(dispatch)
    /\ \A r \in Requests :
         \/ Text(dispatch)[r] = Replay(committed).dispatch[r]
         \/ Replay(committed).dispatch[r] = "none" /\ Text(dispatch)[r] \in Finished

\* Until a mishap the executables, however they overlap, are one atomic
\* command log: each call takes effect when it fills events.json, or never.
Abstract == INSTANCE CommandLog WITH log <- committed
ImplementsCommandLog ==
  /\ Abstract!Init
  /\ [][mishap' \subseteq {"init"} => Abstract!Next]_committed

\* Every call of omx-runtime ends: nobody waits for the flock for ever.
ExecsFinish == \A p \in Proc : pc[p] # "idle" ~> pc[p] = "idle"
=============================================================================
