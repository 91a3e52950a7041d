----------------------------- MODULE CommandLog -----------------------------
(***************************************************************************)
(* What the Rust runtime promises its callers: one log of events, written  *)
(* by one engine at a time, in which every command takes effect at once on *)
(* the state the log stands for, or not at all.  What the commands are,    *)
(* what they do and what compacting drops is left open; RuntimeExec gives  *)
(* it by the operators of RuntimeEngine.                                   *)
(***************************************************************************)
EXTENDS Sequences

CONSTANTS
  Command,          \* the commands; the event of a command is the command
  InitLogs,         \* the logs it may start from
  Replay(_),        \* the state that a log stands for
  Legal(_, _),      \* whether a command is accepted in a state
  Apply(_, _),      \* what it does to the state
  Compacted(_, _)   \* the log without what is finished in a state

VARIABLE log

Init == log \in InitLogs

\* A command is accepted in the state the log stands for.
Accept(c) ==
  /\ Legal(Replay(log), c)
  /\ log' = Append(log, c)

\* exec --compact: the events of the requests then finished are dropped.
AcceptAndCompact(c) ==
  /\ Legal(Replay(log), c)
  /\ log' = Compacted(Append(log, c), Apply(Replay(log), c))

\* omx-runtime init.
Reset == log' = <<>>

Next == Reset \/ \E c \in Command : Accept(c) \/ AcceptAndCompact(c)
=============================================================================
