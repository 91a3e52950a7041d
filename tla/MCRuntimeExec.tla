--------------------------- MODULE MCRuntimeExec ---------------------------
(***************************************************************************)
(* RuntimeExec on one request, one message and two owners.                 *)
(***************************************************************************)
EXTENDS RuntimeExec

CONSTANTS r1, m1, o1, o2

MCRequests == {r1}
MCMessages == {m1}
MCOwners == {o1, o2}

\* A request and a message under way; init leads to the empty directory.
MCInitLogs == {<<[op |-> "queue", on |-> r1], [op |-> "create", on |-> m1]>>}

\* Messages are created before; replay and capture change nothing.
MCCommands ==
  [op : {"acquire"}, on : MCOwners]
    \cup [op : DispatchOps, on : MCRequests]
    \cup [op : {"mailDeliver"}, on : MCMessages]
=============================================================================
