-------------------------- MODULE MCDispatchQueue --------------------------
(***************************************************************************)
(* DispatchQueue on two requests.                                          *)
(***************************************************************************)
EXTENDS DispatchQueue

CONSTANTS r1, r2, h1, h2

MCRequests == {r1, r2}
MCHooks == {h1, h2}

\* Two hooks beside a direct sender; and two senders of one instruction.
MCTeams ==
  {[hooks |-> {h1, h2}, direct |-> {r2}, equivalent |-> {}, maxFaults |-> 1],
   [hooks |-> {h1}, direct |-> {}, equivalent |-> {<<r1, r2>>, <<r2, r1>>},
    maxFaults |-> 0]}
=============================================================================
