---------------------------- MODULE MCTeamPhase ----------------------------
(* TeamPhase with overlapping polls and a hook.                             *)
EXTENDS TeamPhase, TLC

Symmetry == Permutations(Poller)
=============================================================================
