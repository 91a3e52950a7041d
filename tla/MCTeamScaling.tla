--------------------------- MODULE MCTeamScaling ---------------------------
(* TeamScaling with interchangeable processes.                              *)
EXTENDS TeamScaling, TLC

Symmetry == Permutations(Actor)
=============================================================================
