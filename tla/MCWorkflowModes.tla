-------------------------- MODULE MCWorkflowModes --------------------------
(* Two callers on one session and the root.  ralplan makes room for team and *)
(* for ralph, which may both be active; neither may go back to ralplan.      *)
EXTENDS WorkflowModes, TLC

CONSTANTS p1, p2, s1

MCCallers == {p1, p2}
MCSymmetry == Permutations(MCCallers)
MCSessions == {s1}
MCModes == {"ralplan", "team", "ralph"}
=============================================================================
