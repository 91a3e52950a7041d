----------------------------- MODULE MCDirLock -----------------------------
(* DirLock on a few processes; the configurations choose the environment.  *)
EXTENDS DirLock
=============================================================================
